--------------------------- MODULE HubEdgesProofs ---------------------------
(***************************************************************************)
(* Proofs about HubEdges, for any hubs, types and items, any number of     *)
(* runs of the inference, any options and any number of writes: types,     *)
(* that the store is a review in the sense of EdgeReview, and that the     *)
(* plan of a run leaves out the weakest.                                   *)
(***************************************************************************)
EXTENDS HubEdges, SequenceTheorems, FiniteSetTheorems, WellFoundedInduction, TLAPS

\* The keys of proposals.
Related == {<<p[1], p[2], "related">> : p \in Pairs(Hubs)}

\* No two rows in force have the same key.
Alone ==
  \A i, j \in 1 .. Len(edges) :
    edges[i].key = edges[j].key /\ ~edges[i].archived /\ ~edges[j].archived => i = j

\* What a run knows of its own proposals and rows.
Own(v) ==
  /\ v.step # "insert" => v.mine = <<>>
  /\ v.mine \in Seq(Related)
  /\ \A m, n \in 1 .. Len(v.mine) : v.mine[m] = v.mine[n] => m = n
  /\ \A p, q \in v.todo : p.pair = q.pair => p = q
  /\ \A p \in v.todo, n \in 1 .. Len(v.mine) : v.mine[n] # ProposalKey(p)

\* Its rows are nobody else's.
Apart(r) ==
  \A k \in Mine(r) : Holders(k) = {} /\ \A q \in Runs \ {r} : k \notin Mine(q)

HInv ==
  /\ TypeOK
  /\ Alone
  /\ \A r \in Runs : Own(run[r]) /\ Apart(r)

-----------------------------------------------------------------------------
(* Keys and rows.                                                          *)

LEMMA KeyIsKey ==
  ASSUME NEW a \in Hubs, NEW b \in Hubs, NEW t \in Types, a # b
  PROVE  KeyOf(a, b, t) \in Keys
<1>1. a \in Nat /\ b \in Nat
  BY HubsAssumption
<1>2. CASE a < b
  <2>1. <<a, b>> \in Pairs(Hubs) /\ KeyOf(a, b, t) = <<a, b, t>>
    BY <1>1, <1>2 DEF Pairs, KeyOf
  <2> QED
    BY <2>1 DEF Keys
<1>3. CASE b < a
  <2>1. <<b, a>> \in Pairs(Hubs) /\ KeyOf(a, b, t) = <<b, a, t>>
    BY <1>1, <1>3 DEF Pairs, KeyOf
  <2> QED
    BY <2>1 DEF Keys
<1> QED
  BY <1>1, <1>2, <1>3

LEMMA RelatedKeys ==
  ASSUME NEW k \in Related
  PROVE  /\ k \in Keys /\ k[1] \in Hubs /\ k[2] \in Hubs
         /\ NewEdge(k[1], k[2], "related", "inferred") \in Edge
         /\ NewEdge(k[1], k[2], "related", "inferred").key = k
         /\ NewEdge(k[1], k[2], "related", "inferred").status = "inferred"
         /\ ~NewEdge(k[1], k[2], "related", "inferred").archived
<1>1. PICK p \in Pairs(Hubs) : k = <<p[1], p[2], "related">>
  BY DEF Related
<1>2. k \in Keys
  BY <1>1, TypesAssumption DEF Keys
<1>3. /\ p[1] \in Hubs /\ p[2] \in Hubs /\ p[1] < p[2] /\ p[1] \in Nat /\ p[2] \in Nat
      /\ k[1] = p[1] /\ k[2] = p[2]
  BY <1>1, HubsAssumption DEF Pairs
<1>4. KeyOf(k[1], k[2], "related") = k
  BY <1>1, <1>3 DEF KeyOf
<1> QED
  BY <1>2, <1>3, <1>4, TypesAssumption DEF NewEdge, Edge, Statuses

LEMMA NewEdgeType ==
  ASSUME NEW a \in Hubs, NEW b \in Hubs, NEW t \in Types, NEW s \in Statuses, a # b
  PROVE  /\ NewEdge(a, b, t, s) \in Edge /\ NewEdge(a, b, t, s).key = KeyOf(a, b, t)
         /\ NewEdge(a, b, t, s).status = s /\ ~NewEdge(a, b, t, s).archived
BY KeyIsKey DEF NewEdge, Edge

\* At most one row holds a key.
LEMMA OneHolder ==
  ASSUME Alone, NEW k, NEW i \in Holders(k)
  PROVE  Holders(k) = {i}
BY DEF Alone, Holders

\* ... and its status is the verdict.
LEMMA InForceIs ==
  ASSUME edges \in Seq(Edge), Alone, NEW k, NEW i \in Holders(k)
  PROVE  InForce(k) = edges[i].status /\ edges[i].status \in Statuses
<1>1. Holders(k) = {i} /\ i \in 1 .. Len(edges)
  BY OneHolder DEF Holders
<1>2. edges[i].status \in Statuses
  <2>1. edges[i] \in Edge
    BY <1>1
  <2> QED
    BY <2>1 DEF Edge
<1>3. (CHOOSE j \in Holders(k) : \A l \in Holders(k) : l <= j) = i
  BY <1>1
<1> QED
  BY <1>1, <1>2, <1>3 DEF InForce

LEMMA InForceType ==
  ASSUME edges \in Seq(Edge), Alone, NEW k
  PROVE  InForce(k) \in Statuses \cup {"none"}
BY InForceIs DEF InForce

-----------------------------------------------------------------------------
(* People.                                                                 *)

\* A step of people keeps the invariant if it respects the rows not yet committed.
LEMMA PeopleKeep ==
  ASSUME HInv, run' = run, edges' \in Seq(Edge), Alone', links' \subseteq Hubs \X Items,
         active' \subseteq Hubs, writes' \in 0 .. MaxWrites,
         \A k \in Pending : Holders(k)' = {}
  PROVE  HInv'
<1>1. TypeOK'
  BY DEF HInv, TypeOK
<1>2. ASSUME NEW r \in Runs
      PROVE  Own(run[r])' /\ Apart(r)'
  <2>1. Own(run[r])'
    BY DEF HInv, Own
  <2>2. \A q \in Runs : Mine(q)' = Mine(q)
    BY DEF Mine
  <2>3. \A k \in Mine(r) : k \in Pending
    BY DEF Pending
  <2>4. Apart(r)
    BY DEF HInv
  <2> QED
    BY <2>1, <2>2, <2>3, <2>4 DEF Apart
<1> QED
  BY <1>1, <1>2 DEF HInv

LEMMA PendingFree == HInv => \A k \in Pending : Holders(k) = {}
BY DEF HInv, Pending, Apart

LEMMA WriteCounts == HInv /\ Write => writes' \in 0 .. MaxWrites /\ writes' = writes + 1
<1>1. MaxWrites \in Nat
  BY OptionsAssumption
<1> QED
  BY <1>1 DEF HInv, TypeOK, Write

\* The verdict on a key changes only with its holder.
LEMMA SameVerdict ==
  ASSUME edges \in Seq(Edge), Alone, edges' \in Seq(Edge), Alone', NEW k,
         Holders(k)' = Holders(k),
         \A i \in Holders(k) : edges'[i].status = edges[i].status
  PROVE  InForce(k)' = InForce(k)
<1>1. CASE Holders(k) = {}
  BY <1>1 DEF InForce
<1>2. ASSUME NEW i \in Holders(k)
      PROVE  InForce(k)' = InForce(k)
  <2>1. InForce(k) = edges[i].status
    BY <1>2, InForceIs
  <2>2. Holders(k)' = {i}
    BY <1>2, OneHolder
  <2>3. (CHOOSE j \in Holders(k)' : \A l \in Holders(k)' : l <= j) = i
    <3>1. i \in Nat
      BY <1>2 DEF Holders
    <3> QED
      BY <2>2, <3>1
  <2> QED
    BY <1>2, <2>1, <2>2, <2>3 DEF InForce
<1> QED
  BY <1>1, <1>2

\* A row is added under a key that has none.
LEMMA Added ==
  ASSUME HInv, NEW e \in Edge, ~e.archived, Holders(e.key) = {}, edges' = Append(edges, e)
  PROVE  /\ edges' \in Seq(Edge) /\ Alone'
         /\ \A k : k # e.key => Holders(k)' = Holders(k)
         /\ \A i \in 1 .. Len(edges) : edges'[i] = edges[i]
<1>1. edges \in Seq(Edge) /\ Alone
  BY DEF HInv, TypeOK
<1>2. /\ edges' \in Seq(Edge) /\ Len(edges') = Len(edges) + 1 /\ Len(edges) \in Nat
      /\ edges'[Len(edges) + 1] = e
      /\ \A i \in 1 .. Len(edges) : edges'[i] = edges[i]
  BY <1>1, AppendProperties
<1> DEFINE n == Len(edges) + 1
<1>3. 1 .. Len(edges') = (1 .. Len(edges)) \cup {n} /\ n \notin 1 .. Len(edges)
  BY <1>2
<1>4. edges'[n] = e
  BY <1>2
<1> HIDE DEF n
<1>5. \A i \in 1 .. Len(edges) : edges[i].key = e.key => edges[i].archived
  BY DEF Holders
<1>6. Alone'
  <2> SUFFICES ASSUME NEW i \in 1 .. Len(edges'), NEW j \in 1 .. Len(edges'),
                      edges'[i].key = edges'[j].key, ~edges'[i].archived, ~edges'[j].archived
               PROVE  i = j
    BY DEF Alone
  <2>1. CASE i = n /\ j = n
    BY <2>1
  <2>2. CASE i # n /\ j # n
    BY <1>1, <1>2, <1>3, <2>2 DEF Alone
  <2>3. CASE i = n /\ j # n
    BY <1>2, <1>3, <1>4, <1>5, <2>3
  <2>4. CASE i # n /\ j = n
    BY <1>2, <1>3, <1>4, <1>5, <2>4
  <2> QED
    BY <2>1, <2>2, <2>3, <2>4
<1>7. ASSUME NEW k, k # e.key
      PROVE  Holders(k)' = Holders(k)
  <2>1. Holders(k)' = {i \in 1 .. Len(edges') : edges'[i].key = k /\ ~edges'[i].archived}
    BY DEF Holders
  <2> QED
    BY <1>2, <1>3, <1>4, <1>7, <2>1 DEF Holders
<1> QED
  BY <1>2, <1>6, <1>7

\* Rows change, but not in key, and none comes back into force.
LEMMA Changed ==
  ASSUME HInv, edges' \in Seq(Edge), Len(edges') = Len(edges),
         \A i \in 1 .. Len(edges) : /\ edges'[i].key = edges[i].key
                                    /\ edges[i].archived => edges'[i].archived
  PROVE  Alone' /\ \A k : Holders(k)' \subseteq Holders(k)
<1>1. Alone
  BY DEF HInv
<1>2. Alone'
  BY <1>1 DEF Alone
<1>3. ASSUME NEW k
      PROVE  Holders(k)' \subseteq Holders(k)
  <2>1. Holders(k)' = {i \in 1 .. Len(edges') : edges'[i].key = k /\ ~edges'[i].archived}
    BY DEF Holders
  <2> QED
    BY <2>1 DEF Holders
<1> QED
  BY <1>2, <1>3

\* Only the key k may get another verdict.
Only(k) == \A l \in Keys \ {k} : InForce(l)' = InForce(l)

LEMMA AddByPeople ==
  ASSUME HInv, NEW e \in Edge, ~e.archived, Holders(e.key) = {}, e.key \notin Pending,
         edges' = Append(edges, e), Write, UNCHANGED <<links, active, run>>
  PROVE  HInv' /\ Only(e.key)
<1>1. /\ edges' \in Seq(Edge) /\ Alone'
      /\ \A k : k # e.key => Holders(k)' = Holders(k)
      /\ \A i \in 1 .. Len(edges) : edges'[i] = edges[i]
  BY Added
<1>2. edges \in Seq(Edge) /\ Alone /\ links \subseteq Hubs \X Items /\ active \subseteq Hubs
  BY DEF HInv, TypeOK
<1>3. HInv'
  <2>1. \A k \in Pending : Holders(k)' = {}
    BY <1>1, PendingFree
  <2> QED
    BY <1>1, <1>2, <2>1, WriteCounts, PeopleKeep
<1>4. ASSUME NEW k \in Keys \ {e.key}
      PROVE  InForce(k)' = InForce(k)
  <2>1. Holders(k)' = Holders(k) /\ Holders(k) \subseteq 1 .. Len(edges)
    BY <1>1 DEF Holders
  <2>2. \A i \in Holders(k) : edges'[i].status = edges[i].status
    BY <1>1, <2>1
  <2> QED
    BY <1>1, <1>2, <2>1, <2>2, SameVerdict
<1> QED
  BY <1>3, <1>4 DEF Only

LEMMA CreateEdgeStep ==
  ASSUME HInv, NEW a \in Hubs, NEW b \in Hubs, NEW t \in Types, NEW s \in Asked,
         CreateEdge(a, b, t, s)
  PROVE  HInv' /\ Write /\ \E k \in Keys : Only(k)
<1> DEFINE e == NewEdge(a, b, t, s)
<1>1. e \in Edge /\ e.key = KeyOf(a, b, t) /\ ~e.archived /\ a # b
  BY AskedAssumption, NewEdgeType DEF CreateEdge
<1>2. /\ Holders(KeyOf(a, b, t)) = {} /\ KeyOf(a, b, t) \notin Pending
      /\ edges' = Append(edges, e) /\ Write /\ UNCHANGED <<links, active, run>>
  BY DEF CreateEdge
<1>3. KeyOf(a, b, t) \in Keys
  BY <1>1, KeyIsKey
<1> HIDE DEF e
<1> QED
  BY <1>1, <1>2, <1>3, AddByPeople

\* A change of rows that leaves every key but k as it is.
LEMMA ChangeByPeople ==
  ASSUME HInv, NEW k, edges' \in Seq(Edge), Len(edges') = Len(edges),
         \A i \in 1 .. Len(edges) : /\ edges'[i].key = edges[i].key
                                    /\ edges[i].archived => edges'[i].archived
                                    /\ edges[i].key # k => /\ edges'[i].status = edges[i].status
                                                          /\ edges'[i].archived = edges[i].archived,
         Write, UNCHANGED <<links, active, run>>
  PROVE  HInv' /\ Only(k)
<1>1. Alone' /\ \A l : Holders(l)' \subseteq Holders(l)
  BY Changed
<1>2. edges \in Seq(Edge) /\ Alone /\ links \subseteq Hubs \X Items /\ active \subseteq Hubs
  BY DEF HInv, TypeOK
<1>3. HInv'
  <2>1. \A l \in Pending : Holders(l)' = {}
    BY <1>1, PendingFree
  <2> QED
    BY <1>1, <1>2, <2>1, WriteCounts, PeopleKeep
<1>4. ASSUME NEW l \in Keys \ {k}
      PROVE  InForce(l)' = InForce(l)
  <2>1. Holders(l)' = {i \in 1 .. Len(edges') : edges'[i].key = l /\ ~edges'[i].archived}
    BY DEF Holders
  <2>2. Holders(l)' = Holders(l)
    BY <1>4, <2>1 DEF Holders
  <2>3. \A i \in Holders(l) : edges'[i].status = edges[i].status
    BY <1>4 DEF Holders
  <2> QED
    BY <1>1, <1>2, <2>2, <2>3, SameVerdict
<1> QED
  BY <1>3, <1>4 DEF Only

LEMMA UpdateEdgeStep ==
  ASSUME HInv, NEW i \in 1 .. Len(edges), NEW t \in Types, NEW s \in Statuses, UpdateEdge(i, t, s)
  PROVE  HInv' /\ Write /\ \E k \in Keys : Only(k)
<1>1. edges \in Seq(Edge) /\ edges[i] \in Edge
  BY DEF HInv, TypeOK
<1>2. /\ edges' = [edges EXCEPT ![i] = [edges[i] EXCEPT !.type = t, !.status = s]]
      /\ Write /\ UNCHANGED <<links, active, run>>
  BY <1>1 DEF UpdateEdge
<1> DEFINE e == [edges[i] EXCEPT !.type = t, !.status = s]
<1>3. e \in Edge /\ e.key = edges[i].key /\ e.archived = edges[i].archived
  BY <1>1 DEF Edge
<1>4. /\ edges' \in Seq(Edge) /\ Len(edges') = Len(edges) /\ edges'[i] = e
      /\ \A j \in 1 .. Len(edges) : j # i => edges'[j] = edges[j]
  <2>1. edges' = [edges EXCEPT ![i] = e]
    BY <1>2
  <2> HIDE DEF e
  <2> QED
    BY <1>1, <1>3, <2>1
<1> HIDE DEF e
<1>5. \A j \in 1 .. Len(edges) :
         /\ edges'[j].key = edges[j].key
         /\ edges[j].archived => edges'[j].archived
         /\ edges[j].key # edges[i].key => /\ edges'[j].status = edges[j].status
                                          /\ edges'[j].archived = edges[j].archived
  BY <1>3, <1>4
<1>6. edges[i].key \in Keys
  BY <1>1 DEF Edge
<1> QED
  BY <1>2, <1>4, <1>5, <1>6, ChangeByPeople

LEMMA ArchiveEdgeStep ==
  ASSUME HInv, NEW i \in 1 .. Len(edges), ArchiveEdge(i)
  PROVE  HInv' /\ Write /\ \E k \in Keys : Only(k)
<1>1. edges \in Seq(Edge) /\ edges[i] \in Edge
  BY DEF HInv, TypeOK
<1>2. /\ edges' = [edges EXCEPT ![i] = [edges[i] EXCEPT !.archived = TRUE, !.status = "archived"]]
      /\ Write /\ UNCHANGED <<links, active, run>>
  BY <1>1 DEF ArchiveEdge
<1> DEFINE e == [edges[i] EXCEPT !.archived = TRUE, !.status = "archived"]
<1>3. e \in Edge /\ e.key = edges[i].key /\ e.archived
  BY <1>1 DEF Edge, Statuses
<1>4. /\ edges' \in Seq(Edge) /\ Len(edges') = Len(edges) /\ edges'[i] = e
      /\ \A j \in 1 .. Len(edges) : j # i => edges'[j] = edges[j]
  <2>1. edges' = [edges EXCEPT ![i] = e]
    BY <1>2
  <2> HIDE DEF e
  <2> QED
    BY <1>1, <1>3, <2>1
<1> HIDE DEF e
<1>5. \A j \in 1 .. Len(edges) :
         /\ edges'[j].key = edges[j].key
         /\ edges[j].archived => edges'[j].archived
         /\ edges[j].key # edges[i].key => /\ edges'[j].status = edges[j].status
                                          /\ edges'[j].archived = edges[j].archived
  BY <1>3, <1>4
<1>6. edges[i].key \in Keys
  BY <1>1 DEF Edge
<1> QED
  BY <1>2, <1>4, <1>5, <1>6, ChangeByPeople

LEMMA ReviewEdgeStep ==
  ASSUME HInv, NEW a \in Hubs, NEW b \in Hubs, NEW t \in Types, NEW s \in Statuses,
         ReviewEdge(a, b, t, s)
  PROVE  HInv' /\ Write /\ \E k \in Keys : Only(k)
<1> DEFINE k == KeyOf(a, b, t)
<1>1. /\ a # b /\ k \notin Pending /\ Write /\ UNCHANGED <<links, active, run>>
      /\ edges' = IF Holders(k) = {} THEN Append(edges, NewEdge(a, b, t, s))
                  ELSE [i \in 1 .. Len(edges) |->
                          IF i \in Holders(k) THEN [edges[i] EXCEPT !.status = s] ELSE edges[i]]
  BY DEF ReviewEdge
<1>2. k \in Keys
  BY <1>1, KeyIsKey
<1>3. CASE Holders(k) = {}
  <2> DEFINE e == NewEdge(a, b, t, s)
  <2>1. e \in Edge /\ e.key = k /\ ~e.archived
    BY <1>1, NewEdgeType
  <2>2. edges' = Append(edges, e)
    BY <1>1, <1>3
  <2> HIDE DEF e, k
  <2> QED
    BY <1>1, <1>2, <1>3, <2>1, <2>2, AddByPeople
<1>4. CASE Holders(k) # {}
  <2>1. edges \in Seq(Edge) /\ Len(edges) \in Nat /\ \A i \in 1 .. Len(edges) : edges[i] \in Edge
    BY DEF HInv, TypeOK
  <2>2. \A i \in Holders(k) : i \in 1 .. Len(edges) /\ edges[i].key = k
    BY DEF Holders
  <2>3. edges' = [i \in 1 .. Len(edges) |->
                    IF i \in Holders(k) THEN [edges[i] EXCEPT !.status = s] ELSE edges[i]]
    BY <1>1, <1>4
  <2> HIDE DEF k
  <2>4. ASSUME NEW i \in 1 .. Len(edges)
        PROVE  /\ edges'[i] \in Edge /\ edges'[i].key = edges[i].key
               /\ edges'[i].archived = edges[i].archived
               /\ edges[i].key # k => edges'[i].status = edges[i].status
    <3>1. edges[i] \in Edge
      BY <2>1
    <3>2. CASE i \in Holders(k)
      <4> DEFINE e == [edges[i] EXCEPT !.status = s]
      <4>1. e \in Edge /\ e.key = edges[i].key /\ e.archived = edges[i].archived
        BY <3>1 DEF Edge
      <4>2. edges'[i] = e
        BY <2>3, <3>2
      <4> HIDE DEF e
      <4> QED
        BY <2>2, <3>2, <4>1, <4>2
    <3>3. CASE i \notin Holders(k)
      BY <2>3, <3>1, <3>3
    <3> QED
      BY <3>2, <3>3
  <2>5. edges' \in [1 .. Len(edges) -> Edge]
    <3>1. DOMAIN edges' = 1 .. Len(edges)
      BY <2>3
    <3>2. edges' = [i \in 1 .. Len(edges) |-> edges'[i]]
      BY <2>3
    <3> QED
      BY <2>4, <3>2
  <2>6. edges' \in Seq(Edge) /\ Len(edges') = Len(edges)
    BY <2>1, <2>5, IsASeq
  <2> QED
    BY <1>1, <1>2, <2>4, <2>6, ChangeByPeople
<1> QED
  BY <1>3, <1>4

LEMMA ElsewhereStep ==
  ASSUME HInv, Write, UNCHANGED <<edges, run>>,
         links' \subseteq Hubs \X Items, active' \subseteq Hubs
  PROVE  HInv' /\ \A k : Only(k)
<1>1. Alone' /\ edges' \in Seq(Edge) /\ \A k : Holders(k)' = Holders(k)
  BY DEF HInv, TypeOK, Alone, Holders
<1>2. HInv'
  BY <1>1, PendingFree, WriteCounts, PeopleKeep
<1>3. \A k : InForce(k)' = InForce(k)
  BY <1>1, SameVerdict DEF HInv, TypeOK
<1> QED
  BY <1>2, <1>3 DEF Only

LEMMA PeopleStep ==
  ASSUME HInv, People
  PROVE  HInv' /\ Write /\ \E k : Only(k)
<1>1. ASSUME NEW a \in Hubs, NEW b \in Hubs, NEW t \in Types,
             \/ \E s \in Asked : CreateEdge(a, b, t, s)
             \/ \E s \in {"approved", "rejected"} : ReviewEdge(a, b, t, s)
      PROVE  HInv' /\ Write /\ \E k : Only(k)
  <2>1. {"approved", "rejected"} \subseteq Statuses
    BY DEF Statuses
  <2> QED
    BY <1>1, <2>1, CreateEdgeStep, ReviewEdgeStep
<1>2. ASSUME NEW i \in 1 .. Len(edges),
             \/ \E s \in Asked \ {edges[i].status} : UpdateEdge(i, edges[i].type, s)
             \/ \E t \in Types \ {edges[i].type} : UpdateEdge(i, t, edges[i].status)
             \/ ArchiveEdge(i)
      PROVE  HInv' /\ Write /\ \E k : Only(k)
  <2>1. edges[i] \in Edge
    BY DEF HInv, TypeOK
  <2>2. edges[i].type \in Types /\ edges[i].status \in Statuses
    BY <2>1 DEF Edge
  <2> QED
    BY <1>2, <2>2, AskedAssumption, UpdateEdgeStep, ArchiveEdgeStep
<1>3. ASSUME NEW h \in Hubs, UpdateHub(h) \/ \E c \in Items : LinkContent(h, c)
      PROVE  HInv' /\ Write /\ \E k : Only(k)
  <2>1. links \subseteq Hubs \X Items /\ active \subseteq Hubs
    BY DEF HInv, TypeOK
  <2>2. /\ Write /\ UNCHANGED <<edges, run>>
        /\ links' \subseteq Hubs \X Items /\ active' \subseteq Hubs
    BY <1>3, <2>1 DEF UpdateHub, LinkContent
  <2> QED
    BY <2>2, ElsewhereStep
<1> QED
  BY <1>1, <1>2, <1>3 DEF People

-----------------------------------------------------------------------------
(* Runs.                                                                   *)

\* The steps of a run before its commit: no row changes.
LEMMA RunKeeps ==
  ASSUME HInv, NEW r \in Runs, NEW v \in Run, run' = [run EXCEPT ![r] = v],
         UNCHANGED <<edges, links, active, writes>>, Own(v),
         \A n \in 1 .. Len(v.mine) : /\ Holders(v.mine[n]) = {}
                                     /\ \A q \in Runs \ {r} : v.mine[n] \notin Mine(q)
  PROVE  HInv' /\ \A k : InForce(k)' = InForce(k)
<1>1. /\ run \in [Runs -> Run] /\ edges \in Seq(Edge) /\ Alone
      /\ \A q \in Runs : Own(run[q]) /\ Apart(q)
  BY DEF HInv, TypeOK
<1>2. run' \in [Runs -> Run] /\ run'[r] = v /\ \A q \in Runs \ {r} : run'[q] = run[q]
  BY <1>1
<1>3. TypeOK' /\ Alone'
  BY <1>1, <1>2 DEF HInv, TypeOK, Alone
<1>4. \A k : Holders(k)' = Holders(k)
  BY DEF Holders
<1>5. /\ Mine(r)' = {v.mine[n] : n \in 1 .. Len(v.mine)}
      /\ \A q \in Runs \ {r} : Mine(q)' = Mine(q)
  BY <1>2 DEF Mine
<1>6. ASSUME NEW q \in Runs
      PROVE  Own(run[q])' /\ Apart(q)'
  <2>1. Own(run[q])'
    <3>1. Own(run'[q])
      BY <1>1, <1>2
    <3> QED
      BY <3>1 DEF Own
  <2>2. CASE q = r
    BY <1>4, <1>5, <2>1, <2>2 DEF Apart
  <2>3. CASE q # r
    <3>1. \A k \in Mine(q) : k \notin Mine(r)'
      BY <1>5, <2>3
    <3>2. \A k \in Mine(q), p \in Runs \ {q, r} : k \notin Mine(p)'
      BY <1>1, <1>5, <2>3 DEF Apart
    <3>3. \A k \in Mine(q) : Holders(k)' = {}
      BY <1>1, <1>4 DEF Apart
    <3> QED
      BY <1>5, <2>1, <2>3, <3>1, <3>2, <3>3 DEF Apart
  <2> QED
    BY <2>2, <2>3
<1>7. \A k : InForce(k)' = InForce(k)
  BY <1>1, <1>3, <1>4, SameVerdict
<1> QED
  BY <1>3, <1>6, <1>7 DEF HInv

LEMMA IdleRun ==
  /\ Idle \in Run /\ Idle.mine = <<>> /\ Idle.todo = {} /\ Idle.step = "idle"
  /\ Ended \in Run /\ Ended.mine = <<>> /\ Ended.todo = {} /\ Ended.step = "ended"
<1>1. <<>> \in Seq(Keys)
  OBVIOUS
<1> QED
  BY <1>1 DEF Idle, Ended, Run

\* A run without rows and proposals.
LEMMA EmptyRun ==
  ASSUME HInv, NEW r \in Runs, NEW v \in Run, run' = [run EXCEPT ![r] = v],
         UNCHANGED <<edges, links, active, writes>>, v.mine = <<>>, v.todo = {}
  PROVE  HInv' /\ \A k : InForce(k)' = InForce(k)
<1>1. <<>> \in Seq(Related) /\ 1 .. Len(v.mine) = {}
  OBVIOUS
<1>2. Own(v)
  BY <1>1 DEF Own
<1> QED
  BY <1>1, <1>2, RunKeeps

LEMMA AbortStep ==
  ASSUME HInv, NEW r \in Runs, Abort(r)
  PROVE  HInv' /\ writes' = writes /\ \A k : InForce(k)' = InForce(k)
BY IdleRun, EmptyRun DEF Abort, Goto

LEMMA FetchMembershipsStep ==
  ASSUME HInv, NEW r \in Runs, FetchMemberships(r)
  PROVE  HInv' /\ writes' = writes /\ \A k : InForce(k)' = InForce(k)
<1> DEFINE v == [Idle EXCEPT !.step = "hubs", !.members = {l \in links : l[1] \in active}]
<1>1. links \subseteq Hubs \X Items
  BY DEF HInv, TypeOK
<1>2. v \in Run /\ v.mine = <<>> /\ v.todo = {}
  BY <1>1, IdleRun DEF Run
<1>3. run' = [run EXCEPT ![r] = v] /\ UNCHANGED <<edges, links, active, writes>>
  BY DEF FetchMemberships, Goto
<1> HIDE DEF v
<1> QED
  BY <1>2, <1>3, EmptyRun

LEMMA FetchHubsStep ==
  ASSUME HInv, NEW r \in Runs, FetchHubs(r)
  PROVE  HInv' /\ writes' = writes /\ \A k : InForce(k)' = InForce(k)
<1> DEFINE v == [run[r] EXCEPT !.step = "tags", !.hubs = active]
<1>1. /\ active \subseteq Hubs /\ run[r] \in Run /\ run[r].step = "hubs"
      /\ Own(run[r])
  BY DEF HInv, TypeOK, FetchHubs
<1>2. /\ v \in Run /\ v.mine = run[r].mine /\ v.todo = run[r].todo /\ v.step = "tags"
  BY <1>1 DEF Run
<1>3. run' = [run EXCEPT ![r] = v] /\ UNCHANGED <<edges, links, active, writes>>
  BY DEF FetchHubs, Goto
<1> HIDE DEF v
<1>4. v.mine = <<>>
  BY <1>1, <1>2 DEF Own
<1>5. 1 .. Len(v.mine) = {}
  BY <1>4
<1>6. Own(v)
  BY <1>1, <1>2, <1>4 DEF Own
<1> QED
  BY <1>2, <1>3, <1>5, <1>6, RunKeeps

\* Proposals are made of pairs of hubs, with a confidence within the cap.
LEMMA ProposalTypes ==
  ASSUME NEW members, NEW hubs \in SUBSET Hubs
  PROVE  FromMembership(members) \subseteq Proposal /\ FromTags(hubs) \subseteq Proposal
<1>1. \A e, n \in Nat : e >= AtLeastOne(n) => e - n \in Nat
  BY DEF AtLeastOne
<1>2. MinShared \in Nat /\ MinCooccur \in Nat /\ Cap \in Nat
  BY OptionsAssumption
<1>3. \A e, n \in Nat : e >= AtLeastOne(n) => Scaled(e, n) \in 0 .. Cap
  BY <1>1, <1>2 DEF Scaled
<1>4. \A S \in SUBSET Items : Cardinality(S) \in Nat
  BY ItemsAssumption, FS_Subset, FS_CardinalityType
<1>5. ASSUME NEW p
      PROVE  Shared(p, members) \in Nat /\ Cooccur(p, hubs) \in Nat
  BY <1>4 DEF Shared, Cooccur
<1>6. Pairs(hubs) \subseteq Pairs(Hubs)
  BY DEF Pairs
<1>7. ASSUME NEW p \in Pairs(Hubs), Shared(p, members) >= AtLeastOne(MinShared)
      PROVE  [pair |-> p, confidence |-> Scaled(Shared(p, members), MinShared)] \in Proposal
  BY <1>2, <1>3, <1>5, <1>7 DEF Proposal
<1>8. ASSUME NEW p \in Pairs(hubs), Cooccur(p, hubs) >= AtLeastOne(MinCooccur)
      PROVE  [pair |-> p, confidence |-> Scaled(Cooccur(p, hubs), MinCooccur)] \in Proposal
  BY <1>2, <1>3, <1>5, <1>6, <1>8 DEF Proposal
<1> QED
  BY <1>7, <1>8 DEF FromMembership, FromTags

\* Merged keeps one proposal for a pair.
Distinct(M) == \A p, q \in M : p.pair = q.pair => p = q

LEMMA MergedOnce ==
  ASSUME NEW P \in SUBSET Proposal, NEW Q \in SUBSET Proposal
  PROVE  /\ Plan(Merged(P, Q)) \subseteq Proposal
         /\ Distinct(Merged(P, Q)) /\ Distinct(Plan(Merged(P, Q)))
<1>1. Plan(Merged(P, Q)) \subseteq Merged(P, Q) /\ Merged(P, Q) \subseteq P \cup Q
  BY DEF Plan, Merged
<1>2. ASSUME NEW p \in Merged(P, Q), NEW q \in Merged(P, Q), p.pair = q.pair
      PROVE  p = q
  <2>1. p \in Proposal /\ q \in Proposal
    BY <1>1
  <2>2. p.confidence <= q.confidence /\ q.confidence <= p.confidence
    BY <1>1, <1>2 DEF Merged
  <2>3. p.confidence \in Nat /\ q.confidence \in Nat
    BY <2>1, OptionsAssumption DEF Proposal
  <2>4. p.confidence = q.confidence
    BY <2>2, <2>3
  <2> QED
    BY <1>2, <2>1, <2>4 DEF Proposal
<1> QED
  BY <1>1, <1>2 DEF Distinct

LEMMA FetchTaggedContentsStep ==
  ASSUME HInv, NEW r \in Runs, FetchTaggedContents(r)
  PROVE  HInv' /\ writes' = writes /\ \A k : InForce(k)' = InForce(k)
<1> DEFINE plan == Plan(Merged(FromMembership(run[r].members), FromTags(run[r].hubs)))
           v == [run[r] EXCEPT !.step = "insert", !.plan = plan, !.todo = plan]
<1>1. run[r] \in Run /\ run[r].step = "tags" /\ Own(run[r])
  BY DEF HInv, TypeOK, FetchTaggedContents
<1>2. run[r].hubs \subseteq Hubs
  BY <1>1 DEF Run
<1>3. plan \subseteq Proposal /\ \A p, q \in plan : p.pair = q.pair => p = q
  BY <1>2, ProposalTypes, MergedOnce DEF Distinct
<1>4. run' = [run EXCEPT ![r] = v] /\ UNCHANGED <<edges, links, active, writes>>
  BY DEF FetchTaggedContents, Goto
<1> HIDE DEF plan
<1>5. /\ v \in Run /\ v.mine = run[r].mine /\ v.todo = plan /\ v.step = "insert"
  BY <1>1, <1>3 DEF Run
<1> HIDE DEF v
<1>6. v.mine = <<>>
  BY <1>1, <1>5 DEF Own
<1>7. 1 .. Len(v.mine) = {} /\ <<>> \in Seq(Related)
  BY <1>6
<1>8. Own(v)
  BY <1>3, <1>5, <1>6, <1>7 DEF Own
<1> QED
  BY <1>4, <1>5, <1>7, <1>8, RunKeeps

LEMMA InsertNextStep ==
  ASSUME HInv, NEW r \in Runs, InsertNext(r)
  PROVE  HInv' /\ writes' = writes /\ \A k : InForce(k)' = InForce(k)
<1>1. PICK p \in run[r].todo :
        /\ run[r].step = "insert"
        /\ \A q \in Runs \ {r} : ProposalKey(p) \notin Mine(q)
        /\ Goto(r, [run[r] EXCEPT !.todo = @ \ {p},
              !.mine = IF Holders(ProposalKey(p)) = {} THEN Append(@, ProposalKey(p)) ELSE @])
        /\ UNCHANGED edges
  BY DEF InsertNext
<1>2. run[r] \in Run /\ Own(run[r]) /\ Apart(r)
  BY DEF HInv, TypeOK
<1> DEFINE old == run[r].mine
           key == ProposalKey(p)
           mine == IF Holders(key) = {} THEN Append(old, key) ELSE old
           v == [run[r] EXCEPT !.todo = @ \ {p}, !.mine = mine]
<1>3. p \in Proposal /\ key \in Related /\ key \in Keys
  <2>1. p \in Proposal
    BY <1>2 DEF Run
  <2>2. p.pair \in Pairs(Hubs)
    BY <2>1 DEF Proposal
  <2> QED
    BY <2>1, <2>2, RelatedKeys DEF ProposalKey, Related
<1>4. run' = [run EXCEPT ![r] = v] /\ UNCHANGED <<edges, links, active, writes>>
  BY <1>1 DEF Goto
<1>5. /\ old \in Seq(Related) /\ old \in Seq(Keys) /\ Len(old) \in Nat
      /\ \A m, n \in 1 .. Len(old) : old[m] = old[n] => m = n
      /\ \A q \in run[r].todo, n \in 1 .. Len(old) : old[n] # ProposalKey(q)
      /\ \A q1, q2 \in run[r].todo : q1.pair = q2.pair => q1 = q2
  BY <1>2 DEF Own, Run
<1>6. \A q \in run[r].todo : ProposalKey(q) = key => q = p
  <2>1. ASSUME NEW q \in run[r].todo, ProposalKey(q) = key
        PROVE  q = p
    <3>1. q \in Proposal /\ q.pair \in Pairs(Hubs) /\ p.pair \in Pairs(Hubs)
      BY <1>2, <1>3 DEF Run, Proposal
    <3>2. q.pair[1] = p.pair[1] /\ q.pair[2] = p.pair[2]
      BY <2>1 DEF ProposalKey
    <3>3. q.pair = p.pair
      BY <3>1, <3>2 DEF Pairs
    <3> QED
      BY <1>5, <3>3
  <2> QED
    BY <2>1
<1>7. \A n \in 1 .. Len(old) : /\ Holders(old[n]) = {}
                               /\ \A q \in Runs \ {r} : old[n] \notin Mine(q)
  BY <1>2 DEF Apart, Mine
<1> HIDE DEF key, old
<1>8. /\ mine \in Seq(Related) /\ mine \in Seq(Keys)
      /\ \A m, n \in 1 .. Len(mine) : mine[m] = mine[n] => m = n
      /\ \A q \in run[r].todo \ {p}, n \in 1 .. Len(mine) : mine[n] # ProposalKey(q)
      /\ \A n \in 1 .. Len(mine) : /\ Holders(mine[n]) = {}
                                   /\ \A q \in Runs \ {r} : mine[n] \notin Mine(q)
  <2>1. CASE Holders(key) = {}
    <3>1. mine = Append(old, key)
      BY <2>1
    <3> HIDE DEF mine
    <3>2. /\ mine \in Seq(Related) /\ mine \in Seq(Keys) /\ Len(mine) = Len(old) + 1
          /\ mine[Len(old) + 1] = key
          /\ \A n \in 1 .. Len(old) : mine[n] = old[n]
      BY <1>3, <1>5, <3>1, AppendProperties
    <3> DEFINE last == Len(old) + 1
    <3>3. 1 .. Len(mine) = (1 .. Len(old)) \cup {last} /\ mine[last] = key
      BY <1>5, <3>2
    <3> HIDE DEF last
    <3>4. \A n \in 1 .. Len(old) : old[n] # key
      BY <1>5 DEF key
    <3>5. \A q \in Runs \ {r} : key \notin Mine(q)
      BY <1>1 DEF key
    <3>6. \A m, n \in 1 .. Len(mine) : mine[m] = mine[n] => m = n
      BY <1>5, <3>2, <3>3, <3>4
    <3>7. \A q \in run[r].todo \ {p}, n \in 1 .. Len(mine) : mine[n] # ProposalKey(q)
      BY <1>5, <1>6, <3>2, <3>3
    <3>8. \A n \in 1 .. Len(mine) : /\ Holders(mine[n]) = {}
                                   /\ \A q \in Runs \ {r} : mine[n] \notin Mine(q)
      BY <1>7, <2>1, <3>2, <3>3, <3>5
    <3> QED
      BY <3>2, <3>6, <3>7, <3>8
  <2>2. CASE Holders(key) # {}
    <3>1. mine = old
      BY <2>2
    <3> QED
      BY <1>5, <1>7, <3>1
  <2> QED
    BY <2>1, <2>2
<1> HIDE DEF mine
<1>9. v \in Run /\ v.mine = mine /\ v.todo = run[r].todo \ {p} /\ v.step = "insert"
  BY <1>1, <1>2, <1>8 DEF Run
<1> HIDE DEF v
<1>10. Own(v)
  BY <1>5, <1>8, <1>9 DEF Own
<1> QED
  BY <1>4, <1>8, <1>9, <1>10, RunKeeps

\* The rows of a run are inserted: its keys get their first edge, and no other
\* key changes.
LEMMA CommitRunStep ==
  ASSUME HInv, NEW r \in Runs, CommitRun(r)
  PROVE  /\ HInv' /\ writes' = writes
         /\ \A k : InForce(k)' # InForce(k) => InForce(k) = "none" /\ InForce(k)' = "inferred"
<1> DEFINE mine == run[r].mine
           new == [n \in 1 .. Len(mine) |-> NewEdge(mine[n][1], mine[n][2], "related", "inferred")]
           len == Len(edges)
<1>1. /\ edges \in Seq(Edge) /\ Alone /\ len \in Nat /\ run \in [Runs -> Run]
      /\ Own(run[r]) /\ Apart(r)
  <2>1. edges \in Seq(Edge) /\ Alone /\ run \in [Runs -> Run] /\ Own(run[r]) /\ Apart(r)
    BY DEF HInv, TypeOK
  <2> QED
    BY <2>1
<1>2. /\ run' = [run EXCEPT ![r] = Ended] /\ edges' = edges \o new
      /\ UNCHANGED <<links, active, writes>>
  <2>1. edges' = edges \o new
    BY DEF CommitRun
  <2>2. run' = [run EXCEPT ![r] = Ended] /\ UNCHANGED <<links, active, writes>>
    BY DEF CommitRun, Goto
  <2> QED
    BY <2>1, <2>2
<1>3. /\ mine \in Seq(Related) /\ Len(mine) \in Nat
      /\ \A m, n \in 1 .. Len(mine) : mine[m] = mine[n] => m = n
      /\ \A n \in 1 .. Len(mine) : /\ Holders(mine[n]) = {}
                                   /\ \A q \in Runs \ {r} : mine[n] \notin Mine(q)
  <2>1. /\ mine \in Seq(Related)
        /\ \A m, n \in 1 .. Len(mine) : mine[m] = mine[n] => m = n
    BY <1>1 DEF Own
  <2>2. Mine(r) = {mine[n] : n \in 1 .. Len(mine)}
    BY DEF Mine
  <2> HIDE DEF mine
  <2>3. \A n \in 1 .. Len(mine) : mine[n] \in Mine(r)
    BY <2>2
  <2> QED
    BY <1>1, <2>1, <2>3 DEF Apart
<1>4. \A n \in 1 .. Len(mine) : /\ new[n] \in Edge /\ new[n].key = mine[n]
                                /\ ~new[n].archived /\ new[n].status = "inferred"
  <2>1. ASSUME NEW n \in 1 .. Len(mine)
        PROVE  mine[n] \in Related /\ new[n] = NewEdge(mine[n][1], mine[n][2], "related", "inferred")
    BY <1>3
  <2> HIDE DEF new, mine
  <2> QED
    BY <2>1, RelatedKeys
<1>5. new \in Seq(Edge) /\ Len(new) = Len(mine)
  <2>1. new \in [1 .. Len(mine) -> Edge]
    BY <1>4
  <2> HIDE DEF new
  <2> QED
    BY <1>3, <2>1, IsASeq
<1> HIDE DEF new, mine
<1>6. /\ edges' \in Seq(Edge) /\ Len(edges') = len + Len(mine)
      /\ \A i \in 1 .. len : edges'[i] = edges[i]
      /\ \A n \in 1 .. Len(mine) : edges'[len + n] = new[n]
  <2>1. /\ edges \o new \in Seq(Edge) /\ Len(edges \o new) = Len(edges) + Len(new)
        /\ \A i \in 1 .. Len(edges) + Len(new) :
             (edges \o new)[i] = IF i <= Len(edges) THEN edges[i] ELSE new[i - Len(edges)]
    BY <1>1, <1>5, ConcatProperties
  <2>2. \A i \in 1 .. len : edges'[i] = edges[i]
    BY <1>1, <1>2, <1>3, <1>5, <2>1
  <2>3. ASSUME NEW n \in 1 .. Len(mine)
        PROVE  edges'[len + n] = new[n]
    <3>1. len + n \in 1 .. len + Len(new) /\ ~(len + n <= len) /\ (len + n) - len = n
      BY <1>1, <1>3, <1>5
    <3> QED
      BY <1>2, <2>1, <3>1
  <2> QED
    BY <1>2, <1>5, <2>1, <2>2, <2>3
<1>7. ASSUME NEW i \in 1 .. Len(edges')
      PROVE  i \in 1 .. len \/ \E n \in 1 .. Len(mine) : i = len + n
  <2>1. CASE i <= len
    BY <1>1, <2>1
  <2>2. CASE ~(i <= len)
    <3>1. i - len \in 1 .. Len(mine) /\ i = len + (i - len)
      BY <1>1, <1>3, <1>6, <2>2
    <3> QED
      BY <3>1
  <2> QED
    BY <2>1, <2>2
<1>8. \A n \in 1 .. Len(mine) : len + n \in 1 .. Len(edges') /\ len + n \notin 1 .. len
  BY <1>1, <1>3, <1>6
<1>9. 1 .. len \subseteq 1 .. Len(edges')
  BY <1>1, <1>3, <1>6
<1>10. \A n \in 1 .. Len(mine), i \in 1 .. len :
         edges[i].key = mine[n] => edges[i].archived
  BY <1>3 DEF Holders
<1> HIDE DEF len
<1>11. Alone'
  <2> SUFFICES ASSUME NEW i \in 1 .. Len(edges'), NEW j \in 1 .. Len(edges'),
                      edges'[i].key = edges'[j].key, ~edges'[i].archived, ~edges'[j].archived
               PROVE  i = j
    BY DEF Alone
  <2>1. CASE i \in 1 .. len /\ j \in 1 .. len
    BY <1>1, <1>6, <2>1 DEF Alone, len
  <2>2. CASE i \in 1 .. len /\ j \notin 1 .. len
    BY <1>4, <1>6, <1>7, <1>10, <2>2
  <2>3. CASE i \notin 1 .. len /\ j \in 1 .. len
    BY <1>4, <1>6, <1>7, <1>10, <2>3
  <2>4. CASE i \notin 1 .. len /\ j \notin 1 .. len
    BY <1>3, <1>4, <1>6, <1>7, <2>4
  <2> QED
    BY <2>1, <2>2, <2>3, <2>4
<1>12. \A k : Holders(k)' =
                {i \in 1 .. Len(edges') : edges'[i].key = k /\ ~edges'[i].archived}
  BY DEF Holders
<1>13. ASSUME NEW k, \A n \in 1 .. Len(mine) : mine[n] # k
       PROVE  Holders(k)' = Holders(k)
  <2>1. \A i \in 1 .. Len(edges') : edges'[i].key = k => i \in 1 .. len
    BY <1>4, <1>6, <1>7, <1>13
  <2> QED
    BY <1>6, <1>9, <1>12, <2>1 DEF Holders, len
<1>14. ASSUME NEW k, InForce(k)' # InForce(k)
       PROVE  InForce(k) = "none" /\ InForce(k)' = "inferred"
  <2>1. CASE \A n \in 1 .. Len(mine) : mine[n] # k
    <3>1. Holders(k)' = Holders(k)
      BY <1>13, <2>1
    <3>2. \A i \in Holders(k) : edges'[i].status = edges[i].status
      BY <1>6 DEF Holders, len
    <3> QED
      BY <1>1, <1>6, <1>11, <1>14, <3>1, <3>2, SameVerdict
  <2>2. ASSUME NEW n \in 1 .. Len(mine), mine[n] = k
        PROVE  InForce(k) = "none" /\ InForce(k)' = "inferred"
    <3>1. InForce(k) = "none"
      BY <1>3, <2>2 DEF InForce
    <3>2. len + n \in Holders(k)'
      BY <1>4, <1>6, <1>8, <1>12, <2>2
    <3>3. InForce(k)' = edges'[len + n].status
      <4>1. Holders(k)' = {len + n}
        BY <1>11, <1>12, <3>2 DEF Alone
      <4>2. (CHOOSE j \in Holders(k)' : \A l \in Holders(k)' : l <= j) = len + n
        <5>1. len + n \in Nat
          BY <1>8
        <5> QED
          BY <4>1, <5>1
      <4> QED
        BY <4>1, <4>2 DEF InForce
    <3> QED
      BY <1>4, <1>6, <3>1, <3>3
  <2> QED
    BY <2>1, <2>2
<1>15. run' \in [Runs -> Run] /\ run'[r] = Ended /\ \A q \in Runs \ {r} : run'[q] = run[q]
  BY <1>1, <1>2, IdleRun
<1>16. TypeOK'
  BY <1>2, <1>6, <1>15 DEF HInv, TypeOK
<1>17. Mine(r)' = {} /\ \A q \in Runs \ {r} : Mine(q)' = Mine(q)
  <2>1. 1 .. Len(Ended.mine) = {}
    BY IdleRun
  <2> QED
    BY <1>15, <2>1 DEF Mine
<1>18. Own(Ended)
  <2>1. 1 .. Len(Ended.mine) = {} /\ <<>> \in Seq(Related)
    BY IdleRun
  <2> QED
    BY <2>1, IdleRun DEF Own
<1>19. ASSUME NEW q \in Runs
       PROVE  Own(run[q])' /\ Apart(q)'
  <2>1. Own(run[q])'
    <3>1. Own(run'[q])
      BY <1>15, <1>18 DEF HInv
    <3> QED
      BY <3>1 DEF Own
  <2>2. CASE q = r
    BY <1>17, <2>1, <2>2 DEF Apart
  <2>3. CASE q # r
    <3>1. Apart(q)
      BY DEF HInv
    <3>2. \A k \in Mine(q) : Holders(k)' = {}
      <4>1. \A k \in Mine(q), n \in 1 .. Len(mine) : mine[n] # k
        BY <1>3, <2>3
      <4> QED
        BY <1>13, <3>1, <4>1 DEF Apart
    <3> QED
      BY <1>17, <2>1, <2>3, <3>1, <3>2 DEF Apart
  <2> QED
    BY <2>2, <2>3
<1> QED
  BY <1>2, <1>11, <1>14, <1>16, <1>19 DEF HInv

-----------------------------------------------------------------------------
(* The theorems.                                                           *)

LEMMA InitHolds == Init => HInv
<1> SUFFICES ASSUME Init PROVE HInv
  OBVIOUS
<1>1. edges = <<>> /\ 1 .. Len(edges) = {}
  BY DEF Init
<1>2. run \in [Runs -> Run]
  BY IdleRun DEF Init
<1>3. TypeOK
  <2>1. edges \in Seq(Edge) /\ MaxWrites \in Nat
    BY <1>1, OptionsAssumption
  <2> QED
    BY <1>2, <2>1, ItemsAssumption DEF Init, TypeOK
<1>4. Alone
  BY <1>1 DEF Alone
<1>5. ASSUME NEW r \in Runs
      PROVE  Own(run[r]) /\ Apart(r)
  <2>1. run[r] = Idle /\ 1 .. Len(Idle.mine) = {} /\ <<>> \in Seq(Related)
    BY IdleRun DEF Init
  <2> QED
    BY <2>1, IdleRun DEF Own, Apart, Mine
<1> QED
  BY <1>3, <1>4, <1>5 DEF HInv

\* What a step does to the verdicts.
LEMMA StepHolds ==
  ASSUME HInv, [Next]_vars
  PROVE  /\ HInv'
         /\ \/ Write /\ \E k : Only(k)
            \/ /\ writes' = writes
               /\ \A k : InForce(k)' # InForce(k) => InForce(k) = "none" /\ InForce(k)' = "inferred"
<1>1. CASE People
  BY <1>1, PeopleStep
<1>2. ASSUME NEW r \in Runs, FetchMemberships(r) \/ Abort(r)
      PROVE  HInv' /\ writes' = writes /\ \A k : InForce(k)' = InForce(k)
  BY <1>2, FetchMembershipsStep, AbortStep
<1>3. ASSUME NEW r \in Runs, FetchHubs(r) \/ FetchTaggedContents(r) \/ InsertNext(r)
      PROVE  HInv' /\ writes' = writes /\ \A k : InForce(k)' = InForce(k)
  BY <1>3, FetchHubsStep, FetchTaggedContentsStep, InsertNextStep
<1>4. ASSUME NEW r \in Runs, CommitRun(r)
      PROVE  /\ HInv' /\ writes' = writes
             /\ \A k : InForce(k)' # InForce(k) => InForce(k) = "none" /\ InForce(k)' = "inferred"
  BY <1>4, CommitRunStep
<1>5. CASE BreakDeadlock
  BY <1>2, <1>5 DEF BreakDeadlock
<1>6. CASE UNCHANGED vars
  <2>1. /\ edges' = edges /\ run' = run /\ \A k : Holders(k)' = Holders(k)
        /\ \A r \in Runs : Mine(r)' = Mine(r)
    BY <1>6 DEF vars, Holders, Mine
  <2>2. HInv'
    <3>1. TypeOK' /\ Alone'
      BY <1>6 DEF vars, HInv, TypeOK, Alone
    <3>2. ASSUME NEW r \in Runs
          PROVE  Own(run[r])' /\ Apart(r)'
      <4>1. Own(run[r])'
        BY <2>1 DEF HInv, Own
      <4>2. Apart(r)'
        BY <2>1 DEF HInv, Apart
      <4> QED
        BY <4>1, <4>2
    <3> QED
      BY <3>1, <3>2 DEF HInv
  <2>3. \A k : InForce(k)' = InForce(k)
    BY <2>1, <2>2, SameVerdict DEF HInv, TypeOK
  <2> QED
    BY <1>6, <2>2, <2>3 DEF vars
<1> QED
  BY <1>1, <1>2, <1>3, <1>4, <1>5, <1>6 DEF Next, Proceed

LEMMA Invariant == Spec => []HInv
<1>1. HInv /\ [Next]_vars => HInv'
  BY StepHolds
<1> QED
  BY <1>1, InitHolds, PTL DEF Spec

\* Every variable keeps its type: the rows of cb_hub_edges, the hub links and what a run of
\* the inference has read, planned and inserted.
THEOREM TypeCorrect == Spec => []TypeOK
<1>1. HInv => TypeOK
  BY DEF HInv
<1> QED
  BY <1>1, Invariant, PTL

\* Edges as the store and the inference script change them are a review: people decide, and
\* a run only fills keys that have no edge in force, whatever was written between its reads
\* and its commit (edge_inference.py:17-20).
THEOREM ReviewIsRespected == Spec => RespectsReview
<1> DEFINE verdict == [k \in Keys |-> InForce(k)]
<1>1. Init => Review!Init
  <2> SUFFICES ASSUME Init PROVE Review!Init
    OBVIOUS
  <2>1. \A k : Holders(k) = {}
    BY DEF Init, Holders
  <2>2. \A k : InForce(k) = "none"
    BY <2>1 DEF InForce
  <2> QED
    BY <2>2 DEF Init, Review!Init
<1>2. HInv => \A k : InForce(k) \in Statuses \cup {"none"}
  BY InForceType DEF HInv, TypeOK
<1>3. HInv' => (\A k : InForce(k) \in Statuses \cup {"none"})'
  BY <1>2, PTL
<1>4. HInv /\ HInv' /\ [Next]_vars => [Review!Next]_(Review!vars)
  <2> SUFFICES ASSUME HInv, HInv', [Next]_vars PROVE Review!Next
    OBVIOUS
  <2>1. \A k : InForce(k) \in Statuses \cup {"none"} /\ InForce(k)' \in Statuses \cup {"none"}
    BY <1>2, <1>3
  <2>2. verdict' = [k \in Keys |-> InForce(k)'] /\ verdict' \in [Keys -> Statuses \cup {"none"}]
    BY <2>1
  <2>3. CASE Write /\ \E k : Only(k)
    <3>1. PICK k : Only(k)
      BY <2>3
    <3>2. \A j \in Keys : verdict'[j] # verdict[j] => j = k
      BY <3>1 DEF Only
    <3>3. Review!Human
      BY <2>2, <2>3, <3>2, WriteCounts DEF Review!Human
    <3> QED
      BY <3>3 DEF Review!Next
  <2>4. CASE /\ writes' = writes
             /\ \A k : InForce(k)' # InForce(k) => InForce(k) = "none" /\ InForce(k)' = "inferred"
    <3>1. Review!Machine
      BY <2>2, <2>4 DEF Review!Machine
    <3> QED
      BY <3>1 DEF Review!Next
  <2> QED
    BY <2>3, <2>4, StepHolds
<1> QED
  BY <1>1, <1>4, Invariant, PTL DEF RespectsReview, Review!Spec, Spec

-----------------------------------------------------------------------------
(* What a plan leaves out.                                                 *)

LEMMA ProposalsFinite == IsFiniteSet(Proposal)
<1> DEFINE T == (Hubs \X Hubs) \X (0 .. Cap)
           f == [p \in Proposal |-> <<p.pair, p.confidence>>]
<1>1. IsFiniteSet(T)
  <2>1. IsFiniteSet(Hubs \X Hubs)
    BY HubsAssumption, FS_Product
  <2>2. IsFiniteSet(0 .. Cap)
    <3>1. 0 \in Int /\ Cap \in Int
      BY OptionsAssumption
    <3> QED
      BY <3>1, FS_Interval
  <2> QED
    BY <2>1, <2>2, FS_Product
<1>2. f \in [Proposal -> T]
  BY DEF Proposal, Pairs
<1>3. ASSUME NEW p \in Proposal, NEW q \in Proposal, f[p] = f[q]
      PROVE  p = q
  <2>1. p.pair = q.pair /\ p.confidence = q.confidence
    BY <1>3
  <2> QED
    BY <2>1 DEF Proposal
<1> HIDE DEF f, T
<1>4. f \in Injection(Proposal, T)
  BY <1>2, <1>3 DEF Injection, IsInjective
<1> QED
  BY <1>1, <1>4, FS_Injection

LEMMA ProposalFields ==
  ASSUME NEW p \in Proposal
  PROVE  /\ p.confidence \in Nat /\ p.pair = <<p.pair[1], p.pair[2]>>
         /\ p.pair[1] \in Nat /\ p.pair[2] \in Nat
         /\ p = [pair |-> p.pair, confidence |-> p.confidence]
<1>1. p.pair \in Hubs \X Hubs /\ p.confidence \in 0 .. Cap
  BY DEF Proposal, Pairs
<1>2. p = [pair |-> p.pair, confidence |-> p.confidence]
  BY DEF Proposal
<1> QED
  BY <1>1, <1>2, HubsAssumption, OptionsAssumption

\* Earlier orders the proposals: no two of them are on a par.
LEMMA EarlierOrders ==
  ASSUME NEW p \in Proposal, NEW q \in Proposal
  PROVE  /\ ~Earlier(p, p)
         /\ Earlier(p, q) \/ Earlier(q, p) \/ p = q
         /\ Earlier(p, q) => p.confidence >= q.confidence
         /\ \A s \in Proposal : Earlier(p, q) /\ Earlier(q, s) => Earlier(p, s)
<1> DEFINE Fields(x) == /\ x.confidence \in Nat /\ x.pair[1] \in Nat /\ x.pair[2] \in Nat
<1>1. \A x \in Proposal : Fields(x)
  BY ProposalFields
<1>2. ~Earlier(p, p)
  BY <1>1 DEF Earlier
<1>3. Earlier(p, q) \/ Earlier(q, p) \/ p = q
  <2> SUFFICES ASSUME ~Earlier(p, q), ~Earlier(q, p) PROVE p = q
    OBVIOUS
  <2>1. p.confidence = q.confidence /\ p.pair[1] = q.pair[1] /\ p.pair[2] = q.pair[2]
    BY <1>1 DEF Earlier
  <2>2. p.pair = q.pair
    BY <2>1, ProposalFields
  <2> QED
    BY <2>1, <2>2, ProposalFields
<1>4. Earlier(p, q) => p.confidence >= q.confidence
  BY <1>1 DEF Earlier
<1>5. ASSUME NEW s \in Proposal, Earlier(p, q), Earlier(q, s)
      PROVE  Earlier(p, s)
  BY <1>1, <1>5 DEF Earlier
<1> QED
  BY <1>2, <1>3, <1>4, <1>5

\* The proposals of M before p, and how many they are.
Before(M, p) == {q \in M : Earlier(q, p)}
Rank(M, p) == Cardinality(Before(M, p))

LEMMA RanksGrow ==
  ASSUME NEW M \in SUBSET Proposal, NEW p \in M, NEW q \in M
  PROVE  /\ Rank(M, p) \in Nat /\ IsFiniteSet(Before(M, p))
         /\ Earlier(p, q) => Rank(M, p) < Rank(M, q)
<1>1. IsFiniteSet(M)
  BY ProposalsFinite, FS_Subset
<1>2. /\ IsFiniteSet(Before(M, p)) /\ IsFiniteSet(Before(M, q))
      /\ Rank(M, p) \in Nat /\ Rank(M, q) \in Nat
  BY <1>1, FS_Subset, FS_CardinalityType DEF Before, Rank
<1>3. ASSUME Earlier(p, q)
      PROVE  Rank(M, p) < Rank(M, q)
  <2>1. p \notin Before(M, p)
    BY EarlierOrders DEF Before
  <2>2. Before(M, p) \cup {p} \subseteq Before(M, q)
    BY <1>3, EarlierOrders DEF Before
  <2>3. Cardinality(Before(M, p) \cup {p}) = Rank(M, p) + 1
    BY <1>2, <2>1, FS_AddElement DEF Rank
  <2>4. Cardinality(Before(M, p) \cup {p}) <= Rank(M, q)
    BY <1>2, <2>2, FS_Subset DEF Rank
  <2> QED
    BY <1>2, <2>3, <2>4
<1> QED
  BY <1>2, <1>3

LEMMA PlanByRank ==
  ASSUME NEW M
  PROVE  Plan(M) = {p \in M : Rank(M, p) < MaxProposals}
BY DEF Plan, Rank, Before

\* A set of numbers has a least one, and a bounded one a greatest.
LEMMA Least ==
  ASSUME NEW S \in SUBSET Nat, S # {}
  PROVE  \E m \in S : \A s \in S : m <= s
<1> DEFINE R == OpToRel(<, Nat)
<1>1. \E x \in S : \A y \in S : ~ (<<y, x>> \in R)
  <2>1. IsWellFoundedOn(R, Nat)
    BY NatLessThanWellFounded
  <2> HIDE DEF R
  <2> QED
    BY <2>1, WFMin
<1>2. PICK x \in S : \A y \in S : ~ (y < x)
  BY <1>1 DEF OpToRel
<1>3. ASSUME NEW y \in S PROVE x <= y
  <2>1. ~ (y < x) /\ x \in Nat /\ y \in Nat
    BY <1>2
  <2> HIDE DEF R
  <2> QED
    BY <2>1
<1> QED
  BY <1>3

LEMMA Greatest ==
  ASSUME NEW S \in SUBSET Nat, S # {}, NEW n \in Nat, \A s \in S : s <= n
  PROVE  \E m \in S : \A s \in S : s <= m
<1> DEFINE D == {n - s : s \in S}
<1>1. \A s \in S : n - s \in Nat
  OBVIOUS
<1>2. D \subseteq Nat /\ D # {}
  BY <1>1, Zenon
<1>3. PICK x \in D : \A y \in D : x <= y
  <2> HIDE DEF D
  <2> QED
    BY <1>2, Least
<1>4. PICK m \in S : x = n - m
  OBVIOUS
<1>5. ASSUME NEW s \in S PROVE s <= m
  <2>1. n - m <= n - s
    BY <1>3, <1>4
  <2>2. s \in Nat /\ m \in Nat
    OBVIOUS
  <2> HIDE DEF D
  <2> QED
    BY <2>1, <2>2
<1> QED
  BY <1>5

\* The list is cut to its length: the last entry and those before it are the plan.
LEMMA PlanFits ==
  ASSUME NEW M \in SUBSET Proposal
  PROVE  /\ IsFiniteSet(Plan(M)) /\ Cardinality(Plan(M)) \in Nat
         /\ Cardinality(Plan(M)) <= MaxProposals
<1>1. Plan(M) \subseteq M /\ IsFiniteSet(M)
  BY ProposalsFinite, FS_Subset, PlanByRank
<1>2. IsFiniteSet(Plan(M)) /\ Cardinality(Plan(M)) \in Nat
  BY <1>1, FS_Subset, FS_CardinalityType
<1>3. MaxProposals \in Nat
  BY OptionsAssumption
<1>4. CASE Plan(M) = {}
  <2>1. Cardinality(Plan(M)) = 0
    BY <1>4, FS_EmptySet
  <2> QED
    BY <1>2, <1>3, <2>1
<1>5. CASE Plan(M) # {}
  <2> DEFINE S == {Rank(M, p) : p \in Plan(M)}
  <2>1. \A p \in Plan(M) : Rank(M, p) \in Nat /\ Rank(M, p) <= MaxProposals
    BY <1>1, <1>3, RanksGrow, PlanByRank
  <2>2. S \subseteq Nat /\ S # {} /\ \A s \in S : s <= MaxProposals
    BY <1>5, <2>1
  <2>3. PICK m \in S : \A s \in S : s <= m
    <3> HIDE DEF S
    <3> QED
      BY <1>3, <2>2, Greatest
  <2>4. PICK last \in Plan(M) : m = Rank(M, last)
    OBVIOUS
  <2>5. last \in M /\ Rank(M, last) \in Nat /\ Rank(M, last) < MaxProposals
    BY <1>1, <2>1, PlanByRank
  <2>6. \A p \in Plan(M) : Rank(M, p) <= Rank(M, last)
    BY <2>3, <2>4
  <2> HIDE DEF S
  <2>7. Plan(M) \subseteq Before(M, last) \cup {last}
    <3> SUFFICES ASSUME NEW p \in Plan(M), p # last
                 PROVE  Earlier(p, last)
      BY <1>1 DEF Before
    <3>1. p \in M /\ p \in Proposal /\ last \in Proposal
      BY <1>1, <2>5
    <3>2. Rank(M, p) \in Nat /\ Rank(M, p) <= Rank(M, last)
      BY <2>1, <2>6
    <3>3. ~Earlier(last, p)
      BY <2>5, <3>1, <3>2, RanksGrow
    <3> QED
      BY <3>1, <3>3, EarlierOrders
  <2>8. IsFiniteSet(Before(M, last) \cup {last})
        /\ Cardinality(Before(M, last) \cup {last}) <= Rank(M, last) + 1
    <3>1. IsFiniteSet(Before(M, last))
      BY <2>5, RanksGrow
    <3>2. IsFiniteSet(Before(M, last) \cup {last})
          /\ Cardinality(Before(M, last) \cup {last}) =
               IF last \in Before(M, last) THEN Rank(M, last) ELSE Rank(M, last) + 1
      BY <3>1, FS_AddElement DEF Rank
    <3> QED
      BY <2>5, <3>2
  <2>9. Cardinality(Plan(M)) <= Cardinality(Before(M, last) \cup {last})
    BY <2>7, <2>8, FS_Subset
  <2>10. Cardinality(Before(M, last) \cup {last}) \in Nat
    BY <2>8, FS_CardinalityType
  <2> QED
    BY <1>2, <1>3, <2>5, <2>8, <2>9, <2>10
<1> QED
  BY <1>2, <1>4, <1>5

\* What is left out follows a full plan.
LEMMA LeftOut ==
  ASSUME NEW M \in SUBSET Proposal, NEW p \in M \ Plan(M)
  PROVE  /\ Cardinality(Plan(M)) = MaxProposals
         /\ \A q \in Plan(M) : Earlier(q, p)
<1>1. Plan(M) \subseteq M /\ MaxProposals \in Nat
  BY OptionsAssumption, PlanByRank
<1>2. \A q \in M : Rank(M, q) \in Nat /\ IsFiniteSet(Before(M, q))
  BY RanksGrow
<1>3. Cardinality(Plan(M)) >= MaxProposals
  <2> DEFINE S == {Rank(M, q) : q \in M \ Plan(M)}
  <2>1. S \subseteq Nat /\ S # {}
    BY <1>2
  <2>2. PICK m \in S : \A s \in S : m <= s
    <3> HIDE DEF S
    <3> QED
      BY <2>1, Least
  <2>3. PICK first \in M \ Plan(M) : m = Rank(M, first)
    OBVIOUS
  <2>4. \A q \in M \ Plan(M) : Rank(M, first) <= Rank(M, q)
    BY <2>2, <2>3
  <2> HIDE DEF S
  <2>5. Before(M, first) \subseteq Plan(M)
    <3> SUFFICES ASSUME NEW q \in Before(M, first), q \notin Plan(M)
                 PROVE  FALSE
      OBVIOUS
    <3>1. q \in M /\ Earlier(q, first)
      BY DEF Before
    <3>2. Rank(M, q) < Rank(M, first) /\ Rank(M, first) <= Rank(M, q)
      BY <2>4, <3>1, RanksGrow
    <3> QED
      BY <1>2, <3>1, <3>2
  <2>6. Rank(M, first) <= Cardinality(Plan(M))
    BY <2>5, PlanFits, FS_Subset DEF Rank
  <2>7. ~(Rank(M, first) < MaxProposals)
    BY PlanByRank
  <2>8. Cardinality(Plan(M)) \in Nat /\ Rank(M, first) \in Nat
    BY <1>2, PlanFits
  <2> QED
    BY <1>1, <2>6, <2>7, <2>8
<1>4. ASSUME NEW q \in Plan(M)
      PROVE  Earlier(q, p)
  <2>1. q \in M /\ Rank(M, q) < MaxProposals /\ ~(Rank(M, p) < MaxProposals)
    BY PlanByRank
  <2>2. ~(Rank(M, p) < Rank(M, q))
    BY <1>1, <1>2, <2>1
  <2>3. ~Earlier(p, q)
    BY <2>1, <2>2, RanksGrow
  <2> QED
    BY <2>1, <2>3, EarlierOrders
<1> QED
  BY <1>1, <1>3, <1>4, PlanFits

\* Of the proposals for a pair the strongest is merged.
LEMMA MergedCovers ==
  ASSUME NEW P \in SUBSET Proposal, NEW Q \in SUBSET Proposal, NEW p \in P \cup Q
  PROVE  \E m \in Merged(P, Q) : m.pair = p.pair /\ m.confidence >= p.confidence
<1> DEFINE Same == {q \in P \cup Q : q.pair = p.pair}
           S == {q.confidence : q \in Same}
<1>1. Cap \in Nat /\ \A q \in P \cup Q : q.confidence \in 0 .. Cap
  BY OptionsAssumption DEF Proposal
<1>2. S \subseteq Nat /\ S # {} /\ \A s \in S : s <= Cap
  <2>1. \A q \in Same : q.confidence \in Nat /\ q.confidence <= Cap
    BY <1>1
  <2>2. p \in Same
    OBVIOUS
  <2> HIDE DEF Same
  <2> QED
    BY <2>1, <2>2
<1>3. PICK c \in S : \A s \in S : s <= c
  <2> HIDE DEF S
  <2> QED
    BY <1>1, <1>2, Greatest
<1>4. PICK m \in Same : c = m.confidence
  OBVIOUS
<1>5. \A q \in Same : q.confidence <= m.confidence
  BY <1>3, <1>4
<1>6. m \in P \cup Q /\ m.pair = p.pair /\ p \in Same
  OBVIOUS
<1>7. m \in Merged(P, Q)
  <2> HIDE DEF S
  <2> QED
    BY <1>5, <1>6 DEF Merged
<1>8. p.confidence \in Nat /\ m.confidence \in Nat /\ p.confidence <= m.confidence
  <2> HIDE DEF S
  <2> QED
    BY <1>1, <1>5, <1>6
<1> HIDE DEF S, Same
<1> QED
  BY <1>6, <1>7, <1>8

\* A proposal that either signal makes is in the plan, or a stronger one for its pair, or
\* the plan is full of others that are at least as strong.
LEMMA ProposedOrFull ==
  ASSUME NEW P \in SUBSET Proposal, NEW Q \in SUBSET Proposal, NEW p \in P \cup Q
  PROVE  StrongEnough(p.pair, p.confidence, Plan(Merged(P, Q)))
<1> DEFINE M == Merged(P, Q)
<1>1. M \subseteq Proposal /\ M \subseteq P \cup Q
  BY DEF Merged
<1>2. PICK m \in M : m.pair = p.pair /\ m.confidence >= p.confidence
  BY MergedCovers
<1>3. Distinct(M)
  BY MergedOnce
<1> HIDE DEF M
<1>4. CASE m \in Plan(M)
  BY <1>2, <1>4 DEF StrongEnough, M
<1>5. CASE m \notin Plan(M)
  <2>1. Cardinality(Plan(M)) = MaxProposals /\ \A q \in Plan(M) : Earlier(q, m)
    BY <1>1, <1>5, LeftOut
  <2>2. ASSUME NEW q \in Plan(M)
        PROVE  q.pair # p.pair /\ q.confidence >= p.confidence
    <3>1. q \in M /\ q \in Proposal /\ m \in Proposal /\ p \in Proposal
      BY <1>1, PlanByRank
    <3>2. q.confidence >= m.confidence /\ q # m
      BY <1>5, <2>1, <2>2, <3>1, EarlierOrders
    <3>3. q.pair # m.pair
      BY <1>3, <3>1, <3>2 DEF Distinct
    <3>4. q.confidence \in Nat /\ m.confidence \in Nat /\ p.confidence \in Nat
      BY <3>1, ProposalFields
    <3> QED
      BY <1>2, <3>2, <3>3, <3>4
  <2> QED
    BY <2>1, <2>2 DEF StrongEnough, M
<1> QED
  BY <1>4, <1>5

-----------------------------------------------------------------------------
(* A run inserts the plan of what it has read.                             *)

FromItsReads(v) ==
  v.step = "insert" => v.plan = Plan(Merged(FromMembership(v.members), FromTags(v.hubs)))
PlannedFromReads == \A r \in Runs : FromItsReads(run[r])

LEMMA PlannedStep ==
  ASSUME HInv, PlannedFromReads, [Next]_vars
  PROVE  PlannedFromReads'
<1>1. run \in [Runs -> Run] /\ \A r \in Runs : run[r] \in Run
  BY DEF HInv, TypeOK
<1>2. ASSUME NEW r \in Runs, NEW v, Goto(r, v), FromItsReads(v)
      PROVE  PlannedFromReads'
  <2>1. \A q \in Runs : run'[q] = IF q = r THEN v ELSE run[q]
    BY <1>1, <1>2 DEF Goto
  <2>2. \A q \in Runs : FromItsReads(run'[q])
    BY <1>2, <2>1 DEF PlannedFromReads
  <2> QED
    BY <2>2 DEF PlannedFromReads, FromItsReads
<1>3. FromItsReads(Ended)
  BY IdleRun DEF FromItsReads
<1>4. CASE run' = run
  BY <1>4 DEF PlannedFromReads, FromItsReads
<1>5. CASE People
  BY <1>4, <1>5 DEF People, CreateEdge, ReviewEdge, UpdateEdge, ArchiveEdge, UpdateHub, LinkContent
<1>6. ASSUME NEW r \in Runs, FetchMemberships(r)
      PROVE  PlannedFromReads'
  <2> DEFINE v == [Idle EXCEPT !.step = "hubs", !.members = {l \in links : l[1] \in active}]
  <2>1. Goto(r, v)
    BY <1>6 DEF FetchMemberships
  <2>2. v.step = "hubs"
    BY DEF Idle
  <2> HIDE DEF v
  <2> QED
    BY <1>2, <2>1, <2>2 DEF FromItsReads
<1>7. ASSUME NEW r \in Runs, FetchHubs(r)
      PROVE  PlannedFromReads'
  <2> DEFINE v == [run[r] EXCEPT !.step = "tags", !.hubs = active]
  <2>1. Goto(r, v)
    BY <1>7 DEF FetchHubs
  <2>2. v.step = "tags"
    BY <1>1 DEF Run
  <2> HIDE DEF v
  <2> QED
    BY <1>2, <2>1, <2>2 DEF FromItsReads
<1>8. ASSUME NEW r \in Runs, FetchTaggedContents(r)
      PROVE  PlannedFromReads'
  <2> DEFINE plan == Plan(Merged(FromMembership(run[r].members), FromTags(run[r].hubs)))
             v == [run[r] EXCEPT !.step = "insert", !.plan = plan, !.todo = plan]
  <2>1. Goto(r, v)
    BY <1>8 DEF FetchTaggedContents
  <2>2. v.plan = plan /\ v.members = run[r].members /\ v.hubs = run[r].hubs
    <3> HIDE DEF plan
    <3> QED
      BY <1>1 DEF Run
  <2> HIDE DEF v
  <2> QED
    BY <1>2, <2>1, <2>2 DEF FromItsReads
<1>9. ASSUME NEW r \in Runs, InsertNext(r)
      PROVE  PlannedFromReads'
  <2>1. PICK p \in run[r].todo :
          /\ run[r].step = "insert"
          /\ Goto(r, [run[r] EXCEPT !.todo = @ \ {p},
               !.mine = IF Holders(ProposalKey(p)) = {} THEN Append(@, ProposalKey(p)) ELSE @])
    BY <1>9 DEF InsertNext
  <2> DEFINE todo == run[r].todo \ {p}
             mine == IF Holders(ProposalKey(p)) = {} THEN Append(run[r].mine, ProposalKey(p))
                     ELSE run[r].mine
             v == [run[r] EXCEPT !.todo = todo, !.mine = mine]
  <2>2. Goto(r, v)
    BY <2>1
  <2>3. /\ v.step = run[r].step /\ v.plan = run[r].plan
        /\ v.members = run[r].members /\ v.hubs = run[r].hubs
    <3> HIDE DEF todo, mine
    <3> QED
      BY <1>1 DEF Run
  <2> HIDE DEF v
  <2>4. FromItsReads(run[r])
    BY DEF PlannedFromReads
  <2> QED
    BY <1>2, <2>2, <2>3, <2>4 DEF FromItsReads
<1>10. ASSUME NEW r \in Runs, CommitRun(r) \/ Abort(r)
       PROVE  PlannedFromReads'
  BY <1>2, <1>3, <1>10 DEF CommitRun, Abort
<1>11. CASE BreakDeadlock
  BY <1>10, <1>11 DEF BreakDeadlock
<1>12. CASE UNCHANGED vars
  BY <1>4, <1>12 DEF vars
<1> QED
  BY <1>5, <1>6, <1>7, <1>8, <1>9, <1>10, <1>11, <1>12 DEF Next, Proceed

LEMMA PlanOfReadsIsStrongest == HInv /\ PlannedFromReads => PlanIsStrongest
<1> SUFFICES ASSUME HInv, PlannedFromReads, NEW r \in Runs, run[r].step = "insert"
             PROVE  /\ Cardinality(run[r].plan) <= MaxProposals
                    /\ \A p, q \in run[r].plan : p.pair = q.pair => p = q
                    /\ \A p \in Pairs(Hubs) :
                         /\ Shared(p, run[r].members) >= AtLeastOne(MinShared) =>
                              StrongEnough(p, Scaled(Shared(p, run[r].members), MinShared),
                                           run[r].plan)
                         /\ Cooccur(p, run[r].hubs) >= AtLeastOne(MinCooccur) =>
                              StrongEnough(p, Scaled(Cooccur(p, run[r].hubs), MinCooccur),
                                           run[r].plan)
  BY DEF PlanIsStrongest
<1> DEFINE members == run[r].members
           hubs == run[r].hubs
           P == FromMembership(members)
           Q == FromTags(hubs)
           plan == Plan(Merged(P, Q))
<1>1. run[r] \in Run
  BY DEF HInv, TypeOK
<1>2. hubs \subseteq Hubs
  BY <1>1 DEF Run
<1>3. run[r].plan = plan
  BY DEF PlannedFromReads, FromItsReads
<1> HIDE DEF members, hubs
<1>4. P \subseteq Proposal /\ Q \subseteq Proposal
  BY <1>2, ProposalTypes
<1>5. Merged(P, Q) \subseteq Proposal
  BY <1>4 DEF Merged
<1>6. Cardinality(plan) <= MaxProposals
  <2> HIDE DEF P, Q
  <2> QED
    BY <1>5, PlanFits
<1>7. \A p, q \in plan : p.pair = q.pair => p = q
  <2> HIDE DEF P, Q
  <2>1. Distinct(Merged(P, Q)) /\ plan \subseteq Merged(P, Q)
    BY <1>4, MergedOnce, PlanByRank
  <2> QED
    BY <2>1 DEF Distinct
<1>8. ASSUME NEW p \in Pairs(Hubs), Shared(p, members) >= AtLeastOne(MinShared)
      PROVE  StrongEnough(p, Scaled(Shared(p, members), MinShared), plan)
  <2> DEFINE x == [pair |-> p, confidence |-> Scaled(Shared(p, members), MinShared)]
  <2>1. x \in P
    BY <1>8 DEF FromMembership
  <2>2. x.pair = p /\ x.confidence = Scaled(Shared(p, members), MinShared)
    OBVIOUS
  <2> HIDE DEF x, P, Q
  <2> QED
    BY <1>4, <2>1, <2>2, ProposedOrFull
<1>9. ASSUME NEW p \in Pairs(Hubs), Cooccur(p, hubs) >= AtLeastOne(MinCooccur)
      PROVE  StrongEnough(p, Scaled(Cooccur(p, hubs), MinCooccur), plan)
  <2>1. p \in Pairs(hubs)
    <3>1. p[1] \in hubs /\ p[2] \in hubs
      <4>1. PICK c \in Items : {p[1], p[2]} \subseteq Mentions[c] \cap hubs
        <5>1. CASE {c \in Items : {p[1], p[2]} \subseteq Mentions[c] \cap hubs} = {}
          <6>1. Cooccur(p, hubs) = 0
            BY <5>1, FS_EmptySet DEF Cooccur
          <6>2. AtLeastOne(MinCooccur) > 0
            BY OptionsAssumption DEF AtLeastOne
          <6>3. AtLeastOne(MinCooccur) \in Nat
            BY OptionsAssumption DEF AtLeastOne
          <6> QED
            BY <1>9, <6>1, <6>2, <6>3
        <5> QED
          BY <5>1
      <4> QED
        BY <4>1
    <3> QED
      BY <3>1 DEF Pairs
  <2> DEFINE x == [pair |-> p, confidence |-> Scaled(Cooccur(p, hubs), MinCooccur)]
  <2>2. x \in Q
    BY <1>9, <2>1 DEF FromTags
  <2>3. x.pair = p /\ x.confidence = Scaled(Cooccur(p, hubs), MinCooccur)
    OBVIOUS
  <2> HIDE DEF x, P, Q
  <2> QED
    BY <1>4, <2>2, <2>3, ProposedOrFull
<1> HIDE DEF plan, P, Q
<1> QED
  BY <1>3, <1>6, <1>7, <1>8, <1>9 DEF members, hubs

\* The plan of a run leaves out the weakest: whatever was written while it read, it
\* proposes each pair with the better of its two signals, or is full and has no weaker
\* entry, for any hubs, items, mentions, thresholds and length (edge_inference.py, merge
\* and cut).
THEOREM PlanLeavesOutTheWeakest == Spec => []PlanIsStrongest
<1>1. Init => PlannedFromReads
  <2> SUFFICES ASSUME Init PROVE PlannedFromReads
    OBVIOUS
  <2>1. \A r \in Runs : run[r].step = "idle"
    BY IdleRun DEF Init
  <2> QED
    BY <2>1 DEF PlannedFromReads, FromItsReads
<1>2. HInv /\ PlannedFromReads /\ [Next]_vars => PlannedFromReads'
  BY PlannedStep
<1> QED
  BY <1>1, <1>2, Invariant, PlanOfReadsIsStrongest, PTL DEF Spec
=============================================================================
