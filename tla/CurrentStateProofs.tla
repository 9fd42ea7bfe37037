------------------------- MODULE CurrentStateProofs -------------------------
(***************************************************************************)
(* Proofs about CurrentState, for any items, identities and scopes and any *)
(* number of request threads: types; that an identity's anchor or item is  *)
(* replaced only within the identity, reconcile jobs included; as long as  *)
(* no reconcile job runs along, that the last promotion of an identity     *)
(* stands and that an active anchor points at a current item, however the  *)
(* resolvers pass each other; and with one thread the register per         *)
(* identity that the resolver promises.                                    *)
(***************************************************************************)
EXTENDS CurrentState, SequenceTheorems, FiniteSetTheorems, WellFoundedInduction, TLAPS

Resolving == {"lookup", "refresh", "previous", "scan", "supersede"}

\* Where a request is says what it knows; nothing is dated in the future.
Shape(r) ==
  /\ r.at <= clock
  /\ r.step # "idle" => r.item \in Content /\ r.scope \in Scopes
  /\ r.step \in Resolving => r.identity \in Identities

Dated == \A a \in DOMAIN anchors : anchors[a].at <= clock

Types == TypeOK /\ Dated /\ \A w \in Workers : Shape(req[w])

-----------------------------------------------------------------------------
(* Types.                                                                  *)

LEMMA IdleRequest ==
  /\ Idle \in Request
  /\ TypeOK => Shape(Idle)
BY DEF Idle, Request, Steps, Shape, Resolving, TypeOK

LEMMA InitTypes == Init => Types
<1> SUFFICES ASSUME Init PROVE Types
  OBVIOUS
<1>1. NoRow \in Row
  BY DEF NoRow, Row
<1>2. TypeOK
  BY <1>1, IdleRequest DEF Init, TypeOK
<1>3. Dated
  BY DEF Init, Dated
<1> QED
  BY <1>2, <1>3, IdleRequest DEF Init, Types

\* What a step has to show of the one request it changes.
LEMMA OneRequest ==
  ASSUME Types, NEW w \in Workers, NEW v \in Request, Shape(v),
         req' = [req EXCEPT ![w] = v],
         row' \in [Content -> Row], anchors' \in Seq(Anchor),
         clock' \in Nat, clock <= clock', Dated'
  PROVE  Types'
<1>1. /\ req' \in [Workers -> Request] /\ req'[w] = v
      /\ \A u \in Workers \ {w} : req'[u] = req[u]
  BY DEF Types, TypeOK
<1>2. TypeOK'
  BY <1>1 DEF TypeOK
<1>3. ASSUME NEW u \in Workers PROVE Shape(req[u])'
  <2>1. req'[u] \in Request /\ Shape(req'[u]) /\ clock \in Nat
    BY <1>1 DEF Types, TypeOK
  <2>2. req'[u].at <= clock'
    BY <2>1 DEF Shape, Request
  <2> QED
    BY <2>1, <2>2 DEF Shape
<1> QED
  BY <1>2, <1>3 DEF Types

LEMMA RowFields ==
  ASSUME NEW r \in Row
  PROVE  /\ \A p \in {"absent", "saved", "classified"} :
              /\ [r EXCEPT !.phase = p] \in Row
              /\ [r EXCEPT !.phase = p].phase = p
              /\ [r EXCEPT !.phase = p].current = r.current
              /\ [r EXCEPT !.phase = p].identity = r.identity
              /\ [r EXCEPT !.phase = p].supersedes = r.supersedes
         /\ \A s \in Scopes :
              /\ [r EXCEPT !.scope = s] \in Row
              /\ [r EXCEPT !.scope = s].phase = r.phase
              /\ [r EXCEPT !.scope = s].current = r.current
              /\ [r EXCEPT !.scope = s].identity = r.identity
              /\ [r EXCEPT !.scope = s].supersedes = r.supersedes
         /\ \A s \in Scopes :
              /\ [r EXCEPT !.current = "FALSE", !.scope = s] \in Row
              /\ [r EXCEPT !.current = "FALSE", !.scope = s].phase = r.phase
              /\ [r EXCEPT !.current = "FALSE", !.scope = s].identity = r.identity
BY DEF Row

LEMMA AnchorFields ==
  ASSUME TypeOK
  PROVE  /\ Len(anchors) \in Nat /\ DOMAIN anchors = 1 .. Len(anchors)
         /\ \A a \in DOMAIN anchors :
              /\ a \in Nat /\ anchors[a] \in Anchor
              /\ anchors[a].identity \in Identities /\ anchors[a].item \in Content
              /\ anchors[a].status \in {"active", "superseded"}
              /\ anchors[a].at \in Nat
              /\ anchors[a].supersedes \in Content \cup {NoItem}
              /\ Superseded(a) \in Anchor
              /\ Superseded(a).identity = anchors[a].identity
              /\ Superseded(a).item = anchors[a].item
              /\ Superseded(a).at = anchors[a].at
              /\ Superseded(a).supersedes = anchors[a].supersedes
              /\ Superseded(a).status = "superseded"
<1>1. anchors \in Seq(Anchor)
  BY DEF TypeOK
<1>2. Len(anchors) \in Nat /\ DOMAIN anchors = 1 .. Len(anchors)
  BY <1>1, LenProperties
<1>3. \A a \in DOMAIN anchors : a \in Nat /\ anchors[a] \in Anchor
  BY <1>1, <1>2, ElementOfSeq
<1> QED
  BY <1>2, <1>3 DEF Anchor, Superseded

\* The rows and anchors a commit writes.
LEMMA CommitTypes ==
  ASSUME Types, NEW w \in Workers, req[w].step = "supersede"
  PROVE  /\ CurrentRow(req[w]) \in Row /\ NewAnchor(req[w]) \in Anchor
         /\ RowsAfter(req[w]) \in [Content -> Row]
         /\ AnchorsAfter(req[w]) \in Seq(Anchor)
<1> DEFINE r == req[w]
<1>1. /\ r \in Request /\ row \in [Content -> Row] /\ anchors \in Seq(Anchor)
      /\ r.item \in Content /\ r.scope \in Scopes /\ r.identity \in Identities
  BY DEF Types, TypeOK, Shape, Resolving
<1>2. CurrentRow(r) \in Row
  BY <1>1 DEF CurrentRow, Row, Request
<1>3. NewAnchor(r) \in Anchor
  BY <1>1 DEF NewAnchor, Anchor, Request
<1>4. RowsAfter(r) \in [Content -> Row]
  <2>1. \A c \in Content : [row[c] EXCEPT !.current = "FALSE", !.scope = r.scope] \in Row
    BY <1>1, RowFields
  <2> QED
    BY <1>1, <1>2, <2>1 DEF RowsAfter
<1>5. AnchorsAfter(r) \in Seq(Anchor)
  <2> DEFINE s == [a \in DOMAIN anchors |->
                     IF a \in r.held THEN Superseded(a) ELSE anchors[a]]
  <2>1. \A a \in DOMAIN anchors : anchors[a] \in Anchor /\ Superseded(a) \in Anchor
    BY AnchorFields DEF Types
  <2>2. Len(anchors) \in Nat /\ DOMAIN anchors = 1 .. Len(anchors)
    BY <1>1, LenProperties
  <2>3. s \in [1 .. Len(anchors) -> Anchor]
    BY <2>1, <2>2
  <2>4. s \in Seq(Anchor)
    BY <2>2, <2>3
  <2>5. AnchorsAfter(r) = Append(s, NewAnchor(r))
    BY DEF AnchorsAfter
  <2> HIDE DEF s
  <2> QED
    BY <1>3, <2>4, <2>5, AppendProperties
<1> QED
  BY <1>2, <1>3, <1>4, <1>5

LEMMA DatedKept == ASSUME Types, anchors' = anchors, clock' \in Nat, clock <= clock'
                   PROVE  Dated'
<1> SUFFICES ASSUME NEW a \in DOMAIN anchors PROVE anchors[a].at <= clock'
  BY DEF Dated
<1>1. anchors[a].at \in Nat /\ anchors[a].at <= clock /\ clock \in Nat
  BY AnchorFields DEF Types, TypeOK, Dated
<1> QED
  BY <1>1

\* What a commit leaves in the anchors.
LEMMA CommitAnchors ==
  ASSUME Types, NEW w \in Workers, req[w].step = "supersede"
  PROVE  /\ DOMAIN anchors = 1 .. Len(anchors) /\ Len(anchors) \in Nat
         /\ Len(AnchorsAfter(req[w])) = Len(anchors) + 1
         /\ DOMAIN AnchorsAfter(req[w]) = 1 .. Len(anchors) + 1
         /\ AnchorsAfter(req[w])[Len(anchors) + 1] = NewAnchor(req[w])
         /\ \A a \in DOMAIN anchors :
              AnchorsAfter(req[w])[a] =
                IF a \in req[w].held THEN Superseded(a) ELSE anchors[a]
<1> DEFINE r == req[w]
           s == [a \in DOMAIN anchors |->
                   IF a \in r.held THEN Superseded(a) ELSE anchors[a]]
<1>1. Len(anchors) \in Nat /\ DOMAIN anchors = 1 .. Len(anchors)
  BY LenProperties DEF Types, TypeOK
<1>2. \A a \in DOMAIN anchors : anchors[a] \in Anchor /\ Superseded(a) \in Anchor
  BY AnchorFields DEF Types
<1>3. s \in Seq(Anchor) /\ Len(s) = Len(anchors)
  <2>1. s \in [1 .. Len(anchors) -> Anchor]
    BY <1>1, <1>2
  <2> QED
    BY <1>1, <2>1
<1>4. AnchorsAfter(r) = Append(s, NewAnchor(r)) /\ NewAnchor(r) \in Anchor
  BY CommitTypes DEF AnchorsAfter
<1>5. \A a \in DOMAIN anchors :
        s[a] = IF a \in r.held THEN Superseded(a) ELSE anchors[a]
  OBVIOUS
<1> HIDE DEF s
<1>6. /\ AnchorsAfter(r) \in Seq(Anchor)
      /\ Len(AnchorsAfter(r)) = Len(s) + 1
      /\ \A a \in 1 .. Len(s) : AnchorsAfter(r)[a] = s[a]
      /\ AnchorsAfter(r)[Len(s) + 1] = NewAnchor(r)
  BY <1>3, <1>4, AppendProperties
<1>7. DOMAIN AnchorsAfter(r) = 1 .. Len(anchors) + 1
  BY <1>3, <1>6, LenProperties
<1> QED
  BY <1>1, <1>3, <1>5, <1>6, <1>7

LEMMA CommitDated ==
  ASSUME Types, NEW w \in Workers, req[w].step = "supersede"
  PROVE  \A a \in DOMAIN AnchorsAfter(req[w]) : AnchorsAfter(req[w])[a].at <= clock
<1> SUFFICES ASSUME NEW a \in DOMAIN AnchorsAfter(req[w])
             PROVE  AnchorsAfter(req[w])[a].at <= clock
  OBVIOUS
<1>1. CASE a \in DOMAIN anchors
  <2>1. AnchorsAfter(req[w])[a].at = anchors[a].at
    BY <1>1, CommitAnchors, AnchorFields DEF Types
  <2> QED
    BY <1>1, <2>1 DEF Types, Dated
<1>2. CASE a = Len(anchors) + 1
  <2>1. AnchorsAfter(req[w])[a].at = req[w].at
    <3>1. AnchorsAfter(req[w])[a] = NewAnchor(req[w])
      BY <1>2, CommitAnchors
    <3> QED
      BY <3>1 DEF NewAnchor
  <2> QED
    BY <2>1 DEF Types, Shape
<1>3. a \in 1 .. Len(anchors) + 1 /\ Len(anchors) \in Nat
  BY CommitAnchors
<1>4. a \in DOMAIN anchors \/ a = Len(anchors) + 1
  BY <1>3, CommitAnchors
<1> QED
  BY <1>1, <1>2, <1>4

\* A bounded set of numbers has a greatest one.
LEMMA BoundedMax ==
  ASSUME NEW S \in SUBSET Nat, S # {}, NEW n \in Nat, \A s \in S : s <= n
  PROVE  \E m \in S : \A s \in S : s <= m
<1> DEFINE D == {n - s : s \in S}
           R == OpToRel(<, Nat)
<1>0. \A s \in S : n - s \in Nat
  OBVIOUS
<1>1. D \subseteq Nat /\ D # {}
  BY <1>0, Zenon
<1>2. \E x \in D : \A y \in D : ~ (<<y, x>> \in R)
  <2>1. IsWellFoundedOn(R, Nat)
    BY NatLessThanWellFounded
  <2> HIDE DEF D, R
  <2> QED
    BY <1>1, <2>1, WFMin
<1>3. PICK x \in D : \A y \in D : ~ (y < x)
  BY <1>1, <1>2 DEF OpToRel
<1>4. PICK m \in S : x = n - m
  OBVIOUS
<1>5. ASSUME NEW s \in S PROVE s <= m
  <2>1. ~ (n - s < n - m)
    BY <1>3, <1>4
  <2>2. s \in Nat /\ m \in Nat
    OBVIOUS
  <2> HIDE DEF D, R
  <2> QED
    BY <2>1, <2>2
<1> QED
  BY <1>5

\* The newest of some anchors is one of them.
LEMMA NewestIsThere ==
  ASSUME Types, NEW S \in SUBSET DOMAIN anchors, S # {}
  PROVE  \E a \in S : NewestItem(S) = anchors[a].item
<1> DEFINE T == {anchors[a].at : a \in S}
<1>1. \A a \in S : anchors[a].at \in Nat /\ anchors[a].at <= clock
  BY AnchorFields DEF Types, Dated
<1>2. \E t \in T : \A u \in T : u <= t
  <2>1. T \in SUBSET Nat /\ T # {} /\ \A t \in T : t <= clock
    BY <1>1
  <2>2. clock \in Nat
    BY DEF Types, TypeOK
  <2> HIDE DEF T
  <2> QED
    BY <2>1, <2>2, BoundedMax
<1>3. \E a \in S : \A b \in S : anchors[b].at <= anchors[a].at
  BY <1>2
<1> QED
  BY <1>3 DEF NewestItem

LEMMA NewestType ==
  ASSUME Types, NEW S \in SUBSET DOMAIN anchors
  PROVE  NewestItem(S) \in Content \cup {NoItem}
<1>1. \A a \in DOMAIN anchors : anchors[a].item \in Content
  BY AnchorFields DEF Types
<1> QED
  BY <1>1, NewestIsThere DEF NewestItem

LEMMA TypesStep == Types /\ [Next]_vars => Types'
<1> SUFFICES ASSUME Types, [Next]_vars PROVE Types'
  OBVIOUS
<1>0. /\ row \in [Content -> Row] /\ anchors \in Seq(Anchor) /\ clock \in Nat
      /\ req \in [Workers -> Request] /\ \A w \in Workers : Shape(req[w])
      /\ Idle \in Request /\ Shape(Idle)
  BY IdleRequest DEF Types, TypeOK
<1>d. ASSUME NEW w \in Workers, NEW v \in Request, Shape(v),
             req' = [req EXCEPT ![w] = v], row' \in [Content -> Row],
             anchors' = anchors, clock' = clock
      PROVE  Types'
  <2>1. clock' \in Nat /\ clock <= clock' /\ anchors' \in Seq(Anchor)
    BY <1>0, <1>d
  <2>2. Dated'
    BY <1>d, <2>1, DatedKept
  <2> QED
    BY <1>d, <2>1, <2>2, OneRequest
<1>1. ASSUME NEW w \in Workers, NEW c \in Content, NEW s \in Scopes,
             \/ \E i \in Identities : PromoteRead(w, c, i, s)
             \/ SaveRead(w, c, s)
      PROVE  Types'
  <2>1. CASE SaveRead(w, c, s)
    <3> DEFINE v == [Idle EXCEPT !.step = "insert", !.item = c, !.scope = s]
    <3>1. v \in Request /\ Shape(v)
      BY <1>0 DEF Idle, Request, Steps, Shape, Resolving
    <3>2. req' = [req EXCEPT ![w] = v] /\ UNCHANGED <<row, anchors, clock>>
      BY <2>1 DEF SaveRead
    <3> HIDE DEF v
    <3> QED
      BY <1>0, <1>d, <3>1, <3>2
  <2>2. ASSUME NEW i \in Identities, PromoteRead(w, c, i, s) PROVE Types'
    <3> DEFINE v == [Idle EXCEPT !.step = "insert", !.item = c, !.identity = i, !.scope = s]
    <3>1. v \in Request /\ Shape(v)
      BY <1>0 DEF Idle, Request, Steps, Shape, Resolving
    <3>2. req' = [req EXCEPT ![w] = v] /\ UNCHANGED <<row, anchors, clock>>
      BY <2>2 DEF PromoteRead
    <3> HIDE DEF v
    <3> QED
      BY <1>0, <1>d, <3>1, <3>2
  <2> QED
    BY <1>1, <2>1, <2>2
<1>2. ASSUME NEW w \in Workers, Insert(w) PROVE Types'
  <2> DEFINE r == req[w]
             v == [r EXCEPT !.step = "classify"]
  <2>1. r \in Request /\ Shape(r) /\ r.step = "insert" /\ r.item \in Content
    BY <1>0, <1>2 DEF Insert, Shape
  <2>2. v \in Request /\ Shape(v)
    BY <2>1 DEF Request, Steps, Shape, Resolving
  <2>3. row' \in [Content -> Row]
    <3>1. [row[r.item] EXCEPT !.phase = "saved"] \in Row
      BY <1>0, <2>1, RowFields
    <3> QED
      BY <1>0, <1>2, <2>1, <3>1 DEF Insert
  <2>4. req' = [req EXCEPT ![w] = v] \/ req' = [req EXCEPT ![w] = Idle]
    BY <1>0, <1>2 DEF Insert, Finish
  <2>5. UNCHANGED <<anchors, clock>>
    BY <1>2 DEF Insert
  <2> HIDE DEF v
  <2> QED
    BY <1>0, <2>2, <2>3, <2>4, <2>5, <1>d
<1>3. ASSUME NEW w \in Workers, Classify(w) PROVE Types'
  <2> DEFINE r == req[w]
             v(step) == [r EXCEPT !.step = step]
  <2>1. r \in Request /\ Shape(r) /\ r.step = "classify" /\ r.item \in Content
    BY <1>0, <1>3 DEF Classify, Shape
  <2>2. /\ r.identity # NoIdentity => v("lookup") \in Request /\ Shape(v("lookup"))
        /\ v("group") \in Request /\ Shape(v("group"))
    BY <2>1 DEF Request, Steps, Shape, Resolving
  <2>3. row' \in [Content -> Row]
    BY <1>0, <1>3, <2>1, RowFields DEF Classify
  <2>4. \/ r.identity # NoIdentity /\ req' = [req EXCEPT ![w] = v("lookup")]
        \/ req' = [req EXCEPT ![w] = v("group")] \/ req' = [req EXCEPT ![w] = Idle]
    BY <1>0, <1>3 DEF Classify, Finish
  <2>5. UNCHANGED <<anchors, clock>>
    BY <1>3 DEF Classify
  <2> HIDE DEF v
  <2> QED
    BY <1>0, <2>2, <2>3, <2>4, <2>5, <1>d
<1>4. ASSUME NEW w \in Workers, NEW c \in Content, NEW s \in Scopes,
             CatchUp(w, c, s) \/ ReconcileItem(w, c, s)
      PROVE  Types'
  <2> DEFINE g == [Idle EXCEPT !.step = "group", !.item = c, !.scope = s]
             k == [Idle EXCEPT !.step = "lookup", !.item = c,
                                !.identity = row[c].identity, !.scope = s]
  <2>1. g \in Request /\ Shape(g)
    BY <1>0 DEF Idle, Request, Steps, Shape, Resolving
  <2>2. CASE CatchUp(w, c, s)
    <3>1. row' \in [Content -> Row]
      BY <1>0, <2>2, RowFields DEF CatchUp
    <3>2. req' = [req EXCEPT ![w] = g] /\ UNCHANGED <<anchors, clock>>
      BY <2>2 DEF CatchUp
    <3> HIDE DEF g
    <3> QED
      BY <1>0, <2>1, <3>1, <3>2, <1>d
  <2>3. CASE ReconcileItem(w, c, s)
    <3>1. row[c].identity \in Identities
      BY <1>0, <2>3 DEF ReconcileItem, Row
    <3>2. k \in Request /\ Shape(k)
      BY <1>0, <3>1 DEF Idle, Request, Steps, Shape, Resolving
    <3>3. req' = [req EXCEPT ![w] = k] /\ UNCHANGED <<row, anchors, clock>>
      BY <2>3 DEF ReconcileItem
    <3> HIDE DEF k
    <3> QED
      BY <1>0, <3>2, <3>3, <1>d
  <2> QED
    BY <1>4, <2>2, <2>3
<1>5. ASSUME NEW w \in Workers, Group(w) \/ Refresh(w) \/ Commit(w) PROVE Types'
  <2>1. req' = [req EXCEPT ![w] = Idle] /\ clock' = clock
    BY <1>5 DEF Group, Refresh, Commit, Finish
  <2>2. CASE Group(w)
    <3>1. row' \in [Content -> Row]
      BY <1>0, <2>2, RowFields DEF Group, Shape
    <3> QED
      BY <1>0, <2>1, <2>2, <3>1, <1>d DEF Group
  <2>3. CASE Refresh(w)
    <3>1. CurrentRow(req[w]) \in Row
      BY <1>0, <2>3 DEF Refresh, CurrentRow, Row, Request, Shape, Resolving
    <3>2. row' \in [Content -> Row]
      BY <1>0, <2>3, <3>1 DEF Refresh
    <3> QED
      BY <1>0, <2>1, <2>3, <3>2, <1>d DEF Refresh
  <2>4. CASE Commit(w)
    <3>1. /\ req[w].step = "supersede" /\ anchors' = AnchorsAfter(req[w])
          /\ row' = RowsAfter(req[w])
      BY <2>4 DEF Commit
    <3>2. Dated'
      BY <2>1, <3>1, CommitDated DEF Dated
    <3>3. anchors' \in Seq(Anchor) /\ row' \in [Content -> Row]
      BY <3>1, CommitTypes
    <3>4. clock' \in Nat /\ clock <= clock'
      BY <1>0, <2>1
    <3> QED
      BY <1>0, <2>1, <3>2, <3>3, <3>4, OneRequest
  <2> QED
    BY <1>5, <2>2, <2>3, <2>4
<1>6. ASSUME NEW w \in Workers, Lookup(w) PROVE Types'
  <2> DEFINE r == req[w]
             p == [r EXCEPT !.step = "previous", !.at = clock]
             f(a) == [r EXCEPT !.step = "refresh", !.at = clock,
                               !.prev = anchors[a].supersedes]
  <2>1. r \in Request /\ Shape(r) /\ r.step = "lookup"
    BY <1>0, <1>6 DEF Lookup
  <2>0. clock \in Nat /\ clock <= clock
    BY <1>0
  <2>2. p \in Request /\ Shape(p)
    <3>1. /\ p \in Request /\ p.step = "previous" /\ p.at = clock
          /\ p.item = r.item /\ p.scope = r.scope /\ p.identity = r.identity
      BY <2>0, <2>1 DEF Request, Steps
    <3> QED
      BY <2>0, <2>1, <3>1 DEF Shape, Resolving
  <2>3. \A a \in DOMAIN anchors : f(a) \in Request /\ Shape(f(a))
    <3> SUFFICES ASSUME NEW a \in DOMAIN anchors PROVE f(a) \in Request /\ Shape(f(a))
      OBVIOUS
    <3>1. anchors[a].supersedes \in Content \cup {NoItem}
      BY AnchorFields DEF Types
    <3>2. /\ f(a) \in Request /\ f(a).step = "refresh" /\ f(a).at = clock
          /\ f(a).item = r.item /\ f(a).scope = r.scope /\ f(a).identity = r.identity
      BY <2>0, <2>1, <3>1 DEF Request, Steps
    <3> QED
      BY <2>0, <2>1, <3>2 DEF Shape, Resolving
  <2>4. \/ req' = [req EXCEPT ![w] = p]
        \/ \E a \in DOMAIN anchors : req' = [req EXCEPT ![w] = f(a)]
    BY <1>6 DEF Lookup, Active
  <2>5. UNCHANGED <<row, anchors>> /\ clock' \in Nat /\ clock <= clock'
    <3>1. UNCHANGED <<row, anchors>> /\ clock' = clock + 1
      BY <1>6 DEF Lookup
    <3> QED
      BY <2>0, <3>1
  <2> HIDE DEF p, f
  <2> QED
    BY <1>0, <2>2, <2>3, <2>4, <2>5, DatedKept, OneRequest
<1>7. ASSUME NEW w \in Workers, FindPrevious(w) PROVE Types'
  <2> DEFINE r == req[w]
             n == NewestItem(Active(r.identity))
             v == [r EXCEPT !.step = "scan", !.prev = n]
  <2>1. r \in Request /\ Shape(r) /\ r.step = "previous"
    BY <1>0, <1>7 DEF FindPrevious
  <2>2. n \in Content \cup {NoItem}
    BY NewestType DEF Active
  <2>3. v \in Request /\ Shape(v)
    <3> HIDE DEF n
    <3> QED
      BY <2>1, <2>2 DEF Request, Steps, Shape, Resolving
  <2>4. req' = [req EXCEPT ![w] = v] /\ UNCHANGED <<row, anchors, clock>>
    BY <1>0, <1>7 DEF FindPrevious
  <2> HIDE DEF v
  <2> QED
    BY <1>0, <2>3, <2>4, <1>d
<1>8. ASSUME NEW w \in Workers, Scan(w) PROVE Types'
  <2> DEFINE r == req[w]
             S == {a \in DOMAIN anchors : Supersedable(r, a)}
             v == [r EXCEPT !.step = "supersede", !.todo = S]
  <2>1. r \in Request /\ Shape(r) /\ r.step = "scan"
    BY <1>0, <1>8 DEF Scan
  <2>2. S \in SUBSET Nat
    BY <1>0, LenProperties
  <2>3. v \in Request /\ Shape(v)
    <3> HIDE DEF S
    <3> QED
      BY <2>1, <2>2 DEF Request, Steps, Shape, Resolving
  <2>4. req' = [req EXCEPT ![w] = v] /\ UNCHANGED <<row, anchors, clock>>
    BY <1>0, <1>8 DEF Scan
  <2> HIDE DEF v
  <2> QED
    BY <1>0, <2>3, <2>4, <1>d
<1>9. ASSUME NEW w \in Workers, NEW a \in DOMAIN anchors, Supersede(w, a)
      PROVE  Types'
  <2> DEFINE r == req[w]
             v(held) == [r EXCEPT !.todo = r.todo \ {a}, !.held = held]
  <2>1. r \in Request /\ Shape(r)
    BY <1>0
  <2>2. \A held \in SUBSET Nat : v(held) \in Request /\ Shape(v(held))
    BY <2>1 DEF Request, Shape, Resolving
  <2>3. a \in Nat /\ r.held \in SUBSET Nat
    BY <1>0, <2>1, LenProperties DEF Request
  <2>4. /\ \E held \in {r.held, r.held \cup {a}} : req' = [req EXCEPT ![w] = v(held)]
        /\ UNCHANGED <<row, anchors, clock>>
    BY <1>0, <1>9 DEF Supersede
  <2> HIDE DEF v
  <2> QED
    BY <1>0, <2>2, <2>3, <2>4, <1>d
<1>10. ASSUME NEW w \in Workers, ClassifyFails(w) \/ Abort(w) PROVE Types'
  <2>1. req' = [req EXCEPT ![w] = Idle] /\ UNCHANGED <<row, anchors, clock>>
    BY <1>10 DEF ClassifyFails, Abort, Finish
  <2> QED
    BY <1>0, <2>1, <1>d
<1>11. CASE UNCHANGED vars
  <2>1. UNCHANGED <<row, anchors, req, clock>>
    BY <1>11 DEF vars
  <2> QED
    BY <2>1 DEF Types, TypeOK, Dated, Shape
<1> QED
  BY <1>1, <1>2, <1>3, <1>4, <1>5, <1>6, <1>7, <1>8, <1>9, <1>10, <1>11
  DEF Next, Start, Proceed

\* Rows, anchors and requests keep the shape of their columns and locals,
\* whichever kinds of requests arrive and however they interleave or fail.
THEOREM TypeCorrect == Spec => []TypeOK
<1>1. Types => TypeOK
  BY DEF Types
<1> QED
  BY <1>1, InitTypes, TypesStep, PTL DEF Spec

-----------------------------------------------------------------------------
(* Promotions that pass each other.                                        *)

\* From its INSERT on, a promotion has its item to itself.
Owner(r) ==
  r.identity # NoIdentity /\ r.step \in {"classify", "lookup", "previous", "scan", "supersede"}

\* What resolver r knows of the anchors: its item has none yet; the rows it is
\* to lock or has locked are of its identity; the item it read as previous has
\* an anchor, and once the snapshot is taken that anchor is among those rows
\* unless another resolver has superseded it.
Informed(r) ==
  /\ r.step # "refresh"
  /\ r.step # "supersede" => r.todo = {} /\ r.held = {}
  /\ Owner(r) => /\ row[r.item].phase # "absent"
                 /\ \A a \in DOMAIN anchors : anchors[a].item # r.item
  /\ \A a \in r.todo \cup r.held :
       a \in DOMAIN anchors /\ anchors[a].identity = r.identity
  /\ r.step \in {"scan", "supersede"} =>
       /\ r.prev = NoItem \/ \E a \in DOMAIN anchors : anchors[a].item = r.prev
       /\ \A a \in DOMAIN anchors : anchors[a].item = r.prev =>
            /\ anchors[a].identity = r.identity
            /\ r.step = "supersede" =>
                 a \in r.todo \cup r.held \/ anchors[a].status = "superseded"

Apart ==
  \A v, w \in Workers :
    v # w /\ Owner(req[v]) /\ Owner(req[w]) => req[v].item # req[w].item

\* An item has one anchor at most, and names the identity of its anchor.
Filed ==
  /\ \A a \in DOMAIN anchors :
       /\ row[anchors[a].item].phase # "absent"
       /\ row[anchors[a].item].identity = anchors[a].identity
  /\ \A a, b \in DOMAIN anchors : anchors[a].item = anchors[b].item => a = b

Knowledge == (\A w \in Workers : Informed(req[w])) /\ Apart /\ Filed

RInv == Types /\ Knowledge /\ LastPromotionStands /\ ActiveIsCurrent

LEMMA InitRInv == Init => RInv
<1> SUFFICES ASSUME Init PROVE RInv
  OBVIOUS
<1>1. DOMAIN anchors = {}
  BY DEF Init
<1>2. \A w \in Workers : Informed(req[w])
  BY <1>1 DEF Init, Informed, Owner, Idle
<1>3. Apart
  BY DEF Init, Apart, Owner, Idle
<1>4. Filed /\ LastPromotionStands /\ ActiveIsCurrent
  BY <1>1 DEF Filed, LastPromotionStands, LastOf, ActiveIsCurrent
<1> QED
  BY <1>2, <1>3, <1>4, InitTypes DEF RInv, Knowledge

\* A step that leaves the anchors alone, and of the rows what anchors say.
LEMMA QuietStep ==
  ASSUME RInv, Types', NEW w \in Workers, NEW v \in Request,
         req' = [req EXCEPT ![w] = v], anchors' = anchors,
         \A c \in Content :
           /\ row[c].phase # "absent" => row'[c].phase # "absent"
           /\ row[c].phase # "absent" =>
                /\ row'[c].current = row[c].current
                /\ row'[c].identity = row[c].identity
                /\ row'[c].supersedes = row[c].supersedes,
         \A x \in Request : x = v => Informed(x)',
         Owner(v) => \A u \in Workers \ {w} : Owner(req[u]) => req[u].item # v.item
  PROVE  RInv'
<1>1. /\ req'[w] = v /\ \A u \in Workers \ {w} : req'[u] = req[u]
      /\ \A u \in Workers : req[u] \in Request /\ Shape(req[u])
  BY DEF RInv, Types, TypeOK
<1>2. \A a \in DOMAIN anchors :
        /\ anchors[a].item \in Content /\ row[anchors[a].item].phase # "absent"
        /\ row'[anchors[a].item].phase # "absent"
        /\ row'[anchors[a].item].current = row[anchors[a].item].current
        /\ row'[anchors[a].item].identity = row[anchors[a].item].identity
        /\ row'[anchors[a].item].supersedes = row[anchors[a].item].supersedes
  BY AnchorFields DEF RInv, Types, Knowledge, Filed
<1>3. ASSUME NEW u \in Workers \ {w} PROVE Informed(req[u])'
  <2>1. Informed(req[u]) /\ req'[u] = req[u]
    BY <1>1 DEF RInv, Knowledge
  <2>2. Owner(req[u]) => row'[req[u].item].phase # "absent"
    <3>1. Owner(req[u]) => req[u].item \in Content
      BY <1>1 DEF Owner, Shape
    <3> QED
      BY <2>1, <3>1 DEF Informed
  <2> QED
    BY <2>1, <2>2 DEF Informed, Owner
<1>4. \A u \in Workers : Informed(req[u])'
  BY <1>1, <1>3 DEF Informed, Owner
<1>5. Apart'
  BY <1>1 DEF RInv, Knowledge, Apart, Owner
<1>6. Filed'
  BY <1>2 DEF RInv, Knowledge, Filed
<1>7. LastPromotionStands'
  <2> SUFFICES ASSUME NEW i \in Identities, NEW a \in LastOf(i)
               PROVE  /\ anchors[a].status = "active"
                      /\ row'[anchors[a].item].current = "TRUE"
                      /\ row'[anchors[a].item].identity = i
                      /\ row'[anchors[a].item].supersedes = anchors[a].supersedes
    BY DEF LastPromotionStands, LastOf
  <2>1. a \in DOMAIN anchors
    BY DEF LastOf
  <2> QED
    BY <1>2, <2>1 DEF RInv, LastPromotionStands
<1>8. ActiveIsCurrent'
  BY <1>2 DEF RInv, ActiveIsCurrent
<1> QED
  BY <1>4, <1>5, <1>6, <1>7, <1>8 DEF RInv, Knowledge

\* A request that is over, or has not got as far as an item of its own.
LEMMA EarlyStep ==
  ASSUME RInv, Types', NEW w \in Workers, NEW v \in Request,
         v.step \in {"idle", "insert", "group"}, v.todo = {}, v.held = {},
         req' = [req EXCEPT ![w] = v], anchors' = anchors,
         \A c \in Content :
           /\ row[c].phase # "absent" => row'[c].phase # "absent"
           /\ row[c].phase # "absent" =>
                /\ row'[c].current = row[c].current
                /\ row'[c].identity = row[c].identity
                /\ row'[c].supersedes = row[c].supersedes
  PROVE  RInv'
<1>1. \A x \in Request : x = v => Informed(x)'
  <2> SUFFICES ASSUME NEW x \in Request, x.step \in {"idle", "insert", "group"},
                      x.todo = {}, x.held = {}
               PROVE  Informed(x)'
    OBVIOUS
  <2> QED
    BY DEF Informed, Owner
<1>2. ~ Owner(v)
  BY DEF Owner
<1> QED
  BY <1>1, <1>2, QuietStep

LEMMA StartStep ==
  ASSUME RInv, Types', NEW w \in Workers, NEW c \in Content, NEW s \in Scopes,
         \/ \E i \in Identities : PromoteRead(w, c, i, s)
         \/ SaveRead(w, c, s)
         \/ CatchUp(w, c, s)
  PROVE  RInv'
<1>0. /\ Idle \in Request /\ row \in [Content -> Row]
      /\ Idle.todo = {} /\ Idle.held = {}
  BY IdleRequest DEF RInv, Types, TypeOK, Idle
<1>1. ASSUME NEW i \in Identities, PromoteRead(w, c, i, s) PROVE RInv'
  <2> DEFINE v == [Idle EXCEPT !.step = "insert", !.item = c, !.identity = i, !.scope = s]
  <2>1. v \in Request /\ v.step = "insert" /\ v.todo = {} /\ v.held = {}
    BY <1>0 DEF Request, Steps
  <2>2. req' = [req EXCEPT ![w] = v] /\ UNCHANGED <<row, anchors>>
    BY <1>1 DEF PromoteRead
  <2> HIDE DEF v
  <2> QED
    BY <2>1, <2>2, EarlyStep
<1>2. CASE SaveRead(w, c, s)
  <2> DEFINE v == [Idle EXCEPT !.step = "insert", !.item = c, !.scope = s]
  <2>1. v \in Request /\ v.step = "insert" /\ v.todo = {} /\ v.held = {}
    BY <1>0 DEF Request, Steps
  <2>2. req' = [req EXCEPT ![w] = v] /\ UNCHANGED <<row, anchors>>
    BY <1>2 DEF SaveRead
  <2> HIDE DEF v
  <2> QED
    BY <2>1, <2>2, EarlyStep
<1>3. CASE CatchUp(w, c, s)
  <2> DEFINE v == [Idle EXCEPT !.step = "group", !.item = c, !.scope = s]
  <2>1. v \in Request /\ v.step = "group" /\ v.todo = {} /\ v.held = {}
    BY <1>0 DEF Request, Steps
  <2>2. /\ req' = [req EXCEPT ![w] = v] /\ anchors' = anchors
        /\ row' = [row EXCEPT ![c].phase = "classified"]
    BY <1>3 DEF CatchUp
  <2>3. \A d \in Content :
          /\ row[d].phase # "absent" => row'[d].phase # "absent"
          /\ row'[d].current = row[d].current
          /\ row'[d].identity = row[d].identity
          /\ row'[d].supersedes = row[d].supersedes
    <3>1. row[c] \in Row /\ row'[c] = [row[c] EXCEPT !.phase = "classified"]
      BY <1>0, <2>2
    <3>2. /\ row'[c].phase = "classified" /\ row'[c].current = row[c].current
          /\ row'[c].identity = row[c].identity
          /\ row'[c].supersedes = row[c].supersedes
      BY <3>1 DEF Row
    <3>3. \A d \in Content \ {c} : row'[d] = row[d]
      BY <1>0, <2>2
    <3> QED
      BY <3>2, <3>3
  <2> HIDE DEF v
  <2> QED
    BY <2>1, <2>2, <2>3, EarlyStep
<1> QED
  BY <1>1, <1>2, <1>3

LEMMA EndStep ==
  ASSUME RInv, Types', NEW w \in Workers,
         Group(w) \/ ClassifyFails(w) \/ Abort(w)
  PROVE  RInv'
<1>1. /\ req' = [req EXCEPT ![w] = Idle] /\ anchors' = anchors
      /\ Idle \in Request /\ Idle.step = "idle" /\ Idle.todo = {} /\ Idle.held = {}
  BY IdleRequest DEF Group, ClassifyFails, Abort, Finish, Idle
<1>2. \A c \in Content :
        /\ row'[c].phase = row[c].phase
        /\ row'[c].current = row[c].current
        /\ row'[c].identity = row[c].identity
        /\ row'[c].supersedes = row[c].supersedes
  <2>1. CASE Group(w)
    <3>1. req[w].scope \in Scopes /\ row \in [Content -> Row]
      BY <2>1 DEF Group, RInv, Types, TypeOK, Shape
    <3>2. row' = [row EXCEPT ![req[w].item].scope = req[w].scope]
      BY <2>1 DEF Group
    <3> DEFINE d == req[w].item
    <3>3. d \in Content
      BY <2>1 DEF Group, RInv, Types, TypeOK, Shape
    <3>4. row[d] \in Row /\ row'[d] = [row[d] EXCEPT !.scope = req[w].scope]
      BY <3>1, <3>2, <3>3
    <3>5. /\ row'[d].phase = row[d].phase /\ row'[d].current = row[d].current
          /\ row'[d].identity = row[d].identity
          /\ row'[d].supersedes = row[d].supersedes
      BY <3>1, <3>4 DEF Row
    <3>6. \A c \in Content \ {d} : row'[c] = row[c]
      BY <3>1, <3>2
    <3> QED
      BY <3>5, <3>6
  <2>2. CASE ClassifyFails(w) \/ Abort(w)
    BY <2>2 DEF ClassifyFails, Abort
  <2> QED
    BY <2>1, <2>2
<1> QED
  BY <1>1, <1>2, EarlyStep

\* The body is new, so no anchor and no other promotion has the item.
LEMMA InsertStep ==
  ASSUME RInv, Types', NEW w \in Workers, Insert(w)
  PROVE  RInv'
<1> DEFINE r == req[w]
           v == [r EXCEPT !.step = "classify"]
<1>0. /\ r \in Request /\ r.step = "insert" /\ r.item \in Content
      /\ r.todo = {} /\ r.held = {} /\ row \in [Content -> Row]
      /\ anchors' = anchors
  BY DEF RInv, Types, TypeOK, Shape, Knowledge, Informed, Insert
<1>1. CASE row[r.item].phase = "absent"
  <2>1. /\ req' = [req EXCEPT ![w] = v]
        /\ row' = [row EXCEPT ![r.item].phase = "saved"]
    BY <1>1 DEF Insert, RInv, Types, TypeOK
  <2>2. /\ v \in Request /\ v.step = "classify" /\ v.item = r.item
        /\ v.todo = {} /\ v.held = {} /\ v.identity = r.identity
    BY <1>0 DEF Request, Steps
  <2>3. \A c \in Content :
          /\ c # r.item => row'[c] = row[c]
          /\ row'[r.item].phase = "saved"
    BY <1>0, <2>1, RowFields
  <2>4. \A a \in DOMAIN anchors : anchors[a].item # r.item
    BY <1>1 DEF RInv, Knowledge, Filed
  <2>5. \A x \in Request : x = v => Informed(x)'
    <3> SUFFICES ASSUME NEW x \in Request, x.step = "classify", x.item = r.item,
                        x.todo = {}, x.held = {}
                 PROVE  Informed(x)'
      BY <2>2
    <3>1. row'[x.item].phase # "absent"
      BY <1>0, <2>3
    <3>2. \A a \in DOMAIN anchors' : anchors'[a].item # x.item
      BY <1>0, <2>4
    <3> QED
      BY <3>1, <3>2 DEF Informed
  <2>6. \A u \in Workers \ {w} : Owner(req[u]) => req[u].item # v.item
    BY <1>1, <2>2 DEF RInv, Knowledge, Informed
  <2> HIDE DEF v
  <2> QED
    BY <1>0, <1>1, <2>1, <2>2, <2>3, <2>5, <2>6, QuietStep
<1>2. CASE row[r.item].phase # "absent"
  <2>1. req' = [req EXCEPT ![w] = Idle] /\ row' = row
    BY <1>2 DEF Insert, Finish
  <2>2. Idle \in Request /\ Idle.step = "idle" /\ Idle.todo = {} /\ Idle.held = {}
    BY IdleRequest DEF Idle
  <2> QED
    BY <1>0, <2>1, <2>2, EarlyStep
<1> QED
  BY <1>1, <1>2

\* The steps of a promotion up to the snapshot of its UPDATE.
LEMMA ClassifyStep ==
  ASSUME RInv, Types', NEW w \in Workers, Classify(w)
  PROVE  RInv'
<1> DEFINE r == req[w]
           v == [r EXCEPT !.step = "lookup"]
           g == [r EXCEPT !.step = "group"]
<1>0. /\ r \in Request /\ r.step = "classify" /\ r.item \in Content
      /\ r.todo = {} /\ r.held = {} /\ row \in [Content -> Row]
      /\ anchors' = anchors /\ row' = [row EXCEPT ![r.item].phase = "classified"]
  BY DEF RInv, Types, TypeOK, Shape, Knowledge, Informed, Classify
<1>1. \A c \in Content :
        /\ row[c].phase # "absent" => row'[c].phase # "absent"
        /\ row'[c].current = row[c].current
        /\ row'[c].identity = row[c].identity
        /\ row'[c].supersedes = row[c].supersedes
        /\ row'[r.item].phase = "classified"
  <2>1. row[r.item] \in Row /\ row'[r.item] = [row[r.item] EXCEPT !.phase = "classified"]
    BY <1>0
  <2>2. /\ row'[r.item].phase = "classified"
        /\ row'[r.item].current = row[r.item].current
        /\ row'[r.item].identity = row[r.item].identity
        /\ row'[r.item].supersedes = row[r.item].supersedes
    BY <2>1 DEF Row
  <2>3. \A c \in Content \ {r.item} : row'[c] = row[c]
    BY <1>0
  <2> QED
    BY <2>2, <2>3
<1>2. CASE r.identity # NoIdentity
  <2>1. req' = [req EXCEPT ![w] = v]
    BY <1>2 DEF Classify, RInv, Types, TypeOK
  <2>2. /\ v \in Request /\ v.step = "lookup" /\ v.item = r.item
        /\ v.todo = {} /\ v.held = {} /\ v.identity = r.identity
    BY <1>0 DEF Request, Steps
  <2>3. Owner(r) /\ \A a \in DOMAIN anchors : anchors[a].item # r.item
    BY <1>0, <1>2 DEF Owner, RInv, Knowledge, Informed
  <2>4. \A x \in Request : x = v => Informed(x)'
    <3> SUFFICES ASSUME NEW x \in Request, x.step = "lookup", x.item = r.item,
                        x.todo = {}, x.held = {}
                 PROVE  Informed(x)'
      BY <2>2
    <3>1. row'[x.item].phase # "absent"
      BY <1>0, <1>1
    <3>2. \A a \in DOMAIN anchors' : anchors'[a].item # x.item
      BY <1>0, <2>3
    <3> QED
      BY <3>1, <3>2 DEF Informed
  <2>5. \A u \in Workers \ {w} : Owner(req[u]) => req[u].item # v.item
    BY <2>2, <2>3 DEF RInv, Knowledge, Apart
  <2> HIDE DEF v
  <2> QED
    BY <1>0, <1>1, <2>1, <2>2, <2>4, <2>5, QuietStep
<1>3. CASE r.identity = NoIdentity
  <2>1. req' = [req EXCEPT ![w] = g] \/ req' = [req EXCEPT ![w] = Idle]
    BY <1>3 DEF Classify, Finish, RInv, Types, TypeOK
  <2>2. /\ g \in Request /\ g.step = "group" /\ g.todo = {} /\ g.held = {}
        /\ Idle \in Request /\ Idle.step = "idle" /\ Idle.todo = {} /\ Idle.held = {}
    BY <1>0, IdleRequest DEF Request, Steps, Idle
  <2> HIDE DEF g
  <2> QED
    BY <1>0, <1>1, <2>1, <2>2, EarlyStep
<1> QED
  BY <1>2, <1>3

\* A resolver has its item to itself: the lookup finds no anchor of it.
LEMMA LookupStep ==
  ASSUME RInv, Types', NEW w \in Workers, Lookup(w)
  PROVE  RInv'
<1> DEFINE r == req[w]
           v == [r EXCEPT !.step = "previous", !.at = clock]
<1>0. /\ r \in Request /\ r.step = "lookup" /\ r.identity \in Identities
      /\ r.todo = {} /\ r.held = {} /\ clock \in Nat
      /\ anchors' = anchors /\ row' = row
  BY DEF RInv, Types, TypeOK, Shape, Resolving, Knowledge, Informed, Lookup
<1>1. /\ Owner(r) /\ row[r.item].phase # "absent"
      /\ \A a \in DOMAIN anchors : anchors[a].item # r.item
  BY <1>0, NullAssumption DEF Owner, RInv, Knowledge, Informed
<1>2. req' = [req EXCEPT ![w] = v]
  <2>1. {a \in Active(r.identity) : anchors[a].item = r.item} = {}
    BY <1>1 DEF Active
  <2> QED
    BY <2>1 DEF Lookup
<1>3. /\ v \in Request /\ v.step = "previous" /\ v.item = r.item
      /\ v.todo = {} /\ v.held = {}
  BY <1>0 DEF Request, Steps
<1>4. \A x \in Request : x = v => Informed(x)'
  <2> SUFFICES ASSUME NEW x \in Request, x.step = "previous", x.item = r.item,
                      x.todo = {}, x.held = {}
               PROVE  Informed(x)'
    BY <1>3
  <2> QED
    BY <1>0, <1>1 DEF Informed
<1>5. \A u \in Workers \ {w} : Owner(req[u]) => req[u].item # v.item
  BY <1>1, <1>3 DEF RInv, Knowledge, Apart
<1> HIDE DEF v
<1> QED
  BY <1>0, <1>2, <1>3, <1>4, <1>5, QuietStep

LEMMA FindPreviousStep ==
  ASSUME RInv, Types', NEW w \in Workers, FindPrevious(w)
  PROVE  RInv'
<1> DEFINE r == req[w]
           n == NewestItem(Active(r.identity))
           v == [r EXCEPT !.step = "scan", !.prev = n]
<1>0. /\ r \in Request /\ r.step = "previous" /\ r.identity \in Identities
      /\ r.todo = {} /\ r.held = {}
      /\ anchors' = anchors /\ row' = row /\ req' = [req EXCEPT ![w] = v]
  BY DEF RInv, Types, TypeOK, Shape, Resolving, Knowledge, Informed, FindPrevious
<1>1. /\ Owner(r) /\ row[r.item].phase # "absent"
      /\ \A a \in DOMAIN anchors : anchors[a].item # r.item
  BY <1>0, NullAssumption DEF Owner, RInv, Knowledge, Informed
<1>2. \/ n = NoItem
      \/ \E a \in DOMAIN anchors : n = anchors[a].item /\ anchors[a].identity = r.identity
  <2>1. CASE Active(r.identity) = {}
    BY <2>1 DEF NewestItem
  <2>2. CASE Active(r.identity) # {}
    <3>1. Active(r.identity) \in SUBSET DOMAIN anchors /\ Types
      BY DEF Active, RInv
    <3>2. \E a \in Active(r.identity) : NewestItem(Active(r.identity)) = anchors[a].item
      BY <2>2, <3>1, NewestIsThere
    <3> QED
      BY <3>2 DEF Active
  <2> QED
    BY <2>1, <2>2
<1>3. \A a \in DOMAIN anchors : anchors[a].item = n => anchors[a].identity = r.identity
  <2>1. \A a \in DOMAIN anchors : anchors[a].item # NoItem
    BY NullAssumption, AnchorFields DEF RInv, Types
  <2> HIDE DEF n
  <2> QED
    BY <1>2, <2>1 DEF RInv, Knowledge, Filed
<1>4. n \in Content \cup {NoItem}
  BY NewestType DEF RInv, Active
<1> HIDE DEF n
<1>5. /\ v \in Request /\ v.step = "scan" /\ v.item = r.item /\ v.prev = n
      /\ v.todo = {} /\ v.held = {} /\ v.identity = r.identity
  BY <1>0, <1>4 DEF Request, Steps
<1>6. \A x \in Request : x = v => Informed(x)'
  <2> SUFFICES ASSUME NEW x \in Request, x.step = "scan", x.item = r.item, x.prev = n,
                      x.todo = {}, x.held = {}, x.identity = r.identity
               PROVE  Informed(x)'
    BY <1>5
  <2>1. x.prev = NoItem \/ \E a \in DOMAIN anchors : anchors[a].item = x.prev
    BY <1>2
  <2> QED
    BY <1>0, <1>1, <1>3, <2>1 DEF Informed
<1>7. \A u \in Workers \ {w} : Owner(req[u]) => req[u].item # v.item
  BY <1>1, <1>5 DEF RInv, Knowledge, Apart
<1> HIDE DEF v
<1> QED
  BY <1>0, <1>5, <1>6, <1>7, QuietStep

\* The snapshot of the UPDATE holds the anchor of the item read as previous,
\* or another resolver has superseded it in between.
LEMMA ScanStep ==
  ASSUME RInv, Types', NEW w \in Workers, Scan(w)
  PROVE  RInv'
<1> DEFINE r == req[w]
           S == {a \in DOMAIN anchors : Supersedable(r, a)}
           v == [r EXCEPT !.step = "supersede", !.todo = S]
<1>0. /\ r \in Request /\ r.step = "scan" /\ r.identity \in Identities
      /\ r.held = {} /\ Informed(r)
      /\ anchors' = anchors /\ row' = row /\ req' = [req EXCEPT ![w] = v]
  BY DEF RInv, Types, TypeOK, Shape, Resolving, Knowledge, Informed, Scan
<1>1. /\ Owner(r) /\ row[r.item].phase # "absent"
      /\ \A a \in DOMAIN anchors : anchors[a].item # r.item
  BY <1>0, NullAssumption DEF Owner, Informed
<1>2. \A a \in S : a \in DOMAIN anchors /\ anchors[a].identity = r.identity
  BY DEF Supersedable, Active
<1>3. \A a \in DOMAIN anchors : anchors[a].item = r.prev =>
        anchors[a].identity = r.identity /\ (a \in S \/ anchors[a].status = "superseded")
  <2> SUFFICES ASSUME NEW a \in DOMAIN anchors, anchors[a].item = r.prev
               PROVE  /\ anchors[a].identity = r.identity
                      /\ Supersedable(r, a) \/ anchors[a].status = "superseded"
    OBVIOUS
  <2>1. anchors[a].identity = r.identity
    BY <1>0 DEF Informed
  <2>2. anchors[a].status \in {"active", "superseded"}
    BY AnchorFields DEF RInv, Types
  <2> QED
    BY <1>1, <2>1, <2>2 DEF Supersedable, Active
<1>4. S \in SUBSET Nat
  BY AnchorFields DEF RInv, Types
<1> HIDE DEF S
<1>5. /\ v \in Request /\ v.step = "supersede" /\ v.item = r.item /\ v.prev = r.prev
      /\ v.todo = S /\ v.held = {} /\ v.identity = r.identity
  BY <1>0, <1>4 DEF Request, Steps
<1>6. \A x \in Request : x = v => Informed(x)'
  <2> SUFFICES ASSUME NEW x \in Request, x.step = "supersede", x.item = r.item,
                      x.prev = r.prev, x.todo = S, x.held = {}, x.identity = r.identity
               PROVE  Informed(x)'
    BY <1>5
  <2>1. x.prev = NoItem \/ \E a \in DOMAIN anchors : anchors[a].item = x.prev
    BY <1>0 DEF Informed
  <2> QED
    BY <1>0, <1>1, <1>2, <1>3, <2>1 DEF Informed
<1>7. \A u \in Workers \ {w} : Owner(req[u]) => req[u].item # v.item
  BY <1>1, <1>5 DEF RInv, Knowledge, Apart
<1> HIDE DEF v
<1> QED
  BY <1>0, <1>5, <1>6, <1>7, QuietStep

\* A row is locked, or dropped because it is superseded already.
LEMMA SupersedeStep ==
  ASSUME RInv, Types', NEW w \in Workers, NEW a \in DOMAIN anchors, Supersede(w, a)
  PROVE  RInv'
<1> DEFINE r == req[w]
           H == IF Supersedable(r, a) THEN r.held \cup {a} ELSE r.held
           v == [r EXCEPT !.todo = r.todo \ {a}, !.held = H]
<1>0. /\ r \in Request /\ r.step = "supersede" /\ r.identity \in Identities
      /\ Informed(r) /\ a \in r.todo /\ a \in Nat
      /\ anchors' = anchors /\ row' = row /\ req' = [req EXCEPT ![w] = v]
  BY AnchorFields
  DEF RInv, Types, TypeOK, Shape, Resolving, Knowledge, Supersede
<1>1. /\ Owner(r) /\ row[r.item].phase # "absent"
      /\ \A b \in DOMAIN anchors : anchors[b].item # r.item
  BY <1>0, NullAssumption DEF Owner, Informed
<1>2. a \in H \/ anchors[a].status = "superseded"
  <2>1. anchors[a].identity = r.identity /\ anchors[a].status \in {"active", "superseded"}
    BY <1>0, AnchorFields DEF Informed, RInv, Types
  <2> QED
    BY <1>1, <2>1 DEF Supersedable, Active
<1>3. r.held \subseteq H /\ H \subseteq r.held \cup {a}
  OBVIOUS
<1>4. H \in SUBSET Nat
  BY <1>0 DEF Request
<1> HIDE DEF H
<1>5. /\ v \in Request /\ v.step = "supersede" /\ v.item = r.item /\ v.prev = r.prev
      /\ v.todo = r.todo \ {a} /\ v.held = H /\ v.identity = r.identity
  BY <1>0, <1>4 DEF Request
<1>6. \A x \in Request : x = v => Informed(x)'
  <2> SUFFICES ASSUME NEW x \in Request, x.step = "supersede", x.item = r.item,
                      x.prev = r.prev, x.todo = r.todo \ {a}, x.held = H,
                      x.identity = r.identity
               PROVE  Informed(x)'
    BY <1>5
  <2>1. x.prev = NoItem \/ \E b \in DOMAIN anchors : anchors[b].item = x.prev
    BY <1>0 DEF Informed
  <2>2. \A b \in x.todo \cup x.held :
          b \in DOMAIN anchors /\ anchors[b].identity = x.identity
    BY <1>0, <1>3 DEF Informed
  <2>3. \A b \in DOMAIN anchors : anchors[b].item = x.prev =>
          /\ anchors[b].identity = x.identity
          /\ b \in x.todo \cup x.held \/ anchors[b].status = "superseded"
    BY <1>0, <1>2, <1>3 DEF Informed
  <2> QED
    BY <1>0, <1>1, <2>1, <2>2, <2>3 DEF Informed
<1>7. \A u \in Workers \ {w} : Owner(req[u]) => req[u].item # v.item
  BY <1>1, <1>5 DEF RInv, Knowledge, Apart
<1> HIDE DEF v
<1> QED
  BY <1>0, <1>5, <1>6, <1>7, QuietStep

\* The commit: its own anchor is the new last one of the identity, what it
\* superseded is of that identity, and the item it took for the previous one
\* has no active anchor any more.
LEMMA CommitStep ==
  ASSUME RInv, Types', NEW w \in Workers, Commit(w)
  PROVE  RInv'
<1> DEFINE r == req[w]
           n == Len(anchors)
<1>0. /\ r \in Request /\ r.step = "supersede" /\ r.todo = {} /\ Types
      /\ r.identity \in Identities /\ r.item \in Content /\ Informed(r)
      /\ anchors' = AnchorsAfter(r) /\ row' = RowsAfter(r)
  BY DEF RInv, Types, TypeOK, Shape, Resolving, Knowledge, Commit
<1>1. /\ Owner(r) /\ row[r.item].phase # "absent"
      /\ \A a \in DOMAIN anchors : anchors[a].item # r.item
  BY <1>0, NullAssumption DEF Owner, Informed
<1>2. /\ req'[w] = Idle /\ \A u \in Workers \ {w} : req'[u] = req[u]
  BY <1>0 DEF Commit, Finish, Types, TypeOK
<1>3. /\ n \in Nat /\ DOMAIN anchors = 1 .. n /\ DOMAIN anchors' = 1 .. n + 1
      /\ anchors'[n + 1] = NewAnchor(r)
      /\ \A a \in DOMAIN anchors :
           anchors'[a] = IF a \in r.held THEN Superseded(a) ELSE anchors[a]
  BY <1>0, CommitAnchors
<1>4. /\ anchors'[n + 1].item = r.item /\ anchors'[n + 1].identity = r.identity
      /\ anchors'[n + 1].status = "active" /\ anchors'[n + 1].supersedes = r.prev
  BY <1>3 DEF NewAnchor
<1>5. \A a \in DOMAIN anchors :
        /\ a \in DOMAIN anchors' /\ anchors[a].item \in Content
        /\ anchors'[a].item = anchors[a].item
        /\ anchors'[a].identity = anchors[a].identity
        /\ anchors'[a].supersedes = anchors[a].supersedes
        /\ a \in r.held => anchors'[a].status = "superseded"
        /\ a \notin r.held => anchors'[a].status = anchors[a].status
  BY <1>0, <1>3, AnchorFields DEF Types
<1>6. /\ row'[r.item].phase = row[r.item].phase /\ row'[r.item].current = "TRUE"
      /\ row'[r.item].identity = r.identity /\ row'[r.item].supersedes = r.prev
  BY <1>0 DEF RowsAfter, CurrentRow
<1>7. \A c \in Content : c # r.item =>
        /\ row'[c].phase = row[c].phase /\ row'[c].identity = row[c].identity
        /\ c # r.prev => row'[c] = row[c]
  <2> SUFFICES ASSUME NEW c \in Content, c # r.item
               PROVE  /\ row'[c].phase = row[c].phase
                      /\ row'[c].identity = row[c].identity
                      /\ c # r.prev => row'[c] = row[c]
    OBVIOUS
  <2>1. row[c] \in Row
    BY <1>0 DEF Types, TypeOK
  <2>2. row'[c] = IF c = r.prev
                  THEN [row[c] EXCEPT !.current = "FALSE", !.scope = r.scope]
                  ELSE row[c]
    BY <1>0 DEF RowsAfter
  <2> QED
    BY <2>1, <2>2 DEF Row
<1>8. \A a \in DOMAIN anchors' : a \in DOMAIN anchors \/ a = n + 1
  BY <1>3
<1>9. \A a \in DOMAIN anchors : anchors[a].item = r.prev => a \in r.held
                                  \/ anchors[a].status = "superseded"
  BY <1>0 DEF Informed
<1>10. \A u \in Workers : Informed(req[u])'
  <2> SUFFICES ASSUME NEW u \in Workers \ {w} PROVE Informed(req[u])'
    BY <1>2 DEF Informed, Owner, Idle
  <2> DEFINE q == req[u]
  <2>1. Informed(q) /\ req'[u] = q
    BY <1>2 DEF RInv, Knowledge
  <2>2. Owner(q) => /\ row'[q.item].phase # "absent"
                    /\ \A a \in DOMAIN anchors' : anchors'[a].item # q.item
    <3> SUFFICES ASSUME Owner(q)
                 PROVE  /\ row'[q.item].phase # "absent"
                        /\ \A a \in DOMAIN anchors' : anchors'[a].item # q.item
      OBVIOUS
    <3>1. q.item \in Content /\ q.item # r.item
      BY <1>1 DEF RInv, Knowledge, Apart, Types, Shape, Owner
    <3>2. row[q.item].phase # "absent" /\ \A a \in DOMAIN anchors : anchors[a].item # q.item
      BY <2>1 DEF Informed
    <3> QED
      BY <1>4, <1>5, <1>7, <1>8, <3>1, <3>2
  <2>3. \A a \in q.todo \cup q.held :
          a \in DOMAIN anchors' /\ anchors'[a].identity = q.identity
    BY <1>5, <2>1 DEF Informed
  <2>4. q.step \in {"scan", "supersede"} =>
          /\ q.prev = NoItem \/ \E a \in DOMAIN anchors' : anchors'[a].item = q.prev
          /\ \A a \in DOMAIN anchors' : anchors'[a].item = q.prev =>
               /\ anchors'[a].identity = q.identity
               /\ q.step = "supersede" =>
                    a \in q.todo \cup q.held \/ anchors'[a].status = "superseded"
    <3> SUFFICES ASSUME q.step \in {"scan", "supersede"}
                 PROVE  /\ q.prev = NoItem \/ \E a \in DOMAIN anchors' : anchors'[a].item = q.prev
                        /\ \A a \in DOMAIN anchors' : anchors'[a].item = q.prev =>
                             /\ anchors'[a].identity = q.identity
                             /\ q.step = "supersede" =>
                                  a \in q.todo \cup q.held \/ anchors'[a].status = "superseded"
      OBVIOUS
    <3>1. q.prev = NoItem \/ \E a \in DOMAIN anchors : anchors[a].item = q.prev
      BY <2>1 DEF Informed
    <3>2. q.prev # r.item
      BY <1>0, <1>1, <3>1, NullAssumption
    <3>3. ASSUME NEW a \in DOMAIN anchors', anchors'[a].item = q.prev
          PROVE  /\ anchors'[a].identity = q.identity
                 /\ q.step = "supersede" =>
                      a \in q.todo \cup q.held \/ anchors'[a].status = "superseded"
      <4>1. a \in DOMAIN anchors
        BY <1>4, <1>8, <3>2, <3>3
      <4>2. /\ anchors[a].identity = q.identity
            /\ q.step = "supersede" =>
                 a \in q.todo \cup q.held \/ anchors[a].status = "superseded"
        BY <1>5, <2>1, <3>3, <4>1 DEF Informed
      <4> QED
        BY <1>5, <4>1, <4>2
    <3> QED
      BY <1>5, <3>1, <3>3
  <2>5. q.step # "refresh" /\ (q.step # "supersede" => q.todo = {} /\ q.held = {})
    BY <2>1 DEF Informed
  <2> HIDE DEF q
  <2> QED
    BY <2>1, <2>2, <2>3, <2>4, <2>5 DEF Informed, Owner
<1>11. Apart'
  BY <1>2 DEF RInv, Knowledge, Apart, Owner, Idle
<1>12. Filed'
  <2>1. \A a \in DOMAIN anchors' :
          /\ row'[anchors'[a].item].phase # "absent"
          /\ row'[anchors'[a].item].identity = anchors'[a].identity
    <3> SUFFICES ASSUME NEW a \in DOMAIN anchors'
                 PROVE  /\ row'[anchors'[a].item].phase # "absent"
                        /\ row'[anchors'[a].item].identity = anchors'[a].identity
      OBVIOUS
    <3>1. CASE a = n + 1
      BY <1>1, <1>4, <1>6, <3>1
    <3>2. CASE a \in DOMAIN anchors
      BY <1>1, <1>5, <1>7, <3>2 DEF RInv, Knowledge, Filed
    <3> QED
      BY <1>8, <3>1, <3>2
  <2>2. \A a, b \in DOMAIN anchors' : anchors'[a].item = anchors'[b].item => a = b
    BY <1>1, <1>4, <1>5, <1>8 DEF RInv, Knowledge, Filed
  <2> QED
    BY <2>1, <2>2 DEF Filed
<1>13. LastPromotionStands'
  <2> SUFFICES ASSUME NEW i \in Identities, NEW a \in DOMAIN anchors',
                      anchors'[a].identity = i,
                      \A b \in DOMAIN anchors' : anchors'[b].identity = i => b <= a
               PROVE  /\ anchors'[a].status = "active"
                      /\ row'[anchors'[a].item].current = "TRUE"
                      /\ row'[anchors'[a].item].identity = i
                      /\ row'[anchors'[a].item].supersedes = anchors'[a].supersedes
    BY DEF LastPromotionStands, LastOf
  <2>1. CASE a = n + 1
    BY <1>4, <1>6, <2>1
  <2>2. CASE a \in DOMAIN anchors
    <3>1. i # r.identity
      <4>1. n + 1 \in DOMAIN anchors' /\ ~ (n + 1 <= a)
        BY <1>3, <2>2
      <4> QED
        BY <1>4, <4>1
    <3>2. /\ a \notin r.held /\ anchors[a].item # r.prev /\ anchors[a].item # r.item
          /\ anchors[a].identity = i
      BY <1>0, <1>1, <1>5, <2>2, <3>1 DEF Informed
    <3>3. a \in LastOf(i)
      BY <1>5, <2>2, <3>2 DEF LastOf
    <3>4. /\ anchors[a].status = "active" /\ row[anchors[a].item].current = "TRUE"
          /\ row[anchors[a].item].identity = i
          /\ row[anchors[a].item].supersedes = anchors[a].supersedes
      BY <3>3 DEF RInv, LastPromotionStands
    <3> QED
      BY <1>5, <1>7, <2>2, <3>2, <3>4
  <2> QED
    BY <1>8, <2>1, <2>2
<1>14. ActiveIsCurrent'
  <2> SUFFICES ASSUME NEW a \in DOMAIN anchors', anchors'[a].status = "active"
               PROVE  row'[anchors'[a].item].current = "TRUE"
    BY DEF ActiveIsCurrent
  <2>1. CASE a = n + 1
    BY <1>4, <1>6, <2>1
  <2>2. CASE a \in DOMAIN anchors
    <3>1. a \notin r.held /\ anchors[a].status = "active"
      BY <1>5, <2>2
    <3>2. anchors[a].item # r.prev /\ anchors[a].item # r.item
      BY <1>1, <1>9, <2>2, <3>1
    <3> QED
      BY <1>5, <1>7, <2>2, <3>1, <3>2 DEF RInv, ActiveIsCurrent
  <2> QED
    BY <1>8, <2>1, <2>2
<1> QED
  BY <1>10, <1>11, <1>12, <1>13, <1>14 DEF RInv, Knowledge

-----------------------------------------------------------------------------
LEMMA RInvStep ==
  ASSUME "reconcile" \notin Traffic
  PROVE  RInv /\ [Next]_vars => RInv'
<1> SUFFICES ASSUME RInv, [Next]_vars PROVE RInv'
  OBVIOUS
<1>0. Types'
  BY TypesStep DEF RInv
<1>1. ASSUME NEW w \in Workers, Start(w) PROVE RInv'
  BY <1>0, <1>1, StartStep DEF Start, ReconcileItem
<1>2. ASSUME NEW w \in Workers, Proceed(w) PROVE RInv'
  <2>1. ~ Refresh(w)
    BY DEF RInv, Knowledge, Informed, Refresh
  <2> QED
    BY <1>0, <1>2, <2>1, InsertStep, ClassifyStep, EndStep, LookupStep,
       FindPreviousStep, ScanStep, SupersedeStep, CommitStep
    DEF Proceed
<1>3. ASSUME NEW w \in Workers, ClassifyFails(w) \/ Abort(w) PROVE RInv'
  BY <1>0, <1>3, EndStep
<1>4. CASE UNCHANGED vars
  BY <1>0, <1>4 DEF vars, RInv, Knowledge, Informed, Owner, Apart, Filed,
                    LastPromotionStands, LastOf, ActiveIsCurrent
<1> QED
  BY <1>1, <1>2, <1>3, <1>4 DEF Next

LEMMA RInvariance ==
  ASSUME "reconcile" \notin Traffic
  PROVE  Spec => []RInv
BY InitRInv, RInvStep, PTL DEF Spec

\* Whatever promotions, saves and catch-ups pass one another and wherever they
\* fail, the promotion committed last for an identity is its active anchor and
\* its item is marked current.  (A reconcile job that refreshes an item while a
\* promotion supersedes it can undo this.)
THEOREM LastStands ==
  ASSUME "reconcile" \notin Traffic
  PROVE  Spec => []LastPromotionStands
<1>1. RInv => LastPromotionStands
  BY DEF RInv
<1> QED
  BY <1>1, RInvariance, PTL

\* An active anchor points at an item that is marked as current, although the
\* previous item was read before the resolver waited for its row.
THEOREM ActiveMeansCurrent ==
  ASSUME "reconcile" \notin Traffic
  PROVE  Spec => []ActiveIsCurrent
<1>1. RInv => ActiveIsCurrent
  BY DEF RInv
<1> QED
  BY <1>1, RInvariance, PTL

-----------------------------------------------------------------------------
(* Whose identity a resolver touches, reconcile jobs included.             *)

\* From its INSERT or its lookup on, a request has an item to make current.
Resolves(r) == r.identity # NoIdentity /\ r.step \in {"classify"} \cup Resolving

\* A resolver's item has no identity yet or the resolver's own; the rows it has
\* locked and the item it read as previous are of its identity.
OfOneIdentity(r) ==
  /\ Resolves(r) => /\ row[r.item].phase # "absent"
                    /\ row[r.item].identity \in {NoIdentity, r.identity}
  /\ \A a \in r.held : a \in DOMAIN anchors /\ anchors[a].identity = r.identity
  /\ r.step \in {"scan", "supersede"} => r.prev = NoItem \/ row[r.prev].identity = r.identity

\* Only one request resolves an item that has no identity yet.
FirstAlone ==
  \A v, w \in Workers :
    v # w /\ Resolves(req[v]) /\ Resolves(req[w]) /\ req[v].item = req[w].item
      => row[req[v].item].identity # NoIdentity

\* An item names the identity of its anchors.
Named ==
  /\ \A c \in Content : row[c].identity # NoIdentity => row[c].phase # "absent"
  /\ \A a \in DOMAIN anchors : row[anchors[a].item].identity = anchors[a].identity

IInv == Types /\ (\A w \in Workers : OfOneIdentity(req[w])) /\ FirstAlone /\ Named

LEMMA InitIInv == Init => IInv
<1> SUFFICES ASSUME Init PROVE IInv
  OBVIOUS
<1>1. DOMAIN anchors = {} /\ (\A w \in Workers : req[w] = Idle) /\ \A c \in Content : row[c] = NoRow
  BY DEF Init
<1>2. \A w \in Workers : OfOneIdentity(req[w])
  BY <1>1 DEF OfOneIdentity, Resolves, Resolving, Idle
<1>3. FirstAlone /\ Named
  BY <1>1 DEF FirstAlone, Named, Resolves, Idle, NoRow
<1> QED
  BY <1>2, <1>3, InitTypes DEF IInv

\* A row gets its identity once, from the request that resolves it, and keeps it.
LEMMA IdentityFrame ==
  ASSUME IInv, Types', NEW w \in Workers,
         \A u \in Workers \ {w} : req'[u] = req[u],
         OfOneIdentity(req[w])',
         Resolves(req'[w]) => \A u \in Workers \ {w} :
           Resolves(req[u]) /\ req[u].item = req'[w].item => row'[req[u].item].identity # NoIdentity,
         \A c \in Content : /\ row[c].phase # "absent" => row'[c].phase # "absent"
                            /\ row'[c].identity # NoIdentity => row'[c].phase # "absent"
                            /\ \/ row'[c].identity = row[c].identity
                               \/ Resolves(req[w]) /\ req[w].item = c /\ row[c].identity = NoIdentity,
         \A a \in DOMAIN anchors : /\ a \in DOMAIN anchors'
                                   /\ anchors'[a].identity = anchors[a].identity
                                   /\ anchors'[a].item = anchors[a].item,
         \A a \in DOMAIN anchors' : a \in DOMAIN anchors \/ row'[anchors'[a].item].identity = anchors'[a].identity
  PROVE  IInv'
<1>1. \A c \in Content : row[c].identity # NoIdentity => row'[c].identity = row[c].identity
  OBVIOUS
<1>2. \A a \in DOMAIN anchors : anchors[a].item \in Content /\ anchors[a].identity # NoIdentity
  BY AnchorFields, NullAssumption DEF IInv, Types
<1>3. ASSUME NEW u \in Workers PROVE OfOneIdentity(req[u])'
  <2> SUFFICES ASSUME u # w PROVE OfOneIdentity(req[u])'
    OBVIOUS
  <2> DEFINE q == req[u]
  <2>1. q \in Request /\ Shape(q) /\ OfOneIdentity(q) /\ req'[u] = q
    BY DEF IInv, Types, TypeOK
  <2>2. ASSUME Resolves(q)
        PROVE  row'[q.item].phase # "absent" /\ row'[q.item].identity \in {NoIdentity, q.identity}
    <3>1. q.item \in Content
      BY <2>1, <2>2 DEF Resolves, Resolving, Shape
    <3>2. row'[q.item].identity = row[q.item].identity
      BY <2>2, <3>1 DEF IInv, FirstAlone
    <3> QED
      BY <2>1, <2>2, <3>1, <3>2 DEF OfOneIdentity
  <2>3. ASSUME q.step \in {"scan", "supersede"}
        PROVE  q.prev = NoItem \/ row'[q.prev].identity = q.identity
    <3>1. q.identity # NoIdentity /\ q.prev \in Content \cup {NoItem}
      BY <2>1, <2>3, NullAssumption DEF Shape, Resolving, Request
    <3> QED
      BY <1>1, <2>1, <2>3, <3>1 DEF OfOneIdentity
  <2> HIDE DEF q
  <2> QED
    BY <2>1, <2>2, <2>3 DEF OfOneIdentity, Resolves
<1>4. FirstAlone'
  <2> SUFFICES ASSUME NEW u \in Workers, NEW v \in Workers, u # v, Resolves(req'[u]), Resolves(req'[v]),
                      req'[u].item = req'[v].item
               PROVE  row'[req'[u].item].identity # NoIdentity
    BY DEF FirstAlone, Resolves
  <2>1. CASE u = w \/ v = w
    BY <2>1
  <2>2. CASE u # w /\ v # w
    <3>1. req'[u] = req[u] /\ req'[v] = req[v] /\ row[req[u].item].identity # NoIdentity
      BY <2>2 DEF IInv, FirstAlone
    <3>2. req[u].item \in Content
      BY <3>1 DEF Resolves, Resolving, IInv, Types, Shape
    <3> QED
      BY <1>1, <3>1, <3>2
  <2> QED
    BY <2>1, <2>2
<1>5. Named'
  <2>1. ASSUME NEW a \in DOMAIN anchors' PROVE row'[anchors'[a].item].identity = anchors'[a].identity
    BY <1>1, <1>2, <2>1 DEF IInv, Named
  <2> QED
    BY <2>1 DEF Named
<1> QED
  BY <1>3, <1>4, <1>5 DEF IInv

\* A step that writes no identity and no anchor.
LEMMA PlainStep ==
  ASSUME IInv, Types', NEW w \in Workers, NEW v \in Request,
         req' = [req EXCEPT ![w] = v], anchors' = anchors,
         \A c \in Content : /\ row[c].phase # "absent" => row'[c].phase # "absent"
                            /\ row'[c].identity = row[c].identity,
         \A x \in Request : x = v => OfOneIdentity(x)',
         Resolves(v) => \A u \in Workers \ {w} :
           Resolves(req[u]) /\ req[u].item = v.item => row[v.item].identity # NoIdentity
  PROVE  IInv'
<1>1. /\ req'[w] = v /\ \A u \in Workers \ {w} : req'[u] = req[u]
      /\ \A u \in Workers : req[u] \in Request /\ Shape(req[u])
  BY DEF IInv, Types, TypeOK
<1>2. OfOneIdentity(req[w])'
  BY <1>1 DEF OfOneIdentity, Resolves
<1>3. Resolves(req'[w]) => \A u \in Workers \ {w} :
        Resolves(req[u]) /\ req[u].item = req'[w].item => row'[req[u].item].identity # NoIdentity
  <2>1. \A u \in Workers : Resolves(req[u]) => req[u].item \in Content
    BY <1>1 DEF Resolves, Resolving, Shape
  <2> QED
    BY <1>1, <2>1
<1>4. \A c \in Content : row'[c].identity # NoIdentity => row'[c].phase # "absent"
  BY DEF IInv, Named
<1> QED
  BY <1>1, <1>2, <1>3, <1>4, IdentityFrame

\* A request that resolves nothing knows nothing.
LEMMA Unresolving ==
  ASSUME IInv, Types', NEW w \in Workers, NEW v \in Request,
         v.step \in {"idle", "insert", "group"}, v.held = {},
         req' = [req EXCEPT ![w] = v], anchors' = anchors,
         \A c \in Content : /\ row[c].phase # "absent" => row'[c].phase # "absent"
                            /\ row'[c].identity = row[c].identity
  PROVE  IInv'
<1>1. ~Resolves(v)
  BY DEF Resolves, Resolving
<1>2. \A x \in Request : x = v => OfOneIdentity(x)'
  <2> SUFFICES ASSUME NEW x \in Request, x.step \in {"idle", "insert", "group"}, x.held = {}
               PROVE  OfOneIdentity(x)'
    OBVIOUS
  <2> QED
    BY DEF OfOneIdentity, Resolves, Resolving
<1> QED
  BY <1>1, <1>2, PlainStep

\* What a write of the phase, or of the scope, leaves of the rows.
LEMMA PhaseWritten ==
  ASSUME row \in [Content -> Row], NEW c \in Content, NEW p \in {"saved", "classified"},
         row' = [row EXCEPT ![c].phase = p]
  PROVE  /\ row'[c].phase # "absent"
         /\ \A d \in Content : /\ row[d].phase # "absent" => row'[d].phase # "absent"
                               /\ row'[d].identity = row[d].identity
                               /\ row'[d].current = row[d].current
<1> DEFINE x == [row[c] EXCEPT !.phase = p]
<1>1. row'[c] = x /\ \A d \in Content : d # c => row'[d] = row[d]
  OBVIOUS
<1>2. x.phase = p /\ x.identity = row[c].identity /\ x.current = row[c].current
  BY row[c] \in Row DEF Row
<1> HIDE DEF x
<1> QED
  BY <1>1, <1>2

LEMMA ScopeWritten ==
  ASSUME row \in [Content -> Row], NEW c \in Content, NEW s \in Scopes,
         row' = [row EXCEPT ![c].scope = s]
  PROVE  \A d \in Content : /\ row'[d].phase = row[d].phase
                            /\ row'[d].identity = row[d].identity
                            /\ row'[d].current = row[d].current
<1> DEFINE x == [row[c] EXCEPT !.scope = s]
<1>1. row'[c] = x /\ \A d \in Content : d # c => row'[d] = row[d]
  OBVIOUS
<1>2. x.phase = row[c].phase /\ x.identity = row[c].identity /\ x.current = row[c].current
  BY RowFields
<1> HIDE DEF x
<1> QED
  BY <1>1, <1>2

LEMMA StartIdentity ==
  ASSUME IInv, Types', NEW w \in Workers, Start(w)
  PROVE  IInv'
<1>0. Idle \in Request /\ row \in [Content -> Row] /\ NoIdentity \notin Identities
  BY IdleRequest, NullAssumption DEF IInv, Types, TypeOK
<1> PICK c \in Content, s \in Scopes :
      \/ \E i \in Identities : PromoteRead(w, c, i, s)
      \/ SaveRead(w, c, s)
      \/ CatchUp(w, c, s)
      \/ ReconcileItem(w, c, s)
  BY DEF Start
<1>1. ASSUME NEW i \in Identities, PromoteRead(w, c, i, s) PROVE IInv'
  <2> DEFINE v == [Idle EXCEPT !.step = "insert", !.item = c, !.identity = i, !.scope = s]
  <2>1. /\ v \in Request /\ v.step = "insert" /\ v.held = {}
        /\ req' = [req EXCEPT ![w] = v] /\ anchors' = anchors /\ row' = row
    BY <1>0, <1>1 DEF PromoteRead, Idle, Request, Steps
  <2> HIDE DEF v
  <2> QED
    BY <2>1, Unresolving
<1>2. CASE SaveRead(w, c, s)
  <2> DEFINE v == [Idle EXCEPT !.step = "insert", !.item = c, !.scope = s]
  <2>1. /\ v \in Request /\ v.step = "insert" /\ v.held = {}
        /\ req' = [req EXCEPT ![w] = v] /\ anchors' = anchors /\ row' = row
    BY <1>0, <1>2 DEF SaveRead, Idle, Request, Steps
  <2> HIDE DEF v
  <2> QED
    BY <2>1, Unresolving
<1>3. CASE CatchUp(w, c, s)
  <2> DEFINE v == [Idle EXCEPT !.step = "group", !.item = c, !.scope = s]
  <2>1. /\ v \in Request /\ v.step = "group" /\ v.held = {}
        /\ req' = [req EXCEPT ![w] = v] /\ anchors' = anchors
        /\ row' = [row EXCEPT ![c].phase = "classified"]
    BY <1>0, <1>3 DEF CatchUp, Idle, Request, Steps
  <2>2. \A d \in Content : /\ row[d].phase # "absent" => row'[d].phase # "absent"
                           /\ row'[d].identity = row[d].identity
    BY <1>0, <2>1, PhaseWritten
  <2> HIDE DEF v
  <2> QED
    BY <2>1, <2>2, Unresolving
<1>4. CASE ReconcileItem(w, c, s)
  <2> DEFINE v == [Idle EXCEPT !.step = "lookup", !.item = c, !.identity = row[c].identity, !.scope = s]
  <2>1. /\ v \in Request /\ v.step = "lookup" /\ v.held = {} /\ v.item = c /\ v.identity = row[c].identity
        /\ req' = [req EXCEPT ![w] = v] /\ anchors' = anchors /\ row' = row /\ row[c].identity # NoIdentity
    BY <1>0, <1>4 DEF ReconcileItem, Idle, Request, Steps, Row
  <2>2. row[c].phase # "absent"
    BY <2>1 DEF IInv, Named
  <2>3. \A x \in Request : x = v => OfOneIdentity(x)'
    <3> SUFFICES ASSUME NEW x \in Request, x.step = "lookup", x.held = {}, x.item = c, x.identity = row[c].identity
                 PROVE  OfOneIdentity(x)'
      BY <2>1
    <3> QED
      BY <2>1, <2>2 DEF OfOneIdentity
  <2> HIDE DEF v
  <2> QED
    BY <2>1, <2>3, PlainStep
<1> QED
  BY <1>1, <1>2, <1>3, <1>4

\* The steps of a save in front of the resolver, and a request that ends.
LEMMA SaveIdentity ==
  ASSUME IInv, Types', NEW w \in Workers,
         Insert(w) \/ Classify(w) \/ Group(w) \/ ClassifyFails(w) \/ Abort(w)
  PROVE  IInv'
<1> DEFINE r == req[w]
<1>0. /\ Idle \in Request /\ Idle.step = "idle" /\ Idle.held = {}
      /\ row \in [Content -> Row] /\ r \in Request /\ Shape(r) /\ OfOneIdentity(r)
      /\ r.step # "idle" => r.item \in Content
  BY IdleRequest DEF IInv, Types, TypeOK, Shape, Idle
<1>1. ASSUME Finish(w), anchors' = anchors, row' = row PROVE IInv'
  BY <1>0, <1>1, Unresolving DEF Finish
<1>2. ASSUME Insert(w), row[r.item].phase = "absent" PROVE IInv'
  <2> DEFINE v == [r EXCEPT !.step = "classify"]
  <2>1. /\ req' = [req EXCEPT ![w] = v] /\ anchors' = anchors
        /\ row' = [row EXCEPT ![r.item].phase = "saved"] /\ r.item \in Content /\ r.step = "insert"
    BY <1>0, <1>2 DEF Insert
  <2>2. v \in Request /\ v.step = "classify" /\ v.held = r.held /\ v.item = r.item /\ v.identity = r.identity
    BY <1>0 DEF Request, Steps
  <2>3. /\ \A d \in Content : /\ row[d].phase # "absent" => row'[d].phase # "absent"
                              /\ row'[d].identity = row[d].identity
        /\ row'[r.item].phase # "absent"
    BY <1>0, <2>1, PhaseWritten
  <2>4. row[r.item].identity = NoIdentity
    BY <1>2, <2>1 DEF IInv, Named
  <2>5. \A u \in Workers : Resolves(req[u]) => req[u].item # r.item
    BY <1>2 DEF IInv, OfOneIdentity
  <2>6. \A x \in Request : x = v => OfOneIdentity(x)'
    <3> SUFFICES ASSUME NEW x \in Request, x.step = "classify", x.held = r.held, x.item = r.item,
                        x.identity = r.identity
                 PROVE  OfOneIdentity(x)'
      BY <2>2
    <3> QED
      BY <1>0, <2>1, <2>3, <2>4 DEF OfOneIdentity
  <2> HIDE DEF v
  <2> QED
    BY <2>1, <2>2, <2>3, <2>5, <2>6, PlainStep
<1>3. ASSUME Classify(w) PROVE IInv'
  <2>1. /\ anchors' = anchors /\ r.step = "classify" /\ r.item \in Content
        /\ row' = [row EXCEPT ![r.item].phase = "classified"]
    BY <1>0, <1>3 DEF Classify
  <2>2. /\ \A d \in Content : /\ row[d].phase # "absent" => row'[d].phase # "absent"
                              /\ row'[d].identity = row[d].identity
        /\ row'[r.item].phase # "absent"
    BY <1>0, <2>1, PhaseWritten
  <2>3. CASE Finish(w)
    BY <1>0, <2>1, <2>2, <2>3, Unresolving DEF Finish
  <2>4. ASSUME NEW t \in {"lookup", "group"}, t = "lookup" => r.identity # NoIdentity,
               req' = [req EXCEPT ![w].step = t]
        PROVE  IInv'
    <3> DEFINE v == [r EXCEPT !.step = t]
    <3>1. /\ v \in Request /\ v.step = t /\ v.held = r.held /\ v.item = r.item /\ v.identity = r.identity
          /\ req' = [req EXCEPT ![w] = v]
      BY <1>0, <2>4 DEF Request, Steps
    <3>2. Resolves(v) => Resolves(r)
      BY <2>1, <3>1 DEF Resolves
    <3>3. \A x \in Request : x = v => OfOneIdentity(x)'
      <4> SUFFICES ASSUME NEW x \in Request, x.step = t, x.held = r.held, x.item = r.item,
                          x.identity = r.identity
                   PROVE  OfOneIdentity(x)'
        BY <3>1
      <4>1. Resolves(x) => Resolves(r)
        BY <2>1 DEF Resolves
      <4> QED
        BY <1>0, <2>1, <2>2, <2>4, <4>1 DEF OfOneIdentity, Resolves
    <3> HIDE DEF v
    <3>4. Resolves(v) => \A u \in Workers \ {w} :
            Resolves(req[u]) /\ req[u].item = v.item => row[v.item].identity # NoIdentity
      BY <3>1, <3>2 DEF IInv, FirstAlone
    <3> QED
      BY <2>1, <2>2, <3>1, <3>3, <3>4, PlainStep
  <2> QED
    BY <1>3, <2>3, <2>4 DEF Classify
<1>4. ASSUME Group(w) PROVE IInv'
  <2>1. /\ anchors' = anchors /\ r.item \in Content /\ Finish(w) /\ r.scope \in Scopes
        /\ row' = [row EXCEPT ![r.item].scope = r.scope]
    BY <1>0, <1>4 DEF Group, Shape
  <2>2. \A d \in Content : /\ row[d].phase # "absent" => row'[d].phase # "absent"
                           /\ row'[d].identity = row[d].identity
    BY <1>0, <2>1, ScopeWritten
  <2> QED
    BY <1>0, <2>1, <2>2, Unresolving DEF Finish
<1> QED
  BY <1>1, <1>2, <1>3, <1>4 DEF Insert, ClassifyFails, Abort

\* The resolver up to its commit.
LEMMA ResolverIdentity ==
  ASSUME IInv, Types', NEW w \in Workers,
         Lookup(w) \/ FindPrevious(w) \/ Scan(w) \/ (\E a \in DOMAIN anchors : Supersede(w, a))
  PROVE  IInv'
<1> DEFINE r == req[w]
<1>0. /\ r \in Request /\ Shape(r) /\ OfOneIdentity(r) /\ req' \in [Workers -> Request]
      /\ req \in [Workers -> Request] /\ anchors' = anchors /\ row' = row
      /\ r.step \in Resolving /\ r.identity \in Identities /\ r.identity # NoIdentity
  BY NullAssumption
  DEF IInv, Types, TypeOK, Shape, Resolving, Lookup, FindPrevious, Scan, Supersede
<1>1. Resolves(r)
  BY <1>0 DEF Resolves
<1>2. ASSUME NEW v \in Request, req' = [req EXCEPT ![w] = v], v.item = r.item, v.identity = r.identity,
             v.step \in Resolving,
             \A a \in v.held : a \in DOMAIN anchors /\ anchors[a].identity = r.identity,
             v.step \in {"scan", "supersede"} => v.prev = NoItem \/ row[v.prev].identity = r.identity
      PROVE  IInv'
  <2>1. \A x \in Request : x = v => OfOneIdentity(x)'
    <3> SUFFICES ASSUME NEW x \in Request, x = v PROVE OfOneIdentity(x)'
      OBVIOUS
    <3> QED
      BY <1>0, <1>1, <1>2 DEF OfOneIdentity, Resolves
  <2>2. \A u \in Workers \ {w} : Resolves(req[u]) /\ req[u].item = v.item => row[v.item].identity # NoIdentity
    BY <1>1, <1>2 DEF IInv, FirstAlone
  <2> QED
    BY <1>0, <1>2, <2>1, <2>2, PlainStep
<1>3. /\ req'[w] \in Request
      /\ \A v : req' = [req EXCEPT ![w] = v] => v = req'[w]
  BY <1>0
<1>4. CASE Lookup(w)
  <2>1. \A a \in r.held : a \in DOMAIN anchors /\ anchors[a].identity = r.identity
    BY <1>0 DEF OfOneIdentity
  <2>2. CASE req' = [req EXCEPT ![w] = [r EXCEPT !.step = "previous", !.at = clock]]
    <3> DEFINE v == [r EXCEPT !.step = "previous", !.at = clock]
    <3>1. v.step = "previous" /\ v.item = r.item /\ v.identity = r.identity /\ v.held = r.held
      BY <1>0 DEF Request
    <3>2. req' = [req EXCEPT ![w] = v]
      BY <2>2
    <3> HIDE DEF v
    <3>3. v \in Request
      BY <1>3, <3>2
    <3> QED
      BY <1>2, <2>1, <3>1, <3>2, <3>3 DEF Resolving
  <2>3. ASSUME NEW p, req' = [req EXCEPT ![w] = [r EXCEPT !.step = "refresh", !.at = clock, !.prev = p]]
        PROVE  IInv'
    <3> DEFINE v == [r EXCEPT !.step = "refresh", !.at = clock, !.prev = p]
    <3>1. v.step = "refresh" /\ v.item = r.item /\ v.identity = r.identity /\ v.held = r.held
      BY <1>0 DEF Request
    <3>2. req' = [req EXCEPT ![w] = v]
      BY <2>3
    <3> HIDE DEF v
    <3>3. v \in Request
      BY <1>3, <3>2
    <3> QED
      BY <1>2, <2>1, <3>1, <3>2, <3>3 DEF Resolving
  <2> QED
    BY <1>4, <2>2, <2>3 DEF Lookup
<1>5. CASE FindPrevious(w)
  <2> DEFINE p == NewestItem(Active(r.identity))
             v == [r EXCEPT !.step = "scan", !.prev = p]
  <2>1. req' = [req EXCEPT ![w] = v]
    BY <1>0, <1>5 DEF FindPrevious, Request
  <2>2. v.step = "scan" /\ v.item = r.item /\ v.identity = r.identity /\ v.held = r.held /\ v.prev = p
    BY <1>0 DEF Request
  <2>3. p = NoItem \/ row[p].identity = r.identity
    <3>1. CASE Active(r.identity) = {}
      BY <3>1 DEF NewestItem
    <3>2. CASE Active(r.identity) # {}
      <4>1. PICK a \in Active(r.identity) : p = anchors[a].item
        BY <3>2, NewestIsThere DEF IInv, Active
      <4> QED
        BY <4>1 DEF IInv, Named, Active
    <3> QED
      BY <3>1, <3>2
  <2> HIDE DEF v, p
  <2>4. v \in Request
    BY <1>3, <2>1
  <2> QED
    BY <1>0, <1>2, <2>1, <2>2, <2>3, <2>4 DEF OfOneIdentity, Resolving
<1>6. CASE Scan(w)
  <2> DEFINE v == [r EXCEPT !.step = "supersede", !.todo = {a \in DOMAIN anchors : Supersedable(r, a)}]
  <2>1. req' = [req EXCEPT ![w] = v] /\ r.step = "scan"
    BY <1>0, <1>6 DEF Scan, Request
  <2>2. v.step = "supersede" /\ v.item = r.item /\ v.identity = r.identity /\ v.held = r.held /\ v.prev = r.prev
    BY <1>0 DEF Request
  <2> HIDE DEF v
  <2>3. v \in Request
    BY <1>3, <2>1
  <2> QED
    BY <1>0, <1>2, <2>1, <2>2, <2>3 DEF OfOneIdentity, Resolving
<1>7. ASSUME NEW a \in DOMAIN anchors, Supersede(w, a) PROVE IInv'
  <2> DEFINE H == IF Supersedable(r, a) THEN r.held \cup {a} ELSE r.held
             v == [r EXCEPT !.todo = r.todo \ {a}, !.held = H]
  <2>1. req' = [req EXCEPT ![w] = v] /\ r.step = "supersede"
    BY <1>0, <1>7 DEF Supersede, Request
  <2>2. v.step = "supersede" /\ v.item = r.item /\ v.identity = r.identity /\ v.held = H /\ v.prev = r.prev
    BY <1>0, <2>1 DEF Request
  <2>3. \A b \in H : b \in DOMAIN anchors /\ anchors[b].identity = r.identity
    BY <1>0 DEF OfOneIdentity, Supersedable, Active
  <2> HIDE DEF v, H
  <2>4. v \in Request
    BY <1>3, <2>1
  <2> QED
    BY <1>0, <1>2, <2>1, <2>2, <2>3, <2>4 DEF OfOneIdentity, Resolving
<1> QED
  BY <1>4, <1>5, <1>6, <1>7

\* The two writes of the resolver: a refresh, and a commit with a new anchor.
LEMMA WriteIdentity ==
  ASSUME IInv, Types', NEW w \in Workers, Refresh(w) \/ Commit(w)
  PROVE  IInv'
<1> DEFINE r == req[w]
<1>0. /\ r \in Request /\ Shape(r) /\ OfOneIdentity(r) /\ row \in [Content -> Row] /\ Types
      /\ r.step \in Resolving /\ r.identity \in Identities /\ r.identity # NoIdentity /\ r.item \in Content
  BY NullAssumption DEF IInv, Types, TypeOK, Shape, Resolving, Refresh, Commit
<1>1. Resolves(r) /\ row[r.item].phase # "absent" /\ row[r.item].identity \in {NoIdentity, r.identity}
  BY <1>0 DEF Resolves, OfOneIdentity
<1>2. req'[w] = Idle /\ \A u \in Workers \ {w} : req'[u] = req[u]
  BY DEF Refresh, Commit, Finish, IInv, Types, TypeOK
<1>3. OfOneIdentity(req[w])' /\ ~Resolves(req'[w])
  BY <1>2 DEF OfOneIdentity, Resolves, Resolving, Idle
<1>4. \A c \in Content :
        /\ row'[c].phase = row[c].phase
        /\ row'[c].identity = IF c = r.item THEN r.identity ELSE row[c].identity
  <2>1. CurrentRow(r).phase = row[r.item].phase /\ CurrentRow(r).identity = r.identity
    BY DEF CurrentRow
  <2>2. CASE Refresh(w)
    BY <1>0, <2>1, <2>2 DEF Refresh
  <2>3. CASE Commit(w)
    <3> TAKE c \in Content
    <3>1. row'[c] = IF c = r.item THEN CurrentRow(r)
                    ELSE IF c = r.prev THEN [row[c] EXCEPT !.current = "FALSE", !.scope = r.scope]
                    ELSE row[c]
      BY <2>3 DEF Commit, RowsAfter
    <3>2. row[c] \in Row
      BY <1>0
    <3> DEFINE x == [row[c] EXCEPT !.current = "FALSE", !.scope = r.scope]
    <3>3. x.phase = row[c].phase /\ x.identity = row[c].identity
      BY <3>2 DEF Row
    <3> HIDE DEF x
    <3> QED
      BY <2>1, <3>1, <3>3 DEF x
  <2> QED
    BY <2>2, <2>3
<1>5. \A c \in Content : /\ row[c].phase # "absent" => row'[c].phase # "absent"
                         /\ row'[c].identity # NoIdentity => row'[c].phase # "absent"
                         /\ \/ row'[c].identity = row[c].identity
                            \/ Resolves(r) /\ r.item = c /\ row[c].identity = NoIdentity
  BY <1>1, <1>4 DEF IInv, Named
<1>6. /\ \A a \in DOMAIN anchors : /\ a \in DOMAIN anchors'
                                   /\ anchors'[a].identity = anchors[a].identity
                                   /\ anchors'[a].item = anchors[a].item
      /\ \A a \in DOMAIN anchors' : a \in DOMAIN anchors \/ row'[anchors'[a].item].identity = anchors'[a].identity
  <2>1. CASE Refresh(w)
    BY <2>1 DEF Refresh
  <2>2. CASE Commit(w)
    <3>1. r.step = "supersede" /\ anchors' = AnchorsAfter(r)
      BY <2>2 DEF Commit
    <3>2. \A a \in DOMAIN anchors : /\ Superseded(a).identity = anchors[a].identity
                                    /\ Superseded(a).item = anchors[a].item
      BY <1>0, AnchorFields DEF Types
    <3>3. NewAnchor(r).item = r.item /\ NewAnchor(r).identity = r.identity
      BY DEF NewAnchor
    <3> QED
      BY <1>0, <1>4, <3>1, <3>2, <3>3, CommitAnchors
  <2> QED
    BY <2>1, <2>2
<1> HIDE DEF r
<1> QED
  BY <1>2, <1>3, <1>5, <1>6, IdentityFrame DEF r

LEMMA IInvStep == IInv /\ [Next]_vars => IInv'
<1> SUFFICES ASSUME IInv, [Next]_vars PROVE IInv'
  OBVIOUS
<1>0. Types'
  BY TypesStep DEF IInv
<1>1. ASSUME NEW w \in Workers, Start(w) PROVE IInv'
  BY <1>0, <1>1, StartIdentity
<1>2. ASSUME NEW w \in Workers, Proceed(w) \/ ClassifyFails(w) \/ Abort(w) PROVE IInv'
  BY <1>0, <1>2, SaveIdentity, ResolverIdentity, WriteIdentity DEF Proceed
<1>3. CASE UNCHANGED vars
  BY <1>0, <1>3 DEF vars, IInv, OfOneIdentity, Resolves, FirstAlone, Named
<1> QED
  BY <1>1, <1>2, <1>3 DEF Next

\* An anchor is superseded, and an item stops being current, only in the step
\* that makes another item current for the same identity, whichever requests
\* run side by side, reconcile jobs among them: a scope alone supersedes nothing.
THEOREM ScopeNeverSupersedes == Spec => SupersededByItsIdentity
<1> DEFINE Own ==
      /\ \A a \in DOMAIN anchors :
           anchors'[a].status # anchors[a].status =>
             /\ Len(anchors') = Len(anchors) + 1
             /\ anchors'[Len(anchors')].identity = anchors[a].identity
      /\ \A c \in Content :
           row'[c].current = "FALSE" /\ row[c].current # "FALSE" =>
             /\ Len(anchors') = Len(anchors) + 1
             /\ anchors'[Len(anchors')].identity = row[c].identity
<1>1. ASSUME IInv, [Next]_vars PROVE Own
  <2>1. ASSUME anchors' = anchors, \A c \in Content : row'[c].current = "FALSE" => row[c].current = "FALSE"
        PROVE  Own
    BY <2>1
  <2>0. row \in [Content -> Row]
    BY <1>1 DEF IInv, Types, TypeOK
  <2>2. ASSUME NEW w \in Workers, Commit(w) PROVE Own
    <3> DEFINE r == req[w]
    <3>0. /\ Types /\ OfOneIdentity(r) /\ r.step = "supersede" /\ anchors' = AnchorsAfter(r)
          /\ row' = RowsAfter(r) /\ r.item \in Content
      BY <1>1, <2>2 DEF IInv, Commit, Types, Shape
    <3>1. /\ Len(anchors') = Len(anchors) + 1
          /\ anchors'[Len(anchors')].identity = r.identity
          /\ \A a \in DOMAIN anchors : a \notin r.held => anchors'[a] = anchors[a]
      <4>1. /\ Len(AnchorsAfter(r)) = Len(anchors) + 1
            /\ AnchorsAfter(r)[Len(anchors) + 1] = NewAnchor(r)
            /\ \A a \in DOMAIN anchors :
                 AnchorsAfter(r)[a] = IF a \in r.held THEN Superseded(a) ELSE anchors[a]
        BY <3>0, CommitAnchors
      <4>2. NewAnchor(r).identity = r.identity
        BY DEF NewAnchor
      <4> HIDE DEF r
      <4> QED
        BY <3>0, <4>1, <4>2
    <3>2. \A a \in DOMAIN anchors : a \in r.held => anchors[a].identity = r.identity
      BY <3>0 DEF OfOneIdentity
    <3>3. ASSUME NEW c \in Content, row'[c].current = "FALSE", row[c].current # "FALSE"
          PROVE  row[c].identity = r.identity
      <4>1. CurrentRow(r).current = "TRUE"
        BY DEF CurrentRow
      <4>2. c = r.prev
        BY <3>0, <3>3, <4>1 DEF RowsAfter
      <4> QED
        BY <3>0, <4>2, NullAssumption DEF OfOneIdentity
    <3> HIDE DEF r
    <3> QED
      BY <3>1, <3>2, <3>3
  <2>3. ASSUME NEW w \in Workers, Start(w) PROVE Own
    <3>1. anchors' = anchors /\ \A c \in Content : row'[c].current = row[c].current
      BY <2>0, <2>3, PhaseWritten DEF Start, PromoteRead, SaveRead, CatchUp, ReconcileItem
    <3> QED
      BY <2>1, <3>1
  <2>4. ASSUME NEW w \in Workers, Proceed(w) \/ ClassifyFails(w) \/ Abort(w), ~Commit(w) PROVE Own
    <3>0. req[w].step # "idle" => req[w].item \in Content /\ req[w].scope \in Scopes
      BY <1>1 DEF IInv, Types, Shape
    <3>1. CASE Insert(w) \/ Classify(w) \/ Group(w)
      <4>1. anchors' = anchors /\ \A c \in Content : row'[c].current = row[c].current
        BY <2>0, <3>0, <3>1, PhaseWritten, ScopeWritten DEF Insert, Classify, Group
      <4> QED
        BY <2>1, <4>1
    <3>2. CASE Refresh(w)
      <4>1. CurrentRow(req[w]).current = "TRUE"
        BY DEF CurrentRow
      <4>2. anchors' = anchors /\ \A c \in Content : row'[c].current = "FALSE" => row[c].current = "FALSE"
        BY <2>0, <3>0, <3>2, <4>1 DEF Refresh
      <4> QED
        BY <2>1, <4>2
    <3>3. CASE anchors' = anchors /\ row' = row
      BY <2>1, <3>3
    <3> QED
      BY <2>4, <3>1, <3>2, <3>3 DEF Proceed, Lookup, FindPrevious, Scan, Supersede, ClassifyFails, Abort
  <2>5. CASE UNCHANGED vars
    BY <2>1, <2>5 DEF vars
  <2> QED
    BY <1>1, <2>2, <2>3, <2>4, <2>5 DEF Next
<1>2. IInv /\ [Next]_vars => [Own]_vars
  BY <1>1
<1> QED
  BY <1>2, InitIInv, IInvStep, PTL DEF Spec, SupersededByItsIdentity
-----------------------------------------------------------------------------
(* With one worker, the active anchors are a register.                     *)

OneWorker == \A v, w \in Workers : v = w

AtMostOne == \A i \in Identities : \A a, b \in Active(i) : a = b

\* The resolver's item has no active anchor, and once the snapshot is taken
\* the anchor to supersede is among the rows to lock or locked.
Replacing(r) ==
  /\ r.step \in {"previous", "scan", "supersede"} =>
       \A a \in Active(r.identity) : anchors[a].item # r.item
  /\ r.step = "supersede" => Active(r.identity) \subseteq r.todo \cup r.held

OneInv == IInv /\ AtMostOne /\ \A w \in Workers : Replacing(req[w])

\* A step of the one worker that leaves the anchors alone.
LEMMA AnchorsAlone ==
  ASSUME OneWorker, OneInv, IInv', anchors' = anchors, NEW w \in Workers, Replacing(req[w])'
  PROVE  OneInv'
<1>1. AtMostOne'
  BY DEF OneInv, AtMostOne, Active
<1>2. \A v \in Workers : Replacing(req[v])'
  BY DEF OneWorker
<1> QED
  BY <1>1, <1>2 DEF OneInv

\* Its commit puts the new anchor in the place of the one active before.
LEMMA CommitReplaces ==
  ASSUME OneInv, NEW w \in Workers, Commit(w), NEW k, k = req[w].identity
  PROVE  /\ Active(k)' = {Len(anchors) + 1}
         /\ anchors'[Len(anchors) + 1].item = req[w].item
         /\ \A i \in Identities \ {k} :
              Active(i)' = Active(i) /\ \A a \in Active(i) : anchors'[a] = anchors[a]
<1> DEFINE r == req[w]
           n == Len(anchors)
<1>1. /\ Types /\ r.step = "supersede" /\ r.todo = {} /\ r.identity \in Identities
      /\ Replacing(r) /\ OfOneIdentity(r) /\ anchors' = AnchorsAfter(r)
  BY DEF OneInv, IInv, Commit, Types, Shape, Resolving
<1>2. /\ n \in Nat /\ DOMAIN anchors = 1 .. n /\ DOMAIN anchors' = 1 .. n + 1
      /\ anchors'[n + 1] = NewAnchor(r)
      /\ \A a \in DOMAIN anchors : anchors'[a] = IF a \in r.held THEN Superseded(a) ELSE anchors[a]
  BY <1>1, CommitAnchors
<1>3. /\ anchors'[n + 1].item = r.item /\ anchors'[n + 1].identity = r.identity
      /\ anchors'[n + 1].status = "active"
  BY <1>2 DEF NewAnchor
<1>4. \A a \in DOMAIN anchors : Superseded(a).status = "superseded" /\ Superseded(a).identity = anchors[a].identity
  BY <1>1, AnchorFields DEF Types
<1>5. Active(r.identity) \subseteq r.held
  BY <1>1 DEF Replacing
<1>6. \A a \in r.held : a \in DOMAIN anchors /\ anchors[a].identity = r.identity
  BY <1>1 DEF OfOneIdentity
<1>7. Active(k)' = {n + 1}
  <2>1. n + 1 \in Active(k)'
    BY <1>2, <1>3 DEF Active
  <2>2. ASSUME NEW a \in DOMAIN anchors', anchors'[a].identity = k, anchors'[a].status = "active"
        PROVE  a = n + 1
    <3> SUFFICES ASSUME a \in DOMAIN anchors PROVE FALSE
      BY <1>2
    <3>1. a \notin r.held
      BY <1>2, <1>4, <2>2
    <3>2. a \in Active(k)
      BY <1>2, <2>2, <3>1 DEF Active
    <3> QED
      BY <1>5, <3>1, <3>2
  <2> QED
    BY <2>1, <2>2 DEF Active
<1>8. ASSUME NEW i \in Identities \ {k}
      PROVE  Active(i)' = Active(i) /\ \A a \in Active(i) : anchors'[a] = anchors[a]
  <2>1. \A a \in DOMAIN anchors' :
          anchors'[a].identity = i => a \in DOMAIN anchors /\ anchors'[a] = anchors[a]
    BY <1>2, <1>3, <1>4, <1>6, <1>8
  <2>2. \A a \in DOMAIN anchors : anchors[a].identity = i => a \in DOMAIN anchors' /\ anchors'[a] = anchors[a]
    BY <1>2, <1>6, <1>8
  <2> QED
    BY <2>1, <2>2 DEF Active
<1> HIDE DEF r, n
<1> QED
  BY <1>3, <1>7, <1>8 DEF r, n

LEMMA OneInvStep ==
  ASSUME OneWorker PROVE OneInv /\ [Next]_vars => OneInv'
<1> SUFFICES ASSUME OneInv, [Next]_vars PROVE OneInv'
  OBVIOUS
<1>0. /\ IInv' /\ Types /\ req \in [Workers -> Request] /\ req' \in [Workers -> Request]
      /\ \A w \in Workers : Shape(req[w]) /\ Replacing(req[w])
  BY IInvStep DEF OneInv, IInv, Types, TypeOK
<1>1. ASSUME NEW w \in Workers, anchors' = anchors,
             req'[w].step \notin {"previous", "scan", "supersede"}
      PROVE  OneInv'
  <2>1. Replacing(req[w])'
    BY <1>1 DEF Replacing
  <2> QED
    BY <1>0, <1>1, <2>1, AnchorsAlone
<1>2. ASSUME NEW w \in Workers, Finish(w), anchors' = anchors PROVE OneInv'
  BY <1>0, <1>1, <1>2 DEF Finish, Idle
<1>3. ASSUME NEW w \in Workers, Start(w) PROVE OneInv'
  <2> PICK c \in Content, s \in Scopes :
        \/ \E i \in Identities : PromoteRead(w, c, i, s)
        \/ SaveRead(w, c, s)
        \/ CatchUp(w, c, s)
        \/ ReconcileItem(w, c, s)
    BY <1>3 DEF Start
  <2>1. ASSUME NEW v, req' = [req EXCEPT ![w] = v], anchors' = anchors, v.step \in {"insert", "group", "lookup"}
        PROVE  OneInv'
    BY <1>0, <1>1, <2>1
  <2>2. ASSUME NEW i \in Identities, PromoteRead(w, c, i, s) PROVE OneInv'
    <3> DEFINE v == [Idle EXCEPT !.step = "insert", !.item = c, !.identity = i, !.scope = s]
    <3>1. req' = [req EXCEPT ![w] = v] /\ anchors' = anchors /\ v.step = "insert"
      BY <2>2 DEF PromoteRead, Idle
    <3> HIDE DEF v
    <3> QED
      BY <2>1, <3>1
  <2>3. CASE SaveRead(w, c, s)
    <3> DEFINE v == [Idle EXCEPT !.step = "insert", !.item = c, !.scope = s]
    <3>1. req' = [req EXCEPT ![w] = v] /\ anchors' = anchors /\ v.step = "insert"
      BY <2>3 DEF SaveRead, Idle
    <3> HIDE DEF v
    <3> QED
      BY <2>1, <3>1
  <2>4. CASE CatchUp(w, c, s)
    <3> DEFINE v == [Idle EXCEPT !.step = "group", !.item = c, !.scope = s]
    <3>1. req' = [req EXCEPT ![w] = v] /\ anchors' = anchors /\ v.step = "group"
      BY <2>4 DEF CatchUp, Idle
    <3> HIDE DEF v
    <3> QED
      BY <2>1, <3>1
  <2>5. CASE ReconcileItem(w, c, s)
    <3> DEFINE v == [Idle EXCEPT !.step = "lookup", !.item = c, !.identity = row[c].identity, !.scope = s]
    <3>1. req' = [req EXCEPT ![w] = v] /\ anchors' = anchors /\ v.step = "lookup"
      BY <2>5 DEF ReconcileItem, Idle
    <3> HIDE DEF v
    <3> QED
      BY <2>1, <3>1
  <2> QED
    BY <2>2, <2>3, <2>4, <2>5
<1>4. ASSUME NEW w \in Workers, Insert(w) \/ Classify(w) \/ Group(w) \/ Refresh(w) \/ ClassifyFails(w) \/ Abort(w)
      PROVE  OneInv'
  <2>1. anchors' = anchors /\ req'[w].step \in {"classify", "lookup", "group", "idle"}
    BY <1>0, <1>4 DEF Insert, Classify, Group, Refresh, ClassifyFails, Abort, Finish, Idle, Request
  <2> QED
    BY <1>1, <2>1
<1>5. ASSUME NEW w \in Workers, NEW v \in Request, req' = [req EXCEPT ![w] = v], anchors' = anchors,
             Replacing(v)
      PROVE  OneInv'
  <2>1. req'[w] = v
    BY <1>0, <1>5
  <2>2. Replacing(req[w])'
    BY <1>5, <2>1 DEF Replacing, Active
  <2> QED
    BY <1>0, <1>5, <2>2, AnchorsAlone
<1>6. ASSUME NEW w \in Workers, Lookup(w) PROVE OneInv'
  <2> DEFINE r == req[w]
             v == [r EXCEPT !.step = "previous", !.at = clock]
  <2>1. anchors' = anchors /\ r \in Request
    BY <1>0, <1>6 DEF Lookup
  <2>2. CASE req'[w].step = "refresh"
    BY <1>1, <2>1, <2>2
  <2>3. CASE req' = [req EXCEPT ![w] = v] /\ {a \in Active(r.identity) : anchors[a].item = r.item} = {}
    <3>1. v.step = "previous" /\ v.identity = r.identity /\ v.item = r.item
      BY <2>1 DEF Request
    <3>2. v \in Request
      BY <1>0, <2>3
    <3> HIDE DEF v
    <3>3. Replacing(v)
      BY <2>3, <3>1 DEF Replacing
    <3> QED
      BY <1>5, <2>1, <2>3, <3>2, <3>3
  <2>4. ASSUME NEW p, req' = [req EXCEPT ![w] = [r EXCEPT !.step = "refresh", !.at = clock, !.prev = p]]
        PROVE  req'[w].step = "refresh"
    BY <1>0, <2>1, <2>4 DEF Request
  <2> QED
    BY <1>6, <2>2, <2>3, <2>4 DEF Lookup
<1>7. ASSUME NEW w \in Workers, FindPrevious(w) PROVE OneInv'
  <2> DEFINE r == req[w]
             v == [r EXCEPT !.step = "scan", !.prev = NewestItem(Active(r.identity))]
  <2>1. req' = [req EXCEPT ![w] = v] /\ anchors' = anchors /\ r \in Request /\ r.step = "previous"
    BY <1>0, <1>7 DEF FindPrevious, Request
  <2>2. v.step = "scan" /\ v.identity = r.identity /\ v.item = r.item
    BY <2>1 DEF Request
  <2>3. v \in Request
    BY <1>0, <2>1
  <2> HIDE DEF v
  <2>4. Replacing(v)
    BY <1>0, <2>1, <2>2 DEF Replacing
  <2> QED
    BY <1>5, <2>1, <2>3, <2>4
<1>8. ASSUME NEW w \in Workers, Scan(w) PROVE OneInv'
  <2> DEFINE r == req[w]
             v == [r EXCEPT !.step = "supersede", !.todo = {a \in DOMAIN anchors : Supersedable(r, a)}]
  <2>1. req' = [req EXCEPT ![w] = v] /\ anchors' = anchors /\ r \in Request /\ r.step = "scan"
    BY <1>0, <1>8 DEF Scan, Request
  <2>2. /\ v.step = "supersede" /\ v.identity = r.identity /\ v.item = r.item
        /\ v.todo = {a \in DOMAIN anchors : Supersedable(r, a)}
    BY <2>1 DEF Request
  <2>3. v \in Request
    BY <1>0, <2>1
  <2> HIDE DEF v
  <2>4. Replacing(v)
    BY <1>0, <2>1, <2>2 DEF Replacing, Supersedable, Active
  <2> QED
    BY <1>5, <2>1, <2>3, <2>4
<1>9. ASSUME NEW w \in Workers, NEW a \in DOMAIN anchors, Supersede(w, a) PROVE OneInv'
  <2> DEFINE r == req[w]
             H == IF Supersedable(r, a) THEN r.held \cup {a} ELSE r.held
             v == [r EXCEPT !.todo = r.todo \ {a}, !.held = H]
  <2>1. req' = [req EXCEPT ![w] = v] /\ anchors' = anchors /\ r \in Request /\ r.step = "supersede"
    BY <1>0, <1>9 DEF Supersede, Request
  <2>2. /\ v.step = "supersede" /\ v.identity = r.identity /\ v.item = r.item
        /\ v.todo = r.todo \ {a} /\ v.held = H
    BY <2>1 DEF Request
  <2>3. v \in Request
    BY <1>0, <2>1
  <2>4. r.held \subseteq H /\ (a \in Active(r.identity) /\ anchors[a].item # r.item => a \in H)
    BY DEF Supersedable
  <2> HIDE DEF v, H
  <2>5. Replacing(v)
    BY <1>0, <2>1, <2>2, <2>4 DEF Replacing
  <2> QED
    BY <1>5, <2>1, <2>3, <2>5
<1>10. ASSUME NEW w \in Workers, Commit(w) PROVE OneInv'
  <2>1. req[w].identity \in Identities
    BY <1>0, <1>10 DEF Commit, Shape, Resolving
  <2>2. AtMostOne'
    <3>0. PICK k : k = req[w].identity
      OBVIOUS
    <3>1. /\ Active(k)' = {Len(anchors) + 1}
          /\ \A i \in Identities \ {k} : Active(i)' = Active(i)
      BY <1>10, <3>0, CommitReplaces
    <3> QED
      BY <3>1 DEF OneInv, AtMostOne
  <2>3. req'[w] = Idle
    BY <1>0, <1>10 DEF Commit, Finish
  <2>4. Replacing(req[w])'
    BY <2>3 DEF Replacing, Idle
  <2> QED
    BY <1>0, <2>2, <2>4 DEF OneInv, OneWorker
<1>11. CASE UNCHANGED vars
  <2>1. \A w \in Workers : Replacing(req[w])'
    BY <1>0, <1>11 DEF vars, Replacing, Active
  <2> QED
    BY <1>0, <1>11, <2>1 DEF vars, OneInv, AtMostOne, Active
<1> QED
  BY <1>3, <1>4, <1>6, <1>7, <1>8, <1>9, <1>10, <1>11 DEF Next, Proceed

\* With at most one active anchor, the register holds its item.
HoldsItems ==
  \A i \in Identities : /\ Active(i) = {} => ActiveItem[i] = NoItem
                        /\ \A a \in Active(i) : ActiveItem[i] = anchors[a].item

LEMMA RegisterHolds == TypeOK /\ AtMostOne => HoldsItems
<1> SUFFICES ASSUME TypeOK, AtMostOne, NEW i \in Identities
             PROVE  /\ Active(i) = {} => ActiveItem[i] = NoItem
                    /\ \A a \in Active(i) : ActiveItem[i] = anchors[a].item
  BY DEF HoldsItems
<1>1. CASE Active(i) = {}
  BY <1>1, FS_EmptySet DEF ActiveItem, NewestItem
<1>2. ASSUME NEW a \in Active(i) PROVE ActiveItem[i] = anchors[a].item
  <2>1. Active(i) = {a}
    BY DEF AtMostOne
  <2>2. Cardinality(Active(i)) = 1
    BY <2>1, FS_Singleton
  <2>3. NewestItem({a}) = anchors[a].item
    <3> DEFINE x == CHOOSE b \in {a} : \A c \in {a} : anchors[c].at <= anchors[b].at
    <3>1. x = a
      <4> SUFFICES \E b \in {a} : \A c \in {a} : anchors[c].at <= anchors[b].at
        OBVIOUS
      <4>1. anchors[a].at <= anchors[a].at
        BY AnchorFields DEF Active
      <4> QED
        BY <4>1
    <3> QED
      BY <3>1 DEF NewestItem
  <2> QED
    BY <2>1, <2>2, <2>3 DEF ActiveItem
<1> QED
  BY <1>1, <1>2

LEMMA RegisterHoldsNext == TypeOK' /\ AtMostOne' => HoldsItems'
BY RegisterHolds, PTL

\* One worker makes the resolver a register per identity: each step replaces
\* the item of exactly one identity, by an item no other identity holds, or
\* nothing, though reconcile jobs, saves and catch-ups take turns with it.
THEOREM OneWorkerIsRegister ==
  ASSUME OneWorker PROVE Spec => IsRegister
<1>1. Init => OneInv
  <2> SUFFICES ASSUME Init PROVE OneInv
    OBVIOUS
  <2>1. IInv /\ AtMostOne /\ \A w \in Workers : Replacing(req[w])
    BY InitIInv DEF Init, AtMostOne, Active, Replacing, Idle
  <2> QED
    BY <2>1 DEF OneInv
<1>2. Init => Register!Init
  <2> SUFFICES ASSUME Init PROVE \A i \in Identities : ActiveItem[i] = NoItem
    BY DEF Register!Init, ActiveItem
  <2>1. \A i \in Identities : Active(i) = {}
    BY DEF Init, Active
  <2> QED
    BY <1>1, <2>1, RegisterHolds DEF OneInv, IInv, Types, HoldsItems
<1>3. ASSUME OneInv, OneInv', [Next]_vars PROVE [Register!Next]_ActiveItem
  <2>1. ASSUME anchors' = anchors PROVE ActiveItem' = ActiveItem
    BY <2>1 DEF ActiveItem, Active, NewestItem
  <2>2. ASSUME NEW w \in Workers, Commit(w) PROVE Register!Next
    <3> DEFINE r == req[w]
               n == Len(anchors)
    <3>1. /\ Types /\ OfOneIdentity(r) /\ r.identity \in Identities /\ r.item \in Content
          /\ row[r.item].identity \in {NoIdentity, r.identity} /\ Named
      BY <1>3, <2>2, NullAssumption
      DEF OneInv, IInv, Commit, Types, Shape, Resolving, Resolves, OfOneIdentity
    <3>0. PICK k : k = r.identity
      OBVIOUS
    <3>2. /\ Active(k)' = {n + 1} /\ anchors'[n + 1].item = r.item
          /\ \A i \in Identities \ {k} :
               Active(i)' = Active(i) /\ \A a \in Active(i) : anchors'[a] = anchors[a]
      BY <1>3, <2>2, <3>0, CommitReplaces
    <3>3. HoldsItems /\ HoldsItems'
      BY <1>3, RegisterHolds, RegisterHoldsNext DEF OneInv, IInv, Types
    <3>4. ActiveItem'[k] = r.item
      BY <3>0, <3>1, <3>2, <3>3 DEF HoldsItems
    <3>5. ASSUME NEW i \in Identities \ {k} PROVE ActiveItem'[i] = ActiveItem[i] /\ ActiveItem[i] # r.item
      <4>1. CASE Active(i) = {}
        <5>1. ActiveItem[i] = NoItem /\ ActiveItem'[i] = NoItem
          BY <3>2, <3>3, <4>1 DEF HoldsItems
        <5> QED
          BY <3>1, <5>1, NullAssumption
      <4>2. ASSUME NEW a \in Active(i) PROVE ActiveItem'[i] = ActiveItem[i] /\ ActiveItem[i] # r.item
        <5>1. ActiveItem[i] = anchors[a].item
          BY <3>3, <4>2 DEF HoldsItems
        <5>2. a \in Active(i)' /\ anchors'[a].item = anchors[a].item
          BY <3>2, <4>2
        <5>3. ActiveItem'[i] = anchors'[a].item
          BY <3>3, <5>2 DEF HoldsItems
        <5>4. row[anchors[a].item].identity = i
          BY <3>1 DEF Named, Active
        <5> QED
          BY <3>0, <3>1, <5>1, <5>2, <5>3, <5>4, NullAssumption
      <4> QED
        BY <4>1, <4>2
    <3>6. ActiveItem' = [ActiveItem EXCEPT ![k] = r.item]
      <4>1. /\ ActiveItem = [i \in Identities |-> ActiveItem[i]]
            /\ ActiveItem' = [i \in Identities |-> ActiveItem'[i]]
        BY DEF ActiveItem
      <4> HIDE DEF r
      <4> QED
        BY <3>0, <3>1, <3>4, <3>5, <4>1 DEF r
    <3>7. Register!Replace(k, r.item)
      BY <3>5, <3>6 DEF Register!Replace
    <3> QED
      BY <3>0, <3>1, <3>7 DEF Register!Next
  <2>3. ASSUME NEW w \in Workers, Start(w) \/ Proceed(w) \/ ClassifyFails(w) \/ Abort(w), ~Commit(w)
        PROVE  anchors' = anchors
    BY <2>3
    DEF Start, PromoteRead, SaveRead, CatchUp, ReconcileItem, Proceed, Insert, Classify, Group, Lookup, Refresh,
        FindPrevious, Scan, Supersede, ClassifyFails, Abort
  <2> QED
    BY <1>3, <2>1, <2>2, <2>3 DEF Next, vars
<1>4. OneInv /\ [Next]_vars => OneInv'
  BY OneInvStep
<1> QED
  BY <1>1, <1>2, <1>3, <1>4, PTL DEF Spec, IsRegister, Register!Spec
=============================================================================
