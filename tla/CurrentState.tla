---------------------------- MODULE CurrentState ----------------------------
(***************************************************************************)
(* The current-state anchors of one workspace.  A trusted promotion saves  *)
(* a new item and makes it the current one of an explicit identity: the    *)
(* anchors active for that identity are superseded and an anchor for the   *)
(* item is inserted.  Ordinary saves and the classification catch-up call  *)
(* the same resolver without an identity, which may only group the item    *)
(* under a scope.                                                          *)
(*                                                                         *)
(* The resolver is one READ COMMITTED transaction: two SELECTs, an UPDATE  *)
(* that takes its own snapshot, waits for the row locks other resolvers    *)
(* hold and looks at each row again when it gets it, and writes that take  *)
(* effect at the commit.  No unique index stands behind it.                *)
(***************************************************************************)
EXTENDS Integers, Sequences, FiniteSets

CONSTANTS Content,      \* items: the distinct bodies a request can carry
          Identities,   \* pairs (memory_type, state_identity)
          Scopes,       \* slugified scopes
          Workers,      \* request threads of the API server
          NoItem, NoIdentity, NoScope,
          Traffic,      \* the kinds of requests that arrive
          MaxResolves   \* bound: identity resolutions begun in a behaviour

ASSUME NullAssumption ==
  NoItem \notin Content /\ NoIdentity \notin Identities /\ NoScope \notin Scopes
ASSUME TrafficAssumption ==
  Traffic \subseteq {"promotion", "save", "catchup", "reconcile"}
ASSUME BoundAssumption == MaxResolves \in Nat

VARIABLES row,      \* content_items: the columns the resolver owns
          anchors,  \* cb_current_state_anchors, in commit order
          req,      \* what each worker is doing, with its local variables
          clock     \* start times (NOW()) of resolver transactions

vars == <<row, anchors, req, clock>>

-----------------------------------------------------------------------------
\* saved: stored, memory_type still NULL; classified: memory_type set.
Row == [phase : {"absent", "saved", "classified"},
        current : {"NULL", "TRUE", "FALSE"},
        scope : Scopes \cup {NoScope},
        identity : Identities \cup {NoIdentity},
        supersedes : Content \cup {NoItem}]

NoRow == [phase |-> "absent", current |-> "NULL", scope |-> NoScope,
          identity |-> NoIdentity, supersedes |-> NoItem]

Anchor == [identity : Identities, scope : Scopes, item : Content,
           supersedes : Content \cup {NoItem},
           status : {"active", "superseded"}, at : Nat]

Steps == {"idle", "insert", "classify", "group",
          "lookup", "refresh", "previous", "scan", "supersede"}

Idle == [step |-> "idle", item |-> NoItem, identity |-> NoIdentity,
         scope |-> NoScope, prev |-> NoItem, at |-> 0,
         todo |-> {}, held |-> {}]

Request == [step : Steps, item : Content \cup {NoItem},
            identity : Identities \cup {NoIdentity},
            scope : Scopes \cup {NoScope},
            prev : Content \cup {NoItem}, at : Nat,
            todo : SUBSET Nat, held : SUBSET Nat]

Active(i) ==
  {a \in DOMAIN anchors : anchors[a].identity = i /\ anchors[a].status = "active"}

\* ORDER BY canonical_rank, valid_from DESC LIMIT 1; every rank is the default.
NewestItem(S) ==
  IF S = {} THEN NoItem
  ELSE anchors[CHOOSE a \in S : \A b \in S : anchors[b].at <= anchors[a].at].item

Finish(w) == req' = [req EXCEPT ![w] = Idle]

\* The bound: requests that may still begin a resolution count as begun.
MayResolve ==
  clock + Cardinality({w \in Workers :
    /\ req[w].identity # NoIdentity
    /\ req[w].step \in {"insert", "classify", "lookup"}}) < MaxResolves

-----------------------------------------------------------------------------
(* The save in front of the resolver.                                      *)

\* trusted_promote_current_state; the anchor it reads first only goes into
\* its answer.
PromoteRead(w, c, i, s) ==
  /\ "promotion" \in Traffic
  /\ req[w].step = "idle"
  /\ MayResolve
  /\ req' = [req EXCEPT ![w] =
               [Idle EXCEPT !.step = "insert", !.item = c, !.identity = i,
                  !.scope = s]]
  /\ UNCHANGED <<row, anchors, clock>>

\* An ordinary save; resolve_scope may come to any scope for it.
SaveRead(w, c, s) ==
  /\ "save" \in Traffic
  /\ req[w].step = "idle"
  /\ req' = [req EXCEPT ![w] =
               [Idle EXCEPT !.step = "insert", !.item = c, !.scope = s]]
  /\ UNCHANGED <<row, anchors, clock>>

\* The unique index on (workspace_id, content_hash) refuses a known body: a
\* promotion fails, an ordinary save is answered as a duplicate.
Insert(w) ==
  LET c == req[w].item IN
  /\ req[w].step = "insert"
  /\ IF row[c].phase = "absent"
     THEN /\ row' = [row EXCEPT ![c].phase = "saved"]
          /\ req' = [req EXCEPT ![w].step = "classify"]
     ELSE Finish(w) /\ UNCHANGED row
  /\ UNCHANGED <<anchors, clock>>

\* The forced classification of a promotion is certain; an ordinary one may
\* be below the resolver's threshold.
Classify(w) ==
  /\ req[w].step = "classify"
  /\ row' = [row EXCEPT ![req[w].item].phase = "classified"]
  /\ IF req[w].identity # NoIdentity
     THEN req' = [req EXCEPT ![w].step = "lookup"]
     ELSE req' = [req EXCEPT ![w].step = "group"] \/ Finish(w)
  /\ UNCHANGED <<anchors, clock>>

\* T3 is best effort: without its result the resolver is not called.
ClassifyFails(w) ==
  /\ req[w].step = "classify"
  /\ Finish(w)
  /\ UNCHANGED <<row, anchors, clock>>

\* The catch-up job classifies an item whose memory_type is NULL.
CatchUp(w, c, s) ==
  /\ "catchup" \in Traffic
  /\ req[w].step = "idle"
  /\ row[c].phase = "saved"
  /\ row' = [row EXCEPT ![c].phase = "classified"]
  /\ req' = [req EXCEPT ![w] =
               [Idle EXCEPT !.step = "group", !.item = c, !.scope = s]]
  /\ UNCHANGED <<anchors, clock>>

\* A reconcile job hands an item that has been current to the resolver again.
ReconcileItem(w, c, s) ==
  /\ "reconcile" \in Traffic
  /\ req[w].step = "idle"
  /\ MayResolve
  /\ row[c].identity # NoIdentity
  /\ req' = [req EXCEPT ![w] =
               [Idle EXCEPT !.step = "lookup", !.item = c,
                  !.identity = row[c].identity, !.scope = s]]
  /\ UNCHANGED <<row, anchors, clock>>

-----------------------------------------------------------------------------
(* resolve_current_state_after_ingest.                                     *)

\* Without an identity a scope is all that is written.
Group(w) ==
  /\ req[w].step = "group"
  /\ row' = [row EXCEPT ![req[w].item].scope = req[w].scope]
  /\ Finish(w)
  /\ UNCHANGED <<anchors, clock>>

\* The transaction begins: is the item itself active already?
Lookup(w) ==
  LET r == req[w]
      same == {a \in Active(r.identity) : anchors[a].item = r.item}
  IN
  /\ r.step = "lookup"
  /\ clock' = clock + 1
  /\ IF same = {}
     THEN req' = [req EXCEPT ![w] = [r EXCEPT !.step = "previous", !.at = clock]]
     ELSE \E a \in same :
            req' = [req EXCEPT ![w] = [r EXCEPT !.step = "refresh", !.at = clock,
                                         !.prev = anchors[a].supersedes]]
  /\ UNCHANGED <<row, anchors>>

\* Defect: cs_supersedes_content_id is left out.
CurrentRow_ForgetsPrevious(r) ==
  [phase |-> row[r.item].phase, current |-> "TRUE", scope |-> r.scope,
   identity |-> r.identity, supersedes |-> NoItem]

\* The row of an item that is now current.
CurrentRow(r) ==
  [phase |-> row[r.item].phase, current |-> "TRUE", scope |-> r.scope,
   identity |-> r.identity, supersedes |-> r.prev]

Refresh(w) ==
  LET r == req[w] IN
  /\ r.step = "refresh"
  /\ row' = [row EXCEPT ![r.item] = CurrentRow(r)]
  /\ Finish(w)
  /\ UNCHANGED <<anchors, clock>>

FindPrevious(w) ==
  /\ req[w].step = "previous"
  /\ req' = [req EXCEPT ![w].step = "scan",
                        ![w].prev = NewestItem(Active(req[w].identity))]
  /\ UNCHANGED <<row, anchors, clock>>

\* Defect: a bare scope match supersedes.
Supersedable_ByScope(r, a) ==
  /\ anchors[a].scope = r.scope
  /\ anchors[a].status = "active"
  /\ anchors[a].item # r.item

\* Defect: only anchors of the same scope are superseded.
Supersedable_ScopedIdentity(r, a) ==
  a \in Active(r.identity) /\ anchors[a].item # r.item /\ anchors[a].scope = r.scope

Supersedable(r, a) == a \in Active(r.identity) /\ anchors[a].item # r.item

\* The UPDATE takes its snapshot ...
Scan(w) ==
  /\ req[w].step = "scan"
  /\ req' = [req EXCEPT ![w].step = "supersede",
                        ![w].todo = {a \in DOMAIN anchors : Supersedable(req[w], a)}]
  /\ UNCHANGED <<row, anchors, clock>>

AnchorFree(w, a) == \A v \in Workers \ {w} : a \notin req[v].held

\* Defect: a row that changed while it was waited for is tried again.
Supersede_Retries(w, a) ==
  LET r == req[w] IN
  /\ r.step = "supersede"
  /\ a \in r.todo
  /\ AnchorFree(w, a)
  /\ req' = IF Supersedable(r, a)
            THEN [req EXCEPT ![w].todo = @ \ {a}, ![w].held = @ \cup {a}]
            ELSE req
  /\ UNCHANGED <<row, anchors, clock>>

\* Defect: a row another resolver holds is passed over (SKIP LOCKED).
Supersede_SkipsLocked(w, a) ==
  LET r == req[w] IN
  /\ r.step = "supersede"
  /\ a \in r.todo
  /\ req' = [req EXCEPT ![w].todo = @ \ {a},
                        ![w].held = IF AnchorFree(w, a) /\ Supersedable(r, a)
                                    THEN @ \cup {a} ELSE @]
  /\ UNCHANGED <<row, anchors, clock>>

\* ... and locks each row of it, dropping one that has changed meanwhile.
Supersede(w, a) ==
  LET r == req[w] IN
  /\ r.step = "supersede"
  /\ a \in r.todo
  /\ AnchorFree(w, a)
  /\ req' = [req EXCEPT ![w].todo = @ \ {a},
                        ![w].held = IF Supersedable(r, a) THEN @ \cup {a} ELSE @]
  /\ UNCHANGED <<row, anchors, clock>>

Superseded(a) == [anchors[a] EXCEPT !.status = "superseded"]

NewAnchor(r) ==
  [identity |-> r.identity, scope |-> r.scope, item |-> r.item,
   supersedes |-> r.prev, status |-> "active", at |-> r.at]

AnchorsAfter(r) ==
  Append([a \in DOMAIN anchors |->
            IF a \in r.held THEN Superseded(a) ELSE anchors[a]], NewAnchor(r))

\* The item read as previous stops being current, the new one is.
RowsAfter(r) ==
  [c \in Content |->
     IF c = r.item THEN CurrentRow(r)
     ELSE IF c = r.prev THEN [row[c] EXCEPT !.current = "FALSE", !.scope = r.scope]
     ELSE row[c]]

Commit(w) ==
  LET r == req[w] IN
  /\ r.step = "supersede"
  /\ r.todo = {}
  /\ anchors' = AnchorsAfter(r)
  /\ row' = RowsAfter(r)
  /\ Finish(w)
  /\ UNCHANGED clock

-----------------------------------------------------------------------------
\* The request fails between two statements; its open transaction rolls back.
Abort(w) ==
  /\ req[w].step # "idle"
  /\ Finish(w)
  /\ UNCHANGED <<row, anchors, clock>>

\* Resolvers that superseded two rows each can wait for one another.
Deadlocked(w) ==
  \E S \in SUBSET Workers :
    /\ w \in S
    /\ \A u \in S : /\ req[u].todo # {}
                    /\ \A a \in req[u].todo : \E v \in S \ {u} : a \in req[v].held

BreakDeadlock(w) == Deadlocked(w) /\ Abort(w)

Init ==
  /\ row = [c \in Content |-> NoRow]
  /\ anchors = <<>>
  /\ req = [w \in Workers |-> Idle]
  /\ clock = 0

Start(w) ==
  \E c \in Content, s \in Scopes :
    \/ \E i \in Identities : PromoteRead(w, c, i, s)
    \/ SaveRead(w, c, s)
    \/ CatchUp(w, c, s)
    \/ ReconcileItem(w, c, s)

Proceed(w) ==
  \/ Insert(w)
  \/ Classify(w)
  \/ Group(w)
  \/ Lookup(w)
  \/ Refresh(w)
  \/ FindPrevious(w)
  \/ Scan(w)
  \/ \E a \in DOMAIN anchors : Supersede(w, a)
  \/ Commit(w)

Next == \E w \in Workers : Start(w) \/ Proceed(w) \/ ClassifyFails(w) \/ Abort(w)

Spec == Init /\ [][Next]_vars

\* A thread that has work runs, and PostgreSQL breaks every deadlock.
FairSpec ==
  /\ Spec
  /\ \A w \in Workers : WF_vars(Proceed(w)) /\ WF_vars(BreakDeadlock(w))

-----------------------------------------------------------------------------
(* Properties.                                                             *)

\* Type invariant: every variable has the shape of its columns or locals.
TypeOK ==
  /\ row \in [Content -> Row]
  /\ anchors \in Seq(Anchor)
  /\ req \in [Workers -> Request]
  /\ clock \in Nat

LastOf(i) ==
  {a \in DOMAIN anchors :
     /\ anchors[a].identity = i
     /\ \A b \in DOMAIN anchors : anchors[b].identity = i => b <= a}

\* An identity never loses its current item: whatever raced or failed, the
\* promotion committed last for it is active, its item is marked current, and
\* the item names the identity and what it superseded.
LastPromotionStands ==
  \A i \in Identities : \A a \in LastOf(i) :
    LET x == anchors[a] IN
    /\ x.status = "active"
    /\ row[x.item].current = "TRUE"
    /\ row[x.item].identity = i
    /\ row[x.item].supersedes = x.supersedes

\* An active anchor never points at an item marked as superseded: readers of
\* the anchors and readers of content_items.is_current agree on it.
ActiveIsCurrent ==
  \A a \in DOMAIN anchors :
    anchors[a].status = "active" => row[anchors[a].item].current = "TRUE"

\* "current_state_scope is grouping only and NEVER triggers supersession by
\* itself": an anchor is superseded only in the step that makes another item
\* current for the same identity, and an item stops being current only then.
SupersededByItsIdentity ==
  [][/\ \A a \in DOMAIN anchors :
          anchors'[a].status # anchors[a].status =>
            /\ Len(anchors') = Len(anchors) + 1
            /\ anchors'[Len(anchors')].identity = anchors[a].identity
     /\ \A c \in Content :
          row'[c].current = "FALSE" /\ row[c].current # "FALSE" =>
            /\ Len(anchors') = Len(anchors) + 1
            /\ anchors'[Len(anchors')].identity = row[c].identity]_vars

\* "narrows to at most one row" (list_current_state_anchors): an identity has
\* at most one active anchor.
AtMostOneActive ==
  \A i \in Identities : \A a, b \in Active(i) : a = b

\* Every request is answered: nobody waits for ever for an anchor row.
RequestsEnd ==
  \A w \in Workers : req[w].step # "idle" ~> req[w].step = "idle"

\* What the resolver promises: one register per identity.  Several active
\* anchors stand for no item a register could hold.
ActiveItem ==
  [i \in Identities |->
     IF Cardinality(Active(i)) > 1 THEN "contested" ELSE NewestItem(Active(i))]

Register == INSTANCE CurrentRegister WITH now <- ActiveItem

\* Every step of the resolver replaces the one item of one identity or nothing.
IsRegister == Register!Spec
=============================================================================
