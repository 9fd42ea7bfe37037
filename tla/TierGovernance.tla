--------------------------- MODULE TierGovernance ---------------------------
(***************************************************************************)
(* The tier lifecycle of content items in one workspace: the save that     *)
(* assigns the first tier and may quarantine the item behind an            *)
(* escalation, the human gate that resolves escalations, the admin         *)
(* override and rollback, and the TTL cleanup job.  They run concurrently  *)
(* in the threads of the API server and share four PostgreSQL tables:      *)
(* content_items, cb_escalations, cb_governance_events and the hub and     *)
(* decision links that protect an item from cleanup.                       *)
(*                                                                         *)
(* A handler is one READ COMMITTED transaction: each SELECT is a step that *)
(* reads what is committed, and the UPDATEs and INSERTs take effect in one *)
(* commit step.  Cleanup updates rows as it goes and keeps them locked     *)
(* until it commits: `hold' and `doomed' are the rows it has locked, and a *)
(* commit that writes such a row waits.  The other handlers write at the   *)
(* very end, so their locks are not represented; a deadlock they could     *)
(* run into ends in the rollback that Abort allows at every step.          *)
(***************************************************************************)
EXTENDS TierPolicy, Sequences, Functions

CONSTANTS Content,     \* identifiers a saved item can get
          Workers,     \* request threads of the API server
          NoItem,      \* stands for "no content id"
          MaxTickets   \* bound: governed transactions begun in a behaviour

ASSUME NoItemAssumption == NoItem \notin Content
ASSUME MaxTicketsAssumption == MaxTickets \in Nat

VARIABLES tier,    \* content_items.tier, "absent" while there is no row
          aged,    \* items created more than seven days ago
          linked,  \* items linked to a hub or cited as a decision's source
          esc,     \* the escalation of each item (a save raises at most one)
          log,     \* cb_governance_events of each item, in commit order
          req,     \* what each worker is doing, with its local variables
          clock    \* transaction start times (NOW()) handed out so far

vars == <<tier, aged, linked, esc, log, req, clock>>

-----------------------------------------------------------------------------
Absent == "absent"

\* The tiers a save can assign: what the router emits short of discard, and
\* the persistent tier a trusted promotion forces.
RoutedTiers == {"transient", "probationary", "persistent"}

OverrideTiers == {"persistent", "archived"}

Severities == {"warning", "requires_review"}

EscalationStatuses == {"pending", "approved", "rejected", "expired"}

NoEscalation == [status |-> "none", severity |-> "none", due |-> FALSE]

Escalation == [status : EscalationStatuses, severity : Severities,
               due : BOOLEAN]

\* trigger_type is "human_override" for the source "admin", "system" otherwise.
\* `done' is history: how many governed requests had begun at the commit.
Event == [prev : Tiers \cup {NoTier}, new : Tiers,
          source : {"save", "admin", "cleanup"},
          at : 0 .. MaxTickets, done : 0 .. MaxTickets]

Steps == {"idle", "saveTier", "saveDetect", "saveQuarantine", "saveEscalate",
          "resolveRead", "resolveCommit", "overrideCommit",
          "rollbackRead", "rollbackCommit",
          "cleanupExpire", "cleanupScan", "cleanupSweep"}

SaveSteps == {"saveTier", "saveDetect", "saveQuarantine", "saveEscalate"}

Idle == [step |-> "idle", item |-> NoItem, prev |-> NoTier, aim |-> NoTier,
         at |-> 0, hold |-> {}, todo |-> {}, doomed |-> {}]

Request == [step : Steps, item : Content \cup {NoItem},
            prev : Tiers \cup {NoTier},
            aim : Tiers \cup Severities \cup {NoTier}, at : 0 .. MaxTickets,
            hold : SUBSET Content, todo : SUBSET Content, doomed : SUBSET Content]

-----------------------------------------------------------------------------
(* Locks and clock.                                                        *)

Holding == {"cleanupScan", "cleanupSweep"}

EscalationFree(w, c) ==
  \A v \in Workers \ {w} : req[v].step \in Holding => c \notin req[v].hold

RowFree(w, c) == \A v \in Workers \ {w} : c \notin req[v].doomed

Stored(c) == tier[c] # Absent

\* Defect: a row without a tier is not answered with 404.
Governed_AnyRow(c) == Stored(c)

Governed(c) == tier[c] \in Tiers

\* A governed transaction begins: NOW() is this time until it ends.
Begin(w, r) ==
  /\ clock < MaxTickets
  /\ clock' = clock + 1
  /\ req' = [req EXCEPT ![w] = [r EXCEPT !.at = clock]]

Finish(w) == req' = [req EXCEPT ![w] = Idle]

\* The UPDATE of content_items and the INSERT of the event, committed together.
CommitTier(r, source) ==
  /\ tier' = [tier EXCEPT ![r.item] = r.aim]
  /\ log' = [log EXCEPT ![r.item] =
               Append(@, [prev |-> r.prev, new |-> r.aim,
                          source |-> source, at |-> r.at, done |-> clock])]

-----------------------------------------------------------------------------
(* Save: create_content_minimal, one transaction per step.                 *)

SaveInsert(w, c) ==
  /\ req[w].step = "idle"
  /\ ~Stored(c)
  /\ tier' = [tier EXCEPT ![c] = NoTier]
  /\ req' = [req EXCEPT ![w] = [Idle EXCEPT !.step = "saveTier", !.item = c]]
  /\ UNCHANGED <<aged, linked, esc, log, clock>>

\* The first tier is written without a governance event.
SaveTier(w) ==
  /\ req[w].step = "saveTier"
  /\ \E t \in RoutedTiers : tier' = [tier EXCEPT ![req[w].item] = t]
  /\ req' = [req EXCEPT ![w].step = "saveDetect"]
  /\ UNCHANGED <<aged, linked, esc, log, clock>>

\* Defect: every escalation quarantines the item.
Quarantines_Always(severity) == severity \in Severities

Quarantines(severity) == severity = "requires_review"

\* The conflict detector finds nothing to escalate for this item, or fails:
\* it is best-effort and the save is answered all the same.
SaveDetectNothing(w) ==
  /\ req[w].step = "saveDetect"
  /\ Finish(w)
  /\ UNCHANGED <<tier, aged, linked, esc, log, clock>>

\* It finds a conflict.
SaveDetectConflict(w, severity) ==
  /\ req[w].step = "saveDetect"
  /\ Begin(w, [req[w] EXCEPT !.step = "saveQuarantine", !.aim = severity])
  /\ UNCHANGED <<tier, aged, linked, esc, log>>

\* A quarantine reads the previous tier, after the detector's own queries.
SaveReadTier(w) ==
  /\ req[w].step = "saveQuarantine"
  /\ req' = [req EXCEPT ![w].step = "saveEscalate",
                        ![w].prev = IF Quarantines(req[w].aim)
                                    THEN tier[req[w].item] ELSE NoTier]
  /\ UNCHANGED <<tier, aged, linked, esc, log, clock>>

\* persist_escalation: the escalation, the quarantine and its event.
SaveEscalate(w) ==
  LET r == req[w] IN
  /\ r.step = "saveEscalate"
  /\ RowFree(w, r.item)
  /\ esc' = [esc EXCEPT ![r.item] =
               [status |-> "pending", severity |-> r.aim, due |-> FALSE]]
  /\ IF Quarantines(r.aim)
     THEN CommitTier([r EXCEPT !.aim = "conflicted"], "save")
     ELSE UNCHANGED <<tier, log>>
  /\ Finish(w)
  /\ UNCHANGED <<aged, linked, clock>>

-----------------------------------------------------------------------------
(* The human gate: approve or reject an escalation.                        *)

Resolvable(c) == esc[c].status = "pending" /\ ~esc[c].due

ResolveFetch(w, c, decision) ==
  /\ req[w].step = "idle"
  /\ Resolvable(c)
  /\ Begin(w, [Idle EXCEPT !.step = "resolveRead", !.item = c,
                 !.aim = IF decision = "approved" THEN "persistent"
                                                  ELSE "archived"])
  /\ UNCHANGED <<tier, aged, linked, esc, log>>

ResolveRead(w) ==
  /\ req[w].step = "resolveRead"
  /\ req' = [req EXCEPT ![w].step = "resolveCommit",
                        ![w].prev = tier[req[w].item]]
  /\ UNCHANGED <<tier, aged, linked, esc, log, clock>>

ResolveCommit(w) ==
  LET r == req[w] IN
  /\ r.step = "resolveCommit"
  /\ RowFree(w, r.item)
  /\ EscalationFree(w, r.item)
  /\ CommitTier(r, "admin")
  /\ esc' = [esc EXCEPT ![r.item].status =
               IF r.aim = "persistent" THEN "approved" ELSE "rejected"]
  /\ Finish(w)
  /\ UNCHANGED <<aged, linked, clock>>

-----------------------------------------------------------------------------
(* Admin override and rollback.  A request the handler answers with 404 or *)
(* 422 changes nothing; of those only the ones that read twice are steps.  *)

OverrideRead(w, c, new) ==
  /\ req[w].step = "idle"
  /\ Governed(c)
  /\ ValidTransition(tier[c], new, "human_override")
  /\ Begin(w, [Idle EXCEPT !.step = "overrideCommit", !.item = c,
                           !.prev = tier[c], !.aim = new])
  /\ UNCHANGED <<tier, aged, linked, esc, log>>

OverrideCommit(w) ==
  /\ req[w].step = "overrideCommit"
  /\ RowFree(w, req[w].item)
  /\ CommitTier(req[w], "admin")
  /\ Finish(w)
  /\ UNCHANGED <<aged, linked, esc, clock>>

RollbackRead(w, c) ==
  /\ req[w].step = "idle"
  /\ Governed(c)
  /\ Begin(w, [Idle EXCEPT !.step = "rollbackRead", !.item = c,
                           !.prev = tier[c]])
  /\ UNCHANGED <<tier, aged, linked, esc, log>>

\* ORDER BY created_at DESC LIMIT 1: of the transaction that began last.
LatestEvents(c) ==
  {e \in Range(log[c]) : \A f \in Range(log[c]) : f.at <= e.at}

CleanupArchiveRollback(current, e) ==
  /\ current = "archived" /\ e.new = "archived"
  /\ e.source = "cleanup" /\ e.prev \in Tiers

RollbackAllowed(current, e) ==
  \/ CleanupArchiveRollback(current, e)
  \/ /\ e.prev \in Tiers
     /\ ValidTransition(current, e.prev, "human_override")

RollbackReadLog(w) ==
  LET r == req[w] IN
  /\ r.step = "rollbackRead"
  /\ \/ \E e \in LatestEvents(r.item) :
          /\ RollbackAllowed(r.prev, e)
          /\ req' = [req EXCEPT ![w].step = "rollbackCommit", ![w].aim = e.prev]
     \/ /\ \A e \in LatestEvents(r.item) : ~RollbackAllowed(r.prev, e)
        /\ Finish(w)
  /\ UNCHANGED <<tier, aged, linked, esc, log, clock>>

RollbackCommit(w) ==
  /\ req[w].step = "rollbackCommit"
  /\ RowFree(w, req[w].item)
  /\ CommitTier(req[w], "admin")
  /\ Finish(w)
  /\ UNCHANGED <<aged, linked, esc, clock>>

-----------------------------------------------------------------------------
(* TTL cleanup, one transaction.  With dry_run it reads the same rows and  *)
(* writes nothing, which is what a run that aborts does.                   *)

StaleEscalations == {c \in Content : esc[c].status = "pending" /\ esc[c].due}

CleanupStart(w) ==
  /\ req[w].step = "idle"
  /\ Begin(w, [Idle EXCEPT !.step = "cleanupExpire",
                           !.hold = StaleEscalations, !.todo = aged])
  /\ UNCHANGED <<tier, aged, linked, esc, log>>

\* UPDATE ... WHERE id = ...: the status is not looked at again.
CleanupExpire(w) ==
  /\ req[w].step = "cleanupExpire"
  /\ \A c \in req[w].hold : EscalationFree(w, c)
  /\ req' = [req EXCEPT ![w].step = "cleanupScan"]
  /\ UNCHANGED <<tier, aged, linked, esc, log, clock>>

\* Defect: the SELECT does not filter by tier.
CleanupCandidates_AnyTier(old) == {c \in old : Governed(c)}

\* Of the items aged when the transaction began, the SELECT returns the
\* transient and conflicted ones; the loop skips the conflicted ones at once.
CleanupCandidates(old) == {c \in old : tier[c] = "transient"}

CleanupScan(w) ==
  /\ req[w].step = "cleanupScan"
  /\ req' = [req EXCEPT ![w].step = "cleanupSweep",
                        ![w].todo = CleanupCandidates(@)]
  /\ UNCHANGED <<tier, aged, linked, esc, log, clock>>

\* Defect: cleanup does not look for a pending escalation.
Expendable_IgnoresEscalation(w, c) == c \notin linked

\* The transaction sees its own uncommitted expiries.
Expendable(w, c) ==
  /\ esc[c].status # "pending" \/ c \in req[w].hold
  /\ c \notin linked

\* Defect: a row that must stay is looked at again instead of skipped.
CleanupCheck_Retries(w, c) ==
  /\ req[w].step = "cleanupSweep"
  /\ req[w].item = NoItem
  /\ c \in req[w].todo
  /\ req' = IF Expendable(w, c)
            THEN [req EXCEPT ![w].todo = @ \ {c}, ![w].item = c]
            ELSE req
  /\ UNCHANGED <<tier, aged, linked, esc, log, clock>>

CleanupCheck(w, c) ==
  /\ req[w].step = "cleanupSweep"
  /\ req[w].item = NoItem
  /\ c \in req[w].todo
  /\ req' = [req EXCEPT ![w].todo = @ \ {c},
                        ![w].item = IF Expendable(w, c) THEN c ELSE NoItem]
  /\ UNCHANGED <<tier, aged, linked, esc, log, clock>>

\* UPDATE ... WHERE content_id = ...: the tier is not looked at again.
CleanupArchive(w) ==
  LET r == req[w] IN
  /\ r.step = "cleanupSweep"
  /\ r.item # NoItem
  /\ RowFree(w, r.item)
  /\ req' = [req EXCEPT ![w].doomed = @ \cup {r.item}, ![w].item = NoItem]
  /\ UNCHANGED <<tier, aged, linked, esc, log, clock>>

CleanupCommit(w) ==
  LET r == req[w] IN
  /\ r.step = "cleanupSweep"
  /\ r.todo = {} /\ r.item = NoItem
  /\ esc' = [c \in Content |->
               IF c \in r.hold THEN [esc[c] EXCEPT !.status = "expired"]
                               ELSE esc[c]]
  /\ tier' = [c \in Content |-> IF c \in r.doomed THEN "archived" ELSE tier[c]]
  /\ log' = [c \in Content |->
               IF c \in r.doomed
               THEN Append(log[c], [prev |-> "transient", new |-> "archived",
                                    source |-> "cleanup", at |-> r.at,
                                    done |-> clock])
               ELSE log[c]]
  /\ Finish(w)
  /\ UNCHANGED <<aged, linked, clock>>

-----------------------------------------------------------------------------
(* Links, failures and the passage of time.                                *)

\* HubStore.link_content, or a decision recorded with this source.
LinkContent(w, c) ==
  /\ req[w].step = "idle"
  /\ Stored(c)
  /\ linked' = linked \cup {c}
  /\ UNCHANGED <<tier, aged, esc, log, req, clock>>

\* expires_at passes.
EscalationFallsDue(c) ==
  /\ esc[c].status = "pending" /\ ~esc[c].due
  /\ esc' = [esc EXCEPT ![c].due = TRUE]
  /\ UNCHANGED <<tier, aged, linked, log, req, clock>>

\* Seven days have passed since the INSERT: no save lasts that long.
ContentAges(c) ==
  /\ Stored(c)
  /\ c \notin aged
  /\ \A w \in Workers : req[w].step \in SaveSteps => req[w].item # c
  /\ aged' = aged \cup {c}
  /\ UNCHANGED <<tier, linked, esc, log, req, clock>>

\* The request fails: the server dies, the connection is lost, or PostgreSQL
\* picks its transaction as the victim of a deadlock.  The open transaction
\* rolls back; a save keeps the steps it has committed.
Abort(w) ==
  /\ req[w].step # "idle"
  /\ Finish(w)
  /\ UNCHANGED <<tier, aged, linked, esc, log, clock>>

WaitsFor(w, v) ==
  /\ w # v
  /\ req[w].step = "cleanupSweep"
  /\ req[w].item \in req[v].doomed

\* Two cleanups can archive the same items in opposite orders.
Deadlocked(w) ==
  \E S \in SUBSET Workers :
    w \in S /\ \A u \in S : \E v \in S : WaitsFor(u, v)

BreakDeadlock(w) == Deadlocked(w) /\ Abort(w)

-----------------------------------------------------------------------------
Init ==
  /\ tier = [c \in Content |-> Absent]
  /\ aged = {}
  /\ linked = {}
  /\ esc = [c \in Content |-> NoEscalation]
  /\ log = [c \in Content |-> <<>>]
  /\ req = [w \in Workers |-> Idle]
  /\ clock = 0

Start(w) ==
  \/ \E c \in Content : SaveInsert(w, c)
  \/ \E c \in Content, d \in {"approved", "rejected"} : ResolveFetch(w, c, d)
  \/ \E c \in Content, t \in OverrideTiers : OverrideRead(w, c, t)
  \/ \E c \in Content : RollbackRead(w, c)
  \/ CleanupStart(w)
  \/ \E c \in Content : LinkContent(w, c)

Proceed(w) ==
  \/ SaveTier(w)
  \/ SaveDetectNothing(w)
  \/ \E s \in Severities : SaveDetectConflict(w, s)
  \/ SaveReadTier(w)
  \/ SaveEscalate(w)
  \/ ResolveRead(w)
  \/ ResolveCommit(w)
  \/ OverrideCommit(w)
  \/ RollbackReadLog(w)
  \/ RollbackCommit(w)
  \/ CleanupExpire(w)
  \/ CleanupScan(w)
  \/ \E c \in Content : CleanupCheck(w, c)
  \/ CleanupArchive(w)
  \/ CleanupCommit(w)

World(c) == EscalationFallsDue(c) \/ ContentAges(c)

Next ==
  \/ \E w \in Workers : Start(w) \/ Proceed(w) \/ Abort(w)
  \/ \E c \in Content : World(c)

Spec == Init /\ [][Next]_vars

\* A thread that has work runs, and PostgreSQL breaks every deadlock.
FairSpec ==
  /\ Spec
  /\ \A w \in Workers : WF_vars(Proceed(w)) /\ WF_vars(BreakDeadlock(w))

-----------------------------------------------------------------------------
(* Properties.                                                             *)

\* Type invariant: every variable has the shape of its column or local.
TypeOK ==
  /\ tier \in [Content -> Tiers \cup {NoTier, Absent}]
  /\ aged \subseteq Content /\ linked \subseteq Content
  /\ esc \in [Content -> Escalation \cup {NoEscalation}]
  /\ log \in [Content -> Seq(Event)]
  /\ req \in [Workers -> Request]
  /\ clock \in 0 .. MaxTickets

\* The audit trail explains the present: once an item has a governance event,
\* its tier is the one its last committed event moved it to.  Handlers write
\* the tier unconditionally, and a save writes it once without an event; no
\* interleaving of them leaves the tier and the trail apart.
AuditHeadMatchesTier ==
  \A c \in Content :
    log[c] # <<>> => tier[c] = log[c][Len(log[c])].new

\* The tier that event j of the item replaced.
TierBefore(c, j) == IF j = 1 THEN log[c][1].prev ELSE log[c][j - 1].new

\* The item had tier t at some moment since the request began that was the a-th to begin: it has
\* it now, or every event from the one that replaced it on was committed after that.
HeldSince(c, t, a) ==
  \/ t = tier[c]
  \/ \E j \in DOMAIN log[c] :
       t = TierBefore(c, j) /\ \A k \in j .. Len(log[c]) : log[c][k].done > a

\* Handlers write a tier they decided on from an earlier read, by id and without looking again:
\* cleanup archives over an override or an approval that was committed after its SELECT, and the
\* event names a tier the item no longer has.  Only what is committed while the request runs is
\* overruled in that way: an event names a tier that the item had since its request began, so
\* what was decided before is seen and respected.
OverrulesOnlyMeanwhile ==
  [][\A c \in Content : log'[c] # log[c] =>
       LET e == log'[c][Len(log'[c])] IN HeldSince(c, e.prev, e.at)]_vars

\* Quarantine is backed: an item is conflicted only if an escalation that
\* requires review was raised for it, whatever was rolled back or overridden
\* since.  A warning never quarantines.
QuarantineBacked ==
  \A c \in Content :
    tier[c] = "conflicted" => esc[c].severity = "requires_review"

ArchivedByCleanup(c) ==
  /\ log'[c] # log[c]
  /\ log'[c][Len(log'[c])].source = "cleanup"

\* Cleanup never archives an item under review: when it commits an archive
\* no escalation of the item is left pending, although it checked in an
\* earlier statement and expires the stale ones itself.
CleanupSparesPending ==
  [][\A c \in Content : ArchivedByCleanup(c) => esc'[c].status # "pending"]_vars

\* An escalation is decided once (escalations.py:131, "pending -> decision", and the 409 for one
\* that is resolved or expired).  The UPDATE does not look at the status again: of two resolutions
\* that overlap, or a resolution and the expiry by cleanup, the second replaces the decision of
\* the first.
EscalationResolvedOnce ==
  [][\A c \in Content :
       esc[c].status \in {"approved", "rejected", "expired"}
         => esc'[c].status = esc[c].status]_vars

\* Every request is answered: nobody waits for ever on a row lock.
RequestsEnd ==
  \A w \in Workers : req[w].step # "idle" ~> req[w].step = "idle"
=============================================================================
