-------------------------- MODULE DecisionLineage --------------------------
(***************************************************************************)
(* The decisions of one workspace: DecisionStore over cb_decision_nodes.   *)
(* A decision can supersede an older one; the new row and the mark on the  *)
(* old one are written by one transaction, which looks the old one up      *)
(* first, and can be refused or cut short at any statement.                *)
(*                                                                         *)
(* A row becomes visible when its transaction commits, so a decision is    *)
(* named by its place in the commit order; 0 stands for NULL.              *)
(***************************************************************************)
EXTENDS Integers, Sequences, FiniteSets

CONSTANTS Writers,       \* threads that create decisions
          Concerns,      \* hubs and tags a decision can carry
          Asked,         \* the statuses callers ask for
          DepthLimit,    \* how far a lineage is followed (10)
          MaxDecisions   \* bound: rows

AllStatuses == {"active", "superseded", "reversed", "draft"}

ASSUME StatusAssumption == Asked \subseteq AllStatuses
ASSUME DepthAssumption == DepthLimit \in Nat \ {0}
ASSUME DecisionsAssumption == MaxDecisions \in Nat

VARIABLES dec,     \* cb_decision_nodes, in commit order
          req,     \* what each writer is doing
          byHand   \* history: decisions given a status by a caller since they
                   \* were last superseded

lineageVars == <<dec, req, byHand>>

-----------------------------------------------------------------------------
Decision == [supersedes : Nat, successor : Nat, status : AllStatuses,
             concerns : SUBSET Concerns]

NoCreation == [step |-> "idle", aim |-> 0, status |-> "draft", concerns |-> {}]

Request == [step : {"idle", "check", "insert", "mark", "commit"}, aim : Nat,
            status : AllStatuses, concerns : SUBSET Concerns]

Decisions == DOMAIN dec

Goto(w, step) == req' = [req EXCEPT ![w].step = step]

Creating == {w \in Writers : req[w].step # "idle"}

\* aim: supersedes_decision_id, which need not exist.
CreateStart(w, aim, status, concerns) ==
  /\ req[w].step = "idle"
  /\ Len(dec) + Cardinality(Creating) < MaxDecisions
  /\ req' = [req EXCEPT ![w] = [step |-> "check", aim |-> aim,
                                status |-> status, concerns |-> concerns]]
  /\ UNCHANGED <<dec, byHand>>

\* "supersedes_decision_id ... not found" ends the request.
CreateCheck(w) ==
  /\ req[w].step = "check"
  /\ IF req[w].aim \in Decisions \cup {0}
     THEN Goto(w, "insert")
     ELSE req' = [req EXCEPT ![w] = NoCreation]
  /\ UNCHANGED <<dec, byHand>>

CreateInsert(w) ==
  /\ req[w].step = "insert"
  /\ Goto(w, IF req[w].aim = 0 THEN "commit" ELSE "mark")
  /\ UNCHANGED <<dec, byHand>>

\* A writer at "commit" holds the row lock of the decision it supersedes.
Locked(d) == \E v \in Writers : req[v].step = "commit" /\ req[v].aim = d

CreateMark(w) ==
  /\ req[w].step = "mark"
  /\ ~Locked(req[w].aim)
  /\ Goto(w, "commit")
  /\ UNCHANGED <<dec, byHand>>

NewRow(r) == [supersedes |-> r.aim, successor |-> 0, status |-> r.status,
              concerns |-> r.concerns]

\* Defect: only the first successor is kept.
Created_KeepsFirst(r) ==
  Append([d \in Decisions |->
            IF d = r.aim
            THEN [dec[d] EXCEPT !.successor = IF @ = 0 THEN Len(dec) + 1 ELSE @,
                                !.status = "superseded"]
            ELSE dec[d]],
         NewRow(r))

\* Defect: the mark leaves the old status.
Created_KeepsStatus(r) ==
  Append([d \in Decisions |->
            IF d = r.aim THEN [dec[d] EXCEPT !.successor = Len(dec) + 1]
            ELSE dec[d]],
         NewRow(r))

\* Both writes of the transaction.
Created(r) ==
  Append([d \in Decisions |->
            IF d = r.aim
            THEN [dec[d] EXCEPT !.successor = Len(dec) + 1, !.status = "superseded"]
            ELSE dec[d]],
         NewRow(r))

CreateCommit(w) ==
  /\ req[w].step = "commit"
  /\ dec' = Created(req[w])
  /\ byHand' = byHand \ {req[w].aim}
  /\ req' = [req EXCEPT ![w] = NoCreation]

\* A statement fails or the process dies: nothing of the transaction stays.
Abort(w) ==
  /\ req[w].step # "idle"
  /\ req' = [req EXCEPT ![w] = NoCreation]
  /\ UNCHANGED <<dec, byHand>>

\* One UPDATE, of any decision to any status, committed at once.
UpdateStatus(d, status) ==
  /\ d \in Decisions
  /\ ~Locked(d)
  /\ dec' = [dec EXCEPT ![d].status = status]
  /\ byHand' = byHand \cup {d}
  /\ UNCHANGED req

LineageInit ==
  /\ dec = <<>>
  /\ req = [w \in Writers |-> NoCreation]
  /\ byHand = {}

LineageNext ==
  \/ \E w \in Writers :
       \/ \E aim \in 0 .. MaxDecisions, s \in Asked, T \in SUBSET Concerns :
            CreateStart(w, aim, s, T)
       \/ CreateCheck(w) \/ CreateInsert(w) \/ CreateMark(w) \/ CreateCommit(w)
       \/ Abort(w)
  \/ \E d \in Decisions, s \in Asked : UpdateStatus(d, s)

LineageSpec == LineageInit /\ [][LineageNext]_lineageVars

-----------------------------------------------------------------------------
(* Reading.  Each is one statement, over one snapshot.                     *)

\* The n-th node of the recursive CTE that follows a link from d; 0 if the
\* chain has ended.
Walk(d, link) ==
  LET node[n \in 0 .. DepthLimit] ==
        IF n = 0 THEN d
        ELSE IF node[n - 1] = 0 THEN 0
        ELSE dec[node[n - 1]][link]
  IN node

\* depth: of the farthest row returned, 0 if there is none.
DepthOf(walk) ==
  CHOOSE n \in 0 .. DepthLimit :
    /\ walk[n] # 0
    /\ n = DepthLimit \/ walk[n + 1] = 0

Ancestors(d) == {Walk(d, "supersedes")[n] : n \in 1 .. DepthLimit} \ {0}

Descendants(d) == {Walk(d, "successor")[n] : n \in 1 .. DepthLimit} \ {0}

\* Defect: the limit is reported only once it is passed.
LimitReached_OffByOne(d) ==
  DepthOf(Walk(d, "supersedes")) > DepthLimit
    \/ DepthOf(Walk(d, "successor")) > DepthLimit

LimitReached(d) ==
  DepthOf(Walk(d, "supersedes")) >= DepthLimit
    \/ DepthOf(Walk(d, "successor")) >= DepthLimit

\* Pairs of active decisions with a hub or a tag in common.
Conflicts ==
  {pair \in Decisions \X Decisions :
     /\ pair[1] < pair[2]
     /\ dec[pair[1]].status = "active" /\ dec[pair[2]].status = "active"
     /\ dec[pair[1]].concerns \cap dec[pair[2]].concerns # {}}

-----------------------------------------------------------------------------
(* Properties.                                                             *)

\* Type invariant: every variable has the shape of its columns or locals.
LineageTypeOK ==
  /\ dec \in Seq(Decision)
  /\ req \in [Writers -> Request]
  /\ byHand \subseteq Decisions

\* A decision supersedes an older one and is succeeded by a newer one, so no
\* chain of get_lineage runs in a circle.
LinksRunForward ==
  \A d \in Decisions :
    /\ dec[d].supersedes < d
    /\ dec[d].successor # 0 => dec[d].successor \in d + 1 .. Len(dec)

\* The two links of create_decision agree: a successor is a decision that
\* superseded this one, and a decision that was superseded has one, whatever
\* transactions overtook or cut short one another.
LinksAgree ==
  \A d \in Decisions :
    /\ dec[d].successor # 0 => dec[dec[d].successor].supersedes = d
    /\ dec[d].supersedes # 0 => dec[dec[d].supersedes].successor # 0

\* Of several decisions that supersede the same one, the successor is the
\* last to commit: the row lock puts the UPDATEs in commit order.
LastSuccessorWins ==
  \A d, e \in Decisions : dec[e].supersedes = d => dec[d].successor >= e

\* A lineage is never cut off silently: without depth_limit_reached it ends
\* at a decision that superseded nothing and at one nothing superseded.
CutOffIsReported ==
  \A d \in Decisions : ~LimitReached(d) =>
    /\ \E a \in Ancestors(d) \cup {d} : dec[a].supersedes = 0
    /\ \E b \in Descendants(d) \cup {d} : dec[b].successor = 0

\* list_conflicts never reports a decision against one that replaced it,
\* unless a caller has revived it with a status update.
ReplacedDoesNotConflict ==
  \A pair \in Conflicts :
    dec[pair[2]].supersedes = pair[1] => pair[1] \in byHand

=============================================================================
