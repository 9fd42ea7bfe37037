------------------------ MODULE TierGovernanceProofs ------------------------
(***************************************************************************)
(* Proofs about TierGovernance, for any set of items, any number of        *)
(* workers and any bound on the tickets: types, the trail and quarantine;  *)
(* what a commit may overrule; and what a cleanup spares.                  *)
(***************************************************************************)
EXTENDS TierGovernance, TLAPS

-----------------------------------------------------------------------------
(* The control part of the inductive invariant.                            *)

GovernedSteps == {"saveDetect", "saveQuarantine", "saveEscalate",
                  "resolveRead", "resolveCommit", "overrideCommit",
                  "rollbackRead", "rollbackCommit"}

\* What a request knows of the item it is working on.
RequestOK(w) ==
  LET r == req[w] IN
  /\ r.step \in SaveSteps \cup GovernedSteps => r.item \in Content
  /\ r.step = "saveTier" => tier[r.item] = NoTier
  /\ r.step \in GovernedSteps => Governed(r.item)
  /\ r.step \in SaveSteps => esc[r.item] = NoEscalation
  /\ r.step \in {"saveQuarantine", "saveEscalate"} => r.aim \in Severities
  /\ r.step = "saveEscalate" /\ Quarantines(r.aim) => r.prev \in Tiers
  /\ r.step \in {"resolveRead", "resolveCommit"} => esc[r.item] \in Escalation
  /\ r.step \in {"resolveRead", "resolveCommit", "overrideCommit",
                 "rollbackCommit"} => r.aim \in Tiers
  /\ r.step \in {"resolveCommit", "overrideCommit", "rollbackRead",
                 "rollbackCommit"} => r.prev \in Tiers

\* What a cleanup knows of the rows it has selected or locked.
SweepOK(w) ==
  LET r == req[w] IN
  /\ \A c \in r.hold : esc[c] \in Escalation
  /\ \A c \in r.doomed : Governed(c)
  /\ r.step \in {"cleanupExpire", "cleanupScan"} => r.item = NoItem
  /\ r.step # "cleanupSweep" => r.doomed = {}
  /\ r.step = "cleanupSweep" =>
       /\ \A c \in r.todo : Governed(c)
       /\ r.item # NoItem => Governed(r.item)

\* No two saves work on the same item.
SavesApart ==
  \A w, v \in Workers :
    w # v /\ req[w].step \in SaveSteps /\ req[v].step \in SaveSteps
      => req[w].item # req[v].item

\* An item without a tier has no history; a history names only tiers.
ItemOK(c) ==
  /\ ~Governed(c) => log[c] = <<>> /\ esc[c] = NoEscalation
  /\ \A i \in DOMAIN log[c] : log[c][i].prev \in Tiers

Control ==
  /\ \A w \in Workers : RequestOK(w)
  /\ \A w \in Workers : SweepOK(w)
  /\ SavesApart
  /\ \A c \in Content : ItemOK(c)

CInv == TypeOK /\ Control
-----------------------------------------------------------------------------
(* Lemmas.                                                                 *)

\* The states a worker's record can be put in have its type.
LEMMA IdleType == Idle \in Request
BY NoItemAssumption, MaxTicketsAssumption DEF Idle, Request, Steps

LEMMA RequestFields ==
  ASSUME NEW r \in Request
  PROVE  /\ r.step \in Steps
         /\ r.item \in Content \cup {NoItem}
         /\ r.prev \in Tiers \cup {NoTier}
         /\ r.aim \in Tiers \cup Severities \cup {NoTier}
         /\ r.at \in 0 .. MaxTickets
         /\ r.hold \subseteq Content
         /\ r.todo \subseteq Content
         /\ r.doomed \subseteq Content
BY DEF Request

\* What other requests rely on is monotone: a step that gives no item's tier
\* or escalation back, and leaves saved items to their saves, disturbs only the
\* worker that takes it.
LEMMA Frame ==
  ASSUME CInv,
         \A c \in Content : Governed(c) => Governed(c)',
         \A c \in Content : esc[c] \in Escalation => esc'[c] \in Escalation,
         \A v \in Workers :
           \/ /\ req'[v] = req[v]
              /\ req[v].step = "saveTier"
                   => tier'[req[v].item] = tier[req[v].item]
              /\ req[v].step \in SaveSteps
                   => esc'[req[v].item] = esc[req[v].item]
           \/ RequestOK(v)' /\ SweepOK(v)'
  PROVE  (\A v \in Workers : RequestOK(v))' /\ (\A v \in Workers : SweepOK(v))'
<1> SUFFICES ASSUME NEW v \in Workers PROVE RequestOK(v)' /\ SweepOK(v)'
  OBVIOUS
<1>1. CASE RequestOK(v)' /\ SweepOK(v)'
  BY <1>1
<1>2. CASE /\ req'[v] = req[v]
           /\ req[v].step = "saveTier"
                => tier'[req[v].item] = tier[req[v].item]
           /\ req[v].step \in SaveSteps
                => esc'[req[v].item] = esc[req[v].item]
  <2> DEFINE r == req[v]
  <2>1. r \in Request
    BY DEF CInv, TypeOK
  <2>2. RequestOK(v) /\ SweepOK(v)
    BY DEF CInv, Control
  <2>3. RequestOK(v)'
    BY <1>2, <2>2 DEF RequestOK, SaveSteps, GovernedSteps, Quarantines
  <2>4. SweepOK(v)'
    BY <1>2, <2>1, <2>2, RequestFields DEF SweepOK
  <2>5. QED BY <2>3, <2>4
<1>3. QED BY <1>1, <1>2

LEMMA SavesStayApart ==
  ASSUME SavesApart,
         NEW w \in Workers,
         \A v \in Workers \ {w} : req'[v] = req[v],
         req'[w].step \in SaveSteps
           => req[w].step \in SaveSteps /\ req'[w].item = req[w].item
  PROVE  SavesApart'
BY DEF SavesApart

LEMMA SaveInsertStep ==
  ASSUME CInv, NEW w \in Workers, NEW c \in Content, SaveInsert(w, c)
  PROVE  CInv'
<1> DEFINE R == [Idle EXCEPT !.step = "saveTier", !.item = c]
<1>1. /\ req \in [Workers -> Request] /\ tier \in [Content -> Tiers \cup {NoTier, Absent}]
      /\ req' = [req EXCEPT ![w] = R] /\ tier' = [tier EXCEPT ![c] = NoTier]
      /\ UNCHANGED <<aged, linked, esc, log, clock>>
      /\ tier[c] = Absent /\ req[w].step = "idle"
  BY DEF CInv, TypeOK, SaveInsert, Stored
<1>2. /\ R.step = "saveTier" /\ R.item = c /\ R.hold = {} /\ R.doomed = {}
      /\ R \in Request
  BY IdleType DEF Idle, Request, Steps
<1>3. TypeOK'
  BY <1>1, <1>2 DEF CInv, TypeOK
<1>4. ~Governed(c) /\ log[c] = <<>> /\ esc[c] = NoEscalation
  BY <1>1 DEF CInv, Control, ItemOK, Governed, Absent, Tiers
<1>5. req'[w] = R /\ \A v \in Workers \ {w} : req'[v] = req[v]
  BY <1>1
<1>6. RequestOK(w)' /\ SweepOK(w)'
  BY <1>1, <1>2, <1>4, <1>5 DEF RequestOK, SweepOK, SaveSteps, GovernedSteps
<1>7. \A d \in Content : tier[d] # Absent => tier'[d] = tier[d]
  BY <1>1
<1>8. \A v \in Workers : req[v].step = "saveTier"
        => tier[req[v].item] # Absent /\ req[v].item \in Content
  BY DEF CInv, Control, RequestOK, Absent, NoTier, SaveSteps
<1>9. \A d \in Content : Governed(d) => Governed(d)'
  BY <1>1, <1>7 DEF Governed, Absent, Tiers
<1>10. (\A v \in Workers : RequestOK(v))' /\ (\A v \in Workers : SweepOK(v))'
  BY <1>1, <1>5, <1>6, <1>7, <1>8, <1>9, Frame
<1>11. SavesApart'
  <2>1. \A v \in Workers \ {w} : req[v].step \in SaveSteps => req[v].item # c
    BY <1>4, <1>8, <1>1 DEF CInv, Control, RequestOK, SaveSteps, GovernedSteps
  <2> HIDE DEF R
  <2>2. \A v \in Workers \ {w} : req'[v].step \in SaveSteps => req'[v].item # c
    BY <2>1, <1>5
  <2>3. SavesApart
    BY DEF CInv, Control
  <2>4. QED BY <2>2, <2>3, <1>2, <1>5 DEF SavesApart
<1>12. (\A d \in Content : ItemOK(d))'
  BY <1>1, <1>4, <1>7 DEF CInv, Control, ItemOK, Governed, NoTier, Tiers, Absent
<1>13. QED BY <1>3, <1>10, <1>11, <1>12 DEF CInv, Control

\* A step that touches only the locals of one worker (and the clock).
LEMMA LocalStep ==
  ASSUME CInv, NEW w \in Workers,
         req' \in [Workers -> Request],
         \A v \in Workers \ {w} : req'[v] = req[v],
         clock' \in 0 .. MaxTickets,
         UNCHANGED <<tier, aged, linked, esc, log>>,
         RequestOK(w)', SweepOK(w)',
         req'[w].step \in SaveSteps
           => req[w].step \in SaveSteps /\ req'[w].item = req[w].item
  PROVE  CInv'
<1>1. TypeOK'
  BY DEF CInv, TypeOK
<1>2. (\A v \in Workers : RequestOK(v))' /\ (\A v \in Workers : SweepOK(v))'
  BY Frame DEF Governed
<1>3. SavesApart'
  BY SavesStayApart DEF CInv, Control
<1>4. (\A d \in Content : ItemOK(d))'
  BY DEF CInv, Control, ItemOK, Governed
<1>5. QED BY <1>1, <1>2, <1>3, <1>4 DEF CInv, Control

\* A worker that finishes owes nothing.
LEMMA FinishType ==
  ASSUME CInv, NEW w \in Workers, Finish(w)
  PROVE  /\ req' \in [Workers -> Request]
         /\ req'[w] = Idle
         /\ \A v \in Workers \ {w} : req'[v] = req[v]
         /\ RequestOK(w)' /\ SweepOK(w)'
         /\ SavesApart'
<1>1. req' = [req EXCEPT ![w] = Idle] /\ req \in [Workers -> Request]
  BY DEF CInv, TypeOK, Finish
<1>2. /\ req' \in [Workers -> Request]
      /\ req'[w] = Idle
      /\ \A v \in Workers \ {w} : req'[v] = req[v]
  BY <1>1, IdleType
<1>3. RequestOK(w)' /\ SweepOK(w)'
  BY <1>2 DEF RequestOK, SweepOK, Idle, SaveSteps, GovernedSteps
<1>4. SavesApart'
  BY <1>2, SavesStayApart DEF CInv, Control, Idle, SaveSteps
<1>5. QED BY <1>2, <1>3, <1>4

\* What the tier update and its event do to the row, the trail and the rest.
LEMMA CommitTierEffect ==
  ASSUME TypeOK, NEW i \in Content, NEW p \in Tiers, NEW t \in Tiers,
         NEW source \in {"save", "admin", "cleanup"},
         NEW at \in 0 .. MaxTickets,
         tier' = [tier EXCEPT ![i] = t],
         log' = [log EXCEPT ![i] = Append(@, [prev |-> p, new |-> t,
                                     source |-> source, at |-> at, done |-> clock])]
  PROVE  /\ tier' \in [Content -> Tiers \cup {NoTier, Absent}]
         /\ tier'[i] = t
         /\ \A c \in Content \ {i} : tier'[c] = tier[c] /\ log'[c] = log[c]
         /\ log' \in [Content -> Seq(Event)]
         /\ Len(log'[i]) = Len(log[i]) + 1
         /\ \A k \in 1 .. Len(log[i]) : log'[i][k] = log[i][k]
         /\ log'[i][Len(log'[i])].prev = p
         /\ log'[i][Len(log'[i])].new = t
         /\ log'[i][Len(log'[i])].done = clock
<1> DEFINE e == [prev |-> p, new |-> t, source |-> source, at |-> at,
                done |-> clock]
<1>1. e \in Event
  BY DEF Event, TypeOK
<1>2. log[i] \in Seq(Event) /\ log'[i] = Append(log[i], e)
  BY DEF TypeOK
<1>3. /\ log'[i] \in Seq(Event)
      /\ Len(log'[i]) = Len(log[i]) + 1
      /\ \A k \in 1 .. Len(log[i]) : log'[i][k] = log[i][k]
      /\ log'[i][Len(log'[i])] = e
  BY <1>1, <1>2
<1>4. log' \in [Content -> Seq(Event)]
  BY <1>3 DEF TypeOK
<1>5. QED BY <1>3, <1>4 DEF TypeOK

\* A commit of one governed item preserves the control invariant.
LEMMA CommitStep ==
  ASSUME CInv, NEW w \in Workers, Finish(w),
         NEW i \in Content, Governed(i),
         NEW p \in Tiers, NEW t \in Tiers,
         NEW source \in {"save", "admin", "cleanup"},
         NEW at \in 0 .. MaxTickets,
         tier' = [tier EXCEPT ![i] = t],
         log' = [log EXCEPT ![i] = Append(@, [prev |-> p, new |-> t,
                                     source |-> source, at |-> at, done |-> clock])],
         esc' \in [Content -> Escalation \cup {NoEscalation}],
         \A c \in Content \ {i} : esc'[c] = esc[c],
         \/ esc'[i] = esc[i]
         \/ esc'[i] \in Escalation
            /\ (esc[i] \in Escalation \/ (req[w].step \in SaveSteps /\ req[w].item = i)),
         UNCHANGED <<aged, linked, clock>>
  PROVE  CInv'
<1>0. esc[i] \in Escalation => esc[i] # NoEscalation
  BY DEF Escalation, EscalationStatuses, NoEscalation
<1>1. TypeOK
  BY DEF CInv
<1>2. /\ tier' \in [Content -> Tiers \cup {NoTier, Absent}]
      /\ tier'[i] = t
      /\ \A c \in Content \ {i} : tier'[c] = tier[c] /\ log'[c] = log[c]
      /\ log' \in [Content -> Seq(Event)]
      /\ Len(log'[i]) = Len(log[i]) + 1
      /\ \A k \in 1 .. Len(log[i]) : log'[i][k] = log[i][k]
      /\ log'[i][Len(log'[i])].prev = p
      /\ log'[i][Len(log'[i])].new = t
  BY <1>1, CommitTierEffect
<1>3. /\ req' \in [Workers -> Request]
      /\ req'[w] = Idle
      /\ \A v \in Workers \ {w} : req'[v] = req[v]
      /\ RequestOK(w)' /\ SweepOK(w)'
      /\ SavesApart'
  BY FinishType
<1>4. TypeOK'
  BY <1>1, <1>2, <1>3 DEF TypeOK
<1>5. \A v \in Workers \ {w} :
        /\ req[v].step = "saveTier" => req[v].item \in Content \ {i}
        /\ req[v].step \in SaveSteps => esc'[req[v].item] = esc[req[v].item]
  <2> SUFFICES ASSUME NEW v \in Workers \ {w}, req[v].step \in SaveSteps
               PROVE  /\ req[v].step = "saveTier" => req[v].item \in Content \ {i}
                      /\ esc'[req[v].item] = esc[req[v].item]
    BY DEF SaveSteps
  <2>1. RequestOK(v) /\ req[v].item \in Content
    BY DEF CInv, Control, RequestOK
  <2>2. req[v].step = "saveTier" => req[v].item # i
    BY <2>1 DEF RequestOK, Governed, NoTier, Tiers
  <2>3. CASE req[v].item # i
    BY <2>1, <2>2, <2>3
  <2>4. CASE req[v].item = i
    <3>1. esc[i] = NoEscalation
      BY <2>1, <2>4 DEF RequestOK
    <3>2. ~(req[w].step \in SaveSteps /\ req[w].item = i)
      BY <2>4 DEF CInv, Control, SavesApart
    <3>3. QED BY <2>2, <2>4, <3>1, <3>2, <1>0
  <2>5. QED BY <2>3, <2>4
<1>6. \A c \in Content : Governed(c) => Governed(c)'
  BY <1>2 DEF Governed
<1>7. \A c \in Content : esc[c] \in Escalation => esc'[c] \in Escalation
  OBVIOUS
<1>8. (\A v \in Workers : RequestOK(v))' /\ (\A v \in Workers : SweepOK(v))'
  BY <1>2, <1>3, <1>5, <1>6, <1>7, Frame
<1>9. (\A c \in Content : ItemOK(c))'
  <2> SUFFICES ASSUME NEW c \in Content PROVE ItemOK(c)'
    OBVIOUS
  <2>1. CASE c # i
    BY <2>1, <1>2 DEF CInv, Control, ItemOK, Governed
  <2>2. CASE c = i
    <3>1. Governed(i)'
      BY <1>2 DEF Governed
    <3>2. ItemOK(i) /\ log[i] \in Seq(Event) /\ log'[i] \in Seq(Event)
      BY <1>2 DEF CInv, Control, TypeOK
    <3>3. \A k \in DOMAIN log'[i] : log'[i][k].prev \in Tiers
      BY <1>2, <3>2 DEF ItemOK
    <3>4. QED BY <2>2, <3>1, <3>3 DEF ItemOK
  <2>3. QED BY <2>1, <2>2
<1>10. QED BY <1>3, <1>4, <1>8, <1>9 DEF CInv, Control

-----------------------------------------------------------------------------
(* Every step preserves the control invariant.                             *)

LEMMA SaveTierStep ==
  ASSUME CInv, NEW w \in Workers, SaveTier(w)
  PROVE  CInv'
<1> DEFINE i == req[w].item
<1>1. PICK t \in RoutedTiers : tier' = [tier EXCEPT ![i] = t]
  BY DEF SaveTier
<1>2. t \in Tiers
  BY DEF RoutedTiers, Tiers
<1>3. i \in Content /\ tier[i] = NoTier /\ esc[i] = NoEscalation
  BY DEF CInv, Control, RequestOK, SaveTier, SaveSteps
<1>4. log[i] = <<>>
  BY <1>3 DEF CInv, Control, ItemOK, Governed, NoTier, Tiers
<1>5. /\ req' = [req EXCEPT ![w].step = "saveDetect"]
      /\ req \in [Workers -> Request] /\ req[w] \in Request
      /\ req[w].step = "saveTier"
  BY DEF SaveTier, CInv, TypeOK
<1>6. /\ req'[w].step = "saveDetect" /\ req'[w].item = i
      /\ req'[w].hold = req[w].hold /\ req'[w].doomed = req[w].doomed
      /\ req' \in [Workers -> Request]
      /\ \A v \in Workers \ {w} : req'[v] = req[v]
  BY <1>5 DEF Request, Steps
<1>7. TypeOK'
  BY <1>1, <1>2, <1>6 DEF CInv, TypeOK, SaveTier
<1>8. tier'[i] = t /\ \A c \in Content \ {i} : tier'[c] = tier[c]
  BY <1>1, <1>3 DEF CInv, TypeOK
<1>9. \A c \in Content : Governed(c) => Governed(c)'
  BY <1>2, <1>8 DEF Governed
<1>10. RequestOK(w)' /\ SweepOK(w)'
  <2>1. RequestOK(w)'
    BY <1>2, <1>3, <1>6, <1>8 DEF RequestOK, Governed, SaveTier, SaveSteps, GovernedSteps
  <2>2. SweepOK(w)
    BY DEF CInv, Control
  <2>3. SweepOK(w)'
    BY <2>2, <1>5, <1>6, <1>9 DEF SweepOK, SaveTier, Request
  <2>4. QED BY <2>1, <2>3
<1>11. \A v \in Workers \ {w} : req[v].step \in SaveSteps
         => req[v].item # i /\ req[v].item \in Content
  BY <1>5 DEF CInv, Control, SavesApart, RequestOK, SaveSteps
<1>12. (\A v \in Workers : RequestOK(v))' /\ (\A v \in Workers : SweepOK(v))'
  BY <1>6, <1>8, <1>9, <1>10, <1>11, Frame DEF SaveTier, SaveSteps
<1>13. SavesApart'
  BY <1>5, <1>6, SavesStayApart DEF CInv, Control, SaveSteps
<1>14. (\A c \in Content : ItemOK(c))'
  BY <1>2, <1>3, <1>4, <1>8 DEF CInv, Control, ItemOK, Governed, SaveTier
<1>15. QED BY <1>7, <1>12, <1>13, <1>14 DEF CInv, Control

LEMMA SaveEscalateStep ==
  ASSUME CInv, NEW w \in Workers, SaveEscalate(w)
  PROVE  CInv'
<1> DEFINE r == req[w]
           i == req[w].item
           e == [status |-> "pending", severity |-> r.aim, due |-> FALSE]
<1>1. /\ r \in Request /\ r.step = "saveEscalate" /\ i \in Content /\ Governed(i)
      /\ r.aim \in Severities /\ (Quarantines(r.aim) => r.prev \in Tiers)
      /\ esc[i] = NoEscalation
  BY DEF CInv, TypeOK, Control, RequestOK, SaveEscalate, SaveSteps, GovernedSteps
<1>2. e \in Escalation
  BY <1>1 DEF Escalation, EscalationStatuses
<1>3. /\ esc' = [esc EXCEPT ![i] = e] /\ Finish(w) /\ UNCHANGED <<aged, linked, clock>>
      /\ esc \in [Content -> Escalation \cup {NoEscalation}]
  BY DEF SaveEscalate, CInv, TypeOK
<1>4. /\ esc' \in [Content -> Escalation \cup {NoEscalation}]
      /\ esc'[i] = e
      /\ \A c \in Content \ {i} : esc'[c] = esc[c]
  BY <1>1, <1>2, <1>3
<1>5. CASE Quarantines(r.aim)
  <2> DEFINE q == [r EXCEPT !.aim = "conflicted"]
  <2>1. CommitTier(q, "save")
    BY <1>5 DEF SaveEscalate
  <2>2. q.item = i /\ q.aim = "conflicted" /\ q.prev = r.prev /\ q.at = r.at
    BY <1>1 DEF Request
  <2>3. /\ tier' = [tier EXCEPT ![i] = "conflicted"]
        /\ log' = [log EXCEPT ![i] = Append(@, [prev |-> r.prev, new |-> "conflicted",
                                          source |-> "save", at |-> r.at,
                                          done |-> clock])]
    BY <2>1, <2>2 DEF CommitTier
  <2>4. r.prev \in Tiers /\ "conflicted" \in Tiers /\ r.at \in 0 .. MaxTickets
    BY <1>1, <1>5, RequestFields DEF Tiers
  <2>5. "save" \in {"save", "admin", "cleanup"} /\ r.step \in SaveSteps
    BY <1>1 DEF SaveSteps
  <2> HIDE DEF r, i, e, q
  <2>6. QED BY <1>1, <1>2, <1>3, <1>4, <2>3, <2>4, <2>5, CommitStep DEF r, i
<1>6. CASE ~Quarantines(r.aim)
  <2>1. UNCHANGED <<tier, log>>
    BY <1>6 DEF SaveEscalate
  <2>2. /\ req' \in [Workers -> Request]
        /\ req'[w] = Idle
        /\ \A v \in Workers \ {w} : req'[v] = req[v]
        /\ RequestOK(w)' /\ SweepOK(w)'
        /\ SavesApart'
    BY <1>3, FinishType
  <2>3. TypeOK'
    BY <1>3, <1>4, <2>1, <2>2 DEF CInv, TypeOK
  <2>4. \A v \in Workers \ {w} : req[v].step \in SaveSteps
           => req[v].item # i /\ req[v].item \in Content
    BY <1>1 DEF CInv, Control, SavesApart, RequestOK, SaveSteps
  <2>5. (\A v \in Workers : RequestOK(v))' /\ (\A v \in Workers : SweepOK(v))'
    BY <1>2, <1>4, <2>1, <2>2, <2>4, Frame DEF Governed
  <2>6. (\A c \in Content : ItemOK(c))'
    BY <1>1, <1>4, <2>1 DEF CInv, Control, ItemOK, Governed
  <2>7. QED BY <2>2, <2>3, <2>5, <2>6 DEF CInv, Control
<1>7. QED BY <1>5, <1>6

LEMMA ResolveCommitStep ==
  ASSUME CInv, NEW w \in Workers, ResolveCommit(w)
  PROVE  CInv'
<1> DEFINE r == req[w]
           i == req[w].item
           s == IF r.aim = "persistent" THEN "approved" ELSE "rejected"
<1>1. /\ r \in Request /\ i \in Content /\ Governed(i)
      /\ r.aim \in Tiers /\ r.prev \in Tiers /\ esc[i] \in Escalation
      /\ r.at \in 0 .. MaxTickets
  BY RequestFields DEF CInv, TypeOK, Control, RequestOK, ResolveCommit, GovernedSteps
<1>2. /\ esc' = [esc EXCEPT ![i].status = s]
      /\ esc \in [Content -> Escalation \cup {NoEscalation}]
  BY DEF ResolveCommit, CInv, TypeOK
<1>3. /\ Finish(w)
      /\ UNCHANGED <<aged, linked, clock>>
      /\ tier' = [tier EXCEPT ![i] = r.aim]
      /\ log' = [log EXCEPT ![i] = Append(@, [prev |-> r.prev, new |-> r.aim,
                                        source |-> "admin", at |-> r.at,
                                        done |-> clock])]
  BY DEF ResolveCommit, CommitTier
<1>4. esc'[i] \in Escalation
  BY <1>1, <1>2 DEF Escalation, EscalationStatuses
<1>5. esc' \in [Content -> Escalation \cup {NoEscalation}]
  BY <1>2, <1>4
<1>6. \A c \in Content \ {i} : esc'[c] = esc[c]
  BY <1>2
<1>7. "admin" \in {"save", "admin", "cleanup"}
  OBVIOUS
<1>8. \/ esc'[i] = esc[i]
      \/ /\ esc'[i] \in Escalation
         /\ esc[i] \in Escalation \/ (r.step \in SaveSteps /\ r.item = i)
  BY <1>1, <1>4
<1>9. /\ Governed(i) /\ i \in Content /\ r.aim \in Tiers /\ r.prev \in Tiers
      /\ r.at \in 0 .. MaxTickets
  BY <1>1
<1> HIDE DEF r, i, s
<1>10. QED BY <1>3, <1>5, <1>6, <1>7, <1>8, <1>9, CommitStep DEF r

LEMMA PlainCommitStep ==
  ASSUME CInv, NEW w \in Workers,
         req[w].step \in {"overrideCommit", "rollbackCommit"},
         CommitTier(req[w], "admin"), Finish(w),
         UNCHANGED <<aged, linked, esc, clock>>
  PROVE  CInv'
<1> DEFINE r == req[w]
           i == req[w].item
<1>1. /\ r \in Request /\ i \in Content /\ Governed(i)
      /\ r.aim \in Tiers /\ r.prev \in Tiers /\ r.at \in 0 .. MaxTickets
  BY RequestFields DEF CInv, TypeOK, Control, RequestOK, GovernedSteps
<1>2. /\ tier' = [tier EXCEPT ![i] = r.aim]
      /\ log' = [log EXCEPT ![i] = Append(@, [prev |-> r.prev, new |-> r.aim,
                                        source |-> "admin", at |-> r.at,
                                        done |-> clock])]
  BY DEF CommitTier
<1>3. esc' \in [Content -> Escalation \cup {NoEscalation}] /\ esc' = esc
  BY DEF CInv, TypeOK
<1>4. "admin" \in {"save", "admin", "cleanup"}
  OBVIOUS
<1> HIDE DEF r, i
<1>5. QED BY <1>1, <1>2, <1>3, <1>4, CommitStep

\* The steps that only read: each records what it has seen in the locals.
LEMMA ReadSteps ==
  ASSUME CInv, NEW w \in Workers
  PROVE  /\ SaveDetectNothing(w) \/ Abort(w) => CInv'
         /\ \A s \in Severities : SaveDetectConflict(w, s) => CInv'
         /\ SaveReadTier(w) => CInv'
         /\ \A c \in Content, d \in {"approved", "rejected"} :
              ResolveFetch(w, c, d) => CInv'
         /\ ResolveRead(w) => CInv'
         /\ \A c \in Content, t \in OverrideTiers : OverrideRead(w, c, t) => CInv'
         /\ \A c \in Content : RollbackRead(w, c) => CInv'
         /\ RollbackReadLog(w) => CInv'
<1> DEFINE r == req[w]
<1>0. /\ r \in Request /\ req \in [Workers -> Request]
      /\ RequestOK(w) /\ SweepOK(w)
      /\ clock \in 0 .. MaxTickets
      /\ tier \in [Content -> Tiers \cup {NoTier, Absent}]
  BY DEF CInv, TypeOK, Control
<1>clock. clock < MaxTickets => clock + 1 \in 0 .. MaxTickets
  BY <1>0, MaxTicketsAssumption
<1>1. ASSUME SaveDetectNothing(w) \/ Abort(w) PROVE CInv'
  <2>1. Finish(w) /\ UNCHANGED <<tier, aged, linked, esc, log, clock>>
    BY <1>1 DEF SaveDetectNothing, Abort
  <2>2. QED
    BY <1>0, <2>1, FinishType, LocalStep DEF Idle, SaveSteps
<1>2. ASSUME NEW s \in Severities, SaveDetectConflict(w, s) PROVE CInv'
  <2> DEFINE R == [r EXCEPT !.step = "saveQuarantine", !.aim = s, !.at = clock]
  <2>1. /\ clock < MaxTickets /\ clock' = clock + 1
        /\ req' = [req EXCEPT ![w] = R] /\ r.step = "saveDetect"
        /\ UNCHANGED <<tier, aged, linked, esc, log>>
    BY <1>2 DEF SaveDetectConflict, Begin
  <2>2. r.item \in Content /\ Governed(r.item) /\ esc[r.item] = NoEscalation
    BY <1>0, <2>1 DEF RequestOK, SaveSteps, GovernedSteps
  <2>3. /\ R \in Request /\ R.step = "saveQuarantine" /\ R.item = r.item
        /\ R.aim = s /\ R.hold = r.hold /\ R.doomed = r.doomed
    BY <1>0 DEF Request, Steps
  <2>4. req'[w] = R /\ req' \in [Workers -> Request]
        /\ \A v \in Workers \ {w} : req'[v] = req[v]
    BY <1>0, <2>1, <2>3
  <2> HIDE DEF R
  <2>5. RequestOK(w)' /\ SweepOK(w)'
    BY <1>0, <2>1, <2>2, <2>3, <2>4
    DEF RequestOK, SweepOK, SaveSteps, GovernedSteps, Governed
  <2>6. QED
    BY <1>clock, <2>1, <2>3, <2>4, <2>5, LocalStep DEF SaveSteps
<1>9. ASSUME SaveReadTier(w) PROVE CInv'
  <2> DEFINE p == IF Quarantines(r.aim) THEN tier[r.item] ELSE NoTier
             R == [r EXCEPT !.step = "saveEscalate", !.prev = p]
  <2>1. /\ req' = [req EXCEPT ![w] = R] /\ r.step = "saveQuarantine"
        /\ UNCHANGED <<tier, aged, linked, esc, log, clock>>
    BY <1>0, <1>9 DEF SaveReadTier, Request
  <2>2. /\ r.item \in Content /\ Governed(r.item) /\ esc[r.item] = NoEscalation
        /\ r.aim \in Severities
    BY <1>0, <2>1 DEF RequestOK, SaveSteps, GovernedSteps
  <2>3. /\ R \in Request /\ R.step = "saveEscalate" /\ R.item = r.item
        /\ R.aim = r.aim /\ R.hold = r.hold /\ R.doomed = r.doomed
        /\ Quarantines(r.aim) => R.prev \in Tiers
    BY <1>0, <2>2 DEF Request, Steps, Governed
  <2>4. req'[w] = R /\ req' \in [Workers -> Request]
        /\ \A v \in Workers \ {w} : req'[v] = req[v]
    BY <1>0, <2>1, <2>3
  <2> HIDE DEF R, p
  <2>5. RequestOK(w)' /\ SweepOK(w)'
    BY <1>0, <2>1, <2>2, <2>3, <2>4
    DEF RequestOK, SweepOK, SaveSteps, GovernedSteps, Governed, Quarantines
  <2>6. QED
    BY <1>0, <2>1, <2>3, <2>4, <2>5, LocalStep DEF SaveSteps
<1>3. ASSUME NEW c \in Content, NEW d \in {"approved", "rejected"},
             ResolveFetch(w, c, d)
      PROVE  CInv'
  <2> DEFINE t == IF d = "approved" THEN "persistent" ELSE "archived"
             R == [Idle EXCEPT !.step = "resolveRead", !.item = c,
                               !.aim = t, !.at = clock]
  <2>1. /\ clock < MaxTickets /\ clock' = clock + 1
        /\ req' = [req EXCEPT ![w] = R] /\ Resolvable(c)
        /\ UNCHANGED <<tier, aged, linked, esc, log>>
    BY <1>3 DEF ResolveFetch, Begin, Idle
  <2>2. Governed(c) /\ esc[c] \in Escalation
    BY <2>1 DEF CInv, TypeOK, Control, ItemOK, Resolvable, NoEscalation
  <2>3. /\ R \in Request /\ R.step = "resolveRead" /\ R.item = c
        /\ R.aim = t /\ t \in Tiers /\ R.hold = {} /\ R.doomed = {}
    <3>1. t \in Tiers
      BY DEF Tiers
    <3> HIDE DEF t
    <3>2. R \in Request
      BY <1>0, <3>1, IdleType DEF Request, Steps
    <3>3. /\ R.step = "resolveRead" /\ R.item = c /\ R.aim = t
          /\ R.hold = Idle.hold /\ R.doomed = Idle.doomed
      BY IdleType DEF Request
    <3> QED
      BY <3>1, <3>2, <3>3 DEF Idle
  <2>4. req'[w] = R /\ req' \in [Workers -> Request]
        /\ \A v \in Workers \ {w} : req'[v] = req[v]
    BY <1>0, <2>1, <2>3
  <2> HIDE DEF R, t
  <2>5. RequestOK(w)' /\ SweepOK(w)'
    BY <2>1, <2>2, <2>3, <2>4
    DEF RequestOK, SweepOK, SaveSteps, GovernedSteps, Governed
  <2>6. QED
    BY <1>clock, <2>1, <2>3, <2>4, <2>5, LocalStep DEF SaveSteps
<1>4. ASSUME ResolveRead(w) PROVE CInv'
  <2> DEFINE R == [r EXCEPT !.step = "resolveCommit", !.prev = tier[r.item]]
  <2>1. /\ req' = [req EXCEPT ![w] = R] /\ r.step = "resolveRead"
        /\ UNCHANGED <<tier, aged, linked, esc, log, clock>>
    BY <1>0, <1>4 DEF ResolveRead, Request
  <2>2. /\ r.item \in Content /\ Governed(r.item) /\ esc[r.item] \in Escalation
        /\ r.aim \in Tiers
    BY <1>0, <2>1 DEF RequestOK, GovernedSteps
  <2>3. /\ R \in Request /\ R.step = "resolveCommit" /\ R.item = r.item
        /\ R.aim = r.aim /\ R.prev \in Tiers
        /\ R.hold = r.hold /\ R.doomed = r.doomed
    BY <1>0, <2>2 DEF Request, Steps, Governed
  <2>4. req'[w] = R /\ req' \in [Workers -> Request]
        /\ \A v \in Workers \ {w} : req'[v] = req[v]
    BY <1>0, <2>1, <2>3
  <2> HIDE DEF R
  <2>5. RequestOK(w)' /\ SweepOK(w)'
    BY <1>0, <2>1, <2>2, <2>3, <2>4
    DEF RequestOK, SweepOK, SaveSteps, GovernedSteps, Governed
  <2>6. QED
    BY <1>0, <2>1, <2>3, <2>4, <2>5, LocalStep DEF SaveSteps
<1>5. ASSUME NEW c \in Content, NEW t \in OverrideTiers, OverrideRead(w, c, t)
      PROVE  CInv'
  <2> DEFINE R == [Idle EXCEPT !.step = "overrideCommit", !.item = c,
                               !.prev = tier[c], !.aim = t, !.at = clock]
  <2>1. /\ clock < MaxTickets /\ clock' = clock + 1
        /\ req' = [req EXCEPT ![w] = R] /\ Governed(c)
        /\ UNCHANGED <<tier, aged, linked, esc, log>>
    BY <1>5 DEF OverrideRead, Begin, Idle
  <2>2. t \in Tiers
    BY DEF OverrideTiers, Tiers
  <2>3. /\ R \in Request /\ R.step = "overrideCommit" /\ R.item = c
        /\ R.aim = t /\ R.prev \in Tiers /\ R.hold = {} /\ R.doomed = {}
    BY <1>0, <2>1, <2>2, IdleType DEF Request, Steps, Idle, Governed
  <2>4. req'[w] = R /\ req' \in [Workers -> Request]
        /\ \A v \in Workers \ {w} : req'[v] = req[v]
    BY <1>0, <2>1, <2>3
  <2> HIDE DEF R
  <2>5. RequestOK(w)' /\ SweepOK(w)'
    BY <2>1, <2>2, <2>3, <2>4
    DEF RequestOK, SweepOK, SaveSteps, GovernedSteps, Governed
  <2>6. QED
    BY <1>clock, <2>1, <2>3, <2>4, <2>5, LocalStep DEF SaveSteps
<1>6. ASSUME NEW c \in Content, RollbackRead(w, c) PROVE CInv'
  <2> DEFINE R == [Idle EXCEPT !.step = "rollbackRead", !.item = c,
                               !.prev = tier[c], !.at = clock]
  <2>1. /\ clock < MaxTickets /\ clock' = clock + 1
        /\ req' = [req EXCEPT ![w] = R] /\ Governed(c)
        /\ UNCHANGED <<tier, aged, linked, esc, log>>
    BY <1>6 DEF RollbackRead, Begin, Idle
  <2>3. /\ R \in Request /\ R.step = "rollbackRead" /\ R.item = c
        /\ R.prev \in Tiers /\ R.hold = {} /\ R.doomed = {}
    BY <1>0, <2>1, IdleType DEF Request, Steps, Idle, Governed
  <2>4. req'[w] = R /\ req' \in [Workers -> Request]
        /\ \A v \in Workers \ {w} : req'[v] = req[v]
    BY <1>0, <2>1, <2>3
  <2> HIDE DEF R
  <2>5. RequestOK(w)' /\ SweepOK(w)'
    BY <2>1, <2>3, <2>4
    DEF RequestOK, SweepOK, SaveSteps, GovernedSteps, Governed
  <2>6. QED
    BY <1>clock, <2>1, <2>3, <2>4, <2>5, LocalStep DEF SaveSteps
<1>7. ASSUME RollbackReadLog(w) PROVE CInv'
  <2>1. /\ r.step = "rollbackRead"
        /\ UNCHANGED <<tier, aged, linked, esc, log, clock>>
    BY <1>7 DEF RollbackReadLog
  <2>2. CASE Finish(w)
    BY <1>0, <2>1, <2>2, FinishType, LocalStep DEF Idle, SaveSteps
  <2>3. ASSUME NEW e \in LatestEvents(r.item), RollbackAllowed(r.prev, e),
               req' = [req EXCEPT ![w].step = "rollbackCommit", ![w].aim = e.prev]
        PROVE  CInv'
    <3> DEFINE R == [r EXCEPT !.step = "rollbackCommit", !.aim = e.prev]
    <3>1. req' = [req EXCEPT ![w] = R]
      BY <1>0, <2>3 DEF Request
    <3>2. r.item \in Content /\ Governed(r.item) /\ r.prev \in Tiers
      BY <1>0, <2>1 DEF RequestOK, GovernedSteps
    <3>3. e.prev \in Tiers
      BY <2>3 DEF RollbackAllowed, CleanupArchiveRollback
    <3>4. /\ R \in Request /\ R.step = "rollbackCommit" /\ R.item = r.item
          /\ R.aim = e.prev /\ R.prev = r.prev
          /\ R.hold = r.hold /\ R.doomed = r.doomed
      BY <1>0, <3>3 DEF Request, Steps
    <3>5. req'[w] = R /\ req' \in [Workers -> Request]
          /\ \A v \in Workers \ {w} : req'[v] = req[v]
      BY <1>0, <3>1, <3>4
    <3> HIDE DEF R
    <3>6. RequestOK(w)' /\ SweepOK(w)'
      BY <1>0, <2>1, <3>2, <3>3, <3>4, <3>5
      DEF RequestOK, SweepOK, SaveSteps, GovernedSteps, Governed
    <3>7. QED
      BY <1>0, <2>1, <3>4, <3>5, <3>6, LocalStep DEF SaveSteps
  <2>4. QED BY <1>7, <2>2, <2>3 DEF RollbackReadLog
<1>8. QED BY <1>1, <1>2, <1>9, <1>3, <1>4, <1>5, <1>6, <1>7

\* The steps of a cleanup before it commits.
LEMMA SweepSteps ==
  ASSUME CInv, NEW w \in Workers
  PROVE  /\ CleanupStart(w) => CInv'
         /\ CleanupExpire(w) => CInv'
         /\ CleanupScan(w) => CInv'
         /\ \A c \in Content : CleanupCheck(w, c) => CInv'
         /\ CleanupArchive(w) => CInv'
<1> DEFINE r == req[w]
<1>0. /\ r \in Request /\ req \in [Workers -> Request]
      /\ RequestOK(w) /\ SweepOK(w)
      /\ clock \in 0 .. MaxTickets /\ aged \subseteq Content
  BY DEF CInv, TypeOK, Control
<1>1. ASSUME CleanupStart(w) PROVE CInv'
  <2> DEFINE R == [Idle EXCEPT !.step = "cleanupExpire",
                     !.hold = StaleEscalations, !.todo = aged, !.at = clock]
  <2>1. /\ clock < MaxTickets /\ clock' = clock + 1
        /\ req' = [req EXCEPT ![w] = R]
        /\ UNCHANGED <<tier, aged, linked, esc, log>>
    BY <1>1 DEF CleanupStart, Begin, Idle
  <2>2. /\ StaleEscalations \subseteq Content
        /\ \A c \in StaleEscalations : esc[c] \in Escalation
    BY DEF StaleEscalations, CInv, TypeOK, NoEscalation
  <2>3. clock + 1 \in 0 .. MaxTickets
    BY <1>0, <2>1, MaxTicketsAssumption
  <2>4. /\ R \in Request /\ R.step = "cleanupExpire" /\ R.item = NoItem
        /\ R.hold = StaleEscalations /\ R.doomed = {}
    BY <1>0, <2>2, IdleType DEF Request, Steps, Idle
  <2>5. req'[w] = R /\ req' \in [Workers -> Request]
        /\ \A v \in Workers \ {w} : req'[v] = req[v]
    BY <1>0, <2>1, <2>4
  <2> HIDE DEF R
  <2>6. RequestOK(w)' /\ SweepOK(w)'
    BY <2>1, <2>2, <2>4, <2>5 DEF RequestOK, SweepOK, SaveSteps, GovernedSteps
  <2>7. QED
    BY <2>1, <2>3, <2>4, <2>5, <2>6, LocalStep DEF SaveSteps
<1>2. ASSUME CleanupExpire(w) PROVE CInv'
  <2> DEFINE R == [r EXCEPT !.step = "cleanupScan"]
  <2>1. /\ req' = [req EXCEPT ![w] = R] /\ r.step = "cleanupExpire"
        /\ UNCHANGED <<tier, aged, linked, esc, log, clock>>
    BY <1>2 DEF CleanupExpire
  <2>2. /\ R \in Request /\ R.step = "cleanupScan" /\ R.item = r.item
        /\ R.hold = r.hold /\ R.doomed = r.doomed
    BY <1>0 DEF Request, Steps
  <2>3. req'[w] = R /\ req' \in [Workers -> Request]
        /\ \A v \in Workers \ {w} : req'[v] = req[v]
    BY <1>0, <2>1, <2>2
  <2> HIDE DEF R
  <2>4. RequestOK(w)' /\ SweepOK(w)'
    BY <1>0, <2>1, <2>2, <2>3
    DEF RequestOK, SweepOK, SaveSteps, GovernedSteps, Governed
  <2>5. QED
    BY <1>0, <2>1, <2>2, <2>3, <2>4, LocalStep DEF SaveSteps
<1>3. ASSUME CleanupScan(w) PROVE CInv'
  <2> DEFINE R == [r EXCEPT !.step = "cleanupSweep",
                            !.todo = CleanupCandidates(r.todo)]
  <2>1. /\ req' = [req EXCEPT ![w] = R] /\ r.step = "cleanupScan"
        /\ UNCHANGED <<tier, aged, linked, esc, log, clock>>
    BY <1>0, <1>3 DEF CleanupScan, Request
  <2>2. /\ R \in Request /\ R.step = "cleanupSweep" /\ R.item = r.item
        /\ R.todo = CleanupCandidates(r.todo)
        /\ R.hold = r.hold /\ R.doomed = r.doomed
    BY <1>0 DEF Request, Steps, CleanupCandidates
  <2>3. req'[w] = R /\ req' \in [Workers -> Request]
        /\ \A v \in Workers \ {w} : req'[v] = req[v]
    BY <1>0, <2>1, <2>2
  <2>4. \A c \in R.todo : Governed(c)
    BY <2>2 DEF CleanupCandidates, Governed, Tiers
  <2>5. r.item = NoItem
    BY <1>0, <2>1 DEF SweepOK
  <2> HIDE DEF R
  <2>6. RequestOK(w)' /\ SweepOK(w)'
    BY <1>0, <2>1, <2>2, <2>3, <2>4, <2>5
    DEF RequestOK, SweepOK, SaveSteps, GovernedSteps, Governed
  <2>7. QED
    BY <1>0, <2>1, <2>2, <2>3, <2>6, LocalStep DEF SaveSteps
<1>4. ASSUME NEW c \in Content, CleanupCheck(w, c) PROVE CInv'
  <2> DEFINE i == IF Expendable(w, c) THEN c ELSE NoItem
             R == [r EXCEPT !.todo = @ \ {c}, !.item = i]
  <2>1. /\ req' = [req EXCEPT ![w] = R] /\ r.step = "cleanupSweep"
        /\ c \in r.todo
        /\ UNCHANGED <<tier, aged, linked, esc, log, clock>>
    BY <1>0, <1>4 DEF CleanupCheck, Request
  <2>2. /\ R \in Request /\ R.step = "cleanupSweep" /\ R.item \in {c, NoItem}
        /\ R.todo = r.todo \ {c} /\ R.hold = r.hold /\ R.doomed = r.doomed
    BY <1>0, <2>1 DEF Request, Steps
  <2>3. req'[w] = R /\ req' \in [Workers -> Request]
        /\ \A v \in Workers \ {w} : req'[v] = req[v]
    BY <1>0, <2>1, <2>2
  <2> HIDE DEF R, i
  <2>4. RequestOK(w)' /\ SweepOK(w)'
    BY <1>0, <2>1, <2>2, <2>3
    DEF RequestOK, SweepOK, SaveSteps, GovernedSteps, Governed
  <2>5. QED
    BY <1>0, <2>1, <2>2, <2>3, <2>4, LocalStep DEF SaveSteps
<1>5. ASSUME CleanupArchive(w) PROVE CInv'
  <2> DEFINE R == [r EXCEPT !.doomed = @ \cup {r.item}, !.item = NoItem]
  <2>1. /\ req' = [req EXCEPT ![w] = R] /\ r.step = "cleanupSweep"
        /\ r.item # NoItem
        /\ UNCHANGED <<tier, aged, linked, esc, log, clock>>
    BY <1>0, <1>5 DEF CleanupArchive, Request
  <2>2. /\ R \in Request /\ R.step = "cleanupSweep" /\ R.item = NoItem
        /\ R.todo = r.todo /\ R.hold = r.hold
        /\ R.doomed = r.doomed \cup {r.item}
    BY <1>0, <2>1 DEF Request, Steps
  <2>3. req'[w] = R /\ req' \in [Workers -> Request]
        /\ \A v \in Workers \ {w} : req'[v] = req[v]
    BY <1>0, <2>1, <2>2
  <2> HIDE DEF R
  <2>4. RequestOK(w)' /\ SweepOK(w)'
    BY <1>0, <2>1, <2>2, <2>3
    DEF RequestOK, SweepOK, SaveSteps, GovernedSteps, Governed
  <2>5. QED
    BY <1>0, <2>1, <2>2, <2>3, <2>4, LocalStep DEF SaveSteps
<1>6. QED BY <1>1, <1>2, <1>3, <1>4, <1>5

\* What the commit of a cleanup does to one item.
LEMMA CleanupCommitEffect ==
  ASSUME CInv, NEW w \in Workers, CleanupCommit(w), NEW c \in Content
  PROVE  /\ tier'[c] = IF c \in req[w].doomed THEN "archived" ELSE tier[c]
         /\ esc'[c] \in Escalation \cup {NoEscalation}
         /\ esc[c] = NoEscalation => esc'[c] = NoEscalation
         /\ esc[c] \in Escalation => esc'[c] \in Escalation
         /\ esc'[c].severity = esc[c].severity
         /\ log'[c] \in Seq(Event)
         /\ c \notin req[w].doomed => log'[c] = log[c]
         /\ c \in req[w].doomed =>
              /\ Len(log'[c]) = Len(log[c]) + 1
              /\ \A k \in 1 .. Len(log[c]) : log'[c][k] = log[c][k]
              /\ log'[c][Len(log'[c])].prev = "transient"
              /\ log'[c][Len(log'[c])].new = "archived"
              /\ log'[c][Len(log'[c])].done = clock
<1> DEFINE r == req[w]
           e == [prev |-> "transient", new |-> "archived",
                 source |-> "cleanup", at |-> r.at, done |-> clock]
<1>1. /\ r \in Request /\ esc[c] \in Escalation \cup {NoEscalation}
      /\ log[c] \in Seq(Event)
      /\ \A d \in r.hold : esc[d] \in Escalation
  BY DEF CInv, TypeOK, Control, SweepOK
<1>2. e \in Event
  BY <1>1, RequestFields DEF CInv, TypeOK, Event, Tiers
<1>3. tier'[c] = IF c \in r.doomed THEN "archived" ELSE tier[c]
  BY DEF CleanupCommit
<1>4. esc'[c] = IF c \in r.hold THEN [esc[c] EXCEPT !.status = "expired"]
                                ELSE esc[c]
  BY DEF CleanupCommit
<1>5. log'[c] = IF c \in r.doomed THEN Append(log[c], e) ELSE log[c]
  BY DEF CleanupCommit
<1>6. /\ esc'[c] \in Escalation \cup {NoEscalation}
      /\ esc[c] = NoEscalation => esc'[c] = NoEscalation
      /\ esc[c] \in Escalation => esc'[c] \in Escalation
      /\ esc'[c].severity = esc[c].severity
  BY <1>1, <1>4 DEF Escalation, EscalationStatuses, NoEscalation
<1>7. c \in r.doomed =>
        /\ log'[c] \in Seq(Event)
        /\ Len(log'[c]) = Len(log[c]) + 1
        /\ \A k \in 1 .. Len(log[c]) : log'[c][k] = log[c][k]
        /\ log'[c][Len(log'[c])] = e
  <2> HIDE DEF e
  <2>1. QED BY <1>1, <1>2, <1>5
<1>8. QED BY <1>1, <1>3, <1>5, <1>6, <1>7

LEMMA CleanupCommitStep ==
  ASSUME CInv, NEW w \in Workers, CleanupCommit(w)
  PROVE  CInv'
<1> DEFINE r == req[w]
<1>1. Finish(w) /\ UNCHANGED <<aged, linked, clock>>
  BY DEF CleanupCommit
<1>2. /\ req' \in [Workers -> Request] /\ req'[w] = Idle
      /\ \A v \in Workers \ {w} : req'[v] = req[v]
      /\ RequestOK(w)' /\ SweepOK(w)'
      /\ SavesApart'
  BY <1>1, FinishType
<1>3. \A c \in Content :
        /\ tier'[c] \in Tiers \cup {NoTier, Absent}
        /\ esc'[c] \in Escalation \cup {NoEscalation}
        /\ log'[c] \in Seq(Event)
  BY CleanupCommitEffect DEF CInv, TypeOK, Tiers
<1>4. TypeOK'
  BY <1>1, <1>2, <1>3 DEF CInv, TypeOK, CleanupCommit
<1>5. \A c \in r.doomed : Governed(c)
  BY DEF CInv, Control, SweepOK
<1>6. \A c \in Content : Governed(c) => Governed(c)'
  BY CleanupCommitEffect DEF Governed, Tiers
<1>7. \A c \in Content : esc[c] \in Escalation => esc'[c] \in Escalation
  BY CleanupCommitEffect
<1>8. \A v \in Workers \ {w} :
        /\ req[v].step = "saveTier" => tier'[req[v].item] = tier[req[v].item]
        /\ req[v].step \in SaveSteps => esc'[req[v].item] = esc[req[v].item]
  <2> SUFFICES ASSUME NEW v \in Workers \ {w}, req[v].step \in SaveSteps
               PROVE  /\ req[v].step = "saveTier" => tier'[req[v].item] = tier[req[v].item]
                      /\ esc'[req[v].item] = esc[req[v].item]
    BY DEF SaveSteps
  <2>1. /\ req[v].item \in Content /\ esc[req[v].item] = NoEscalation
        /\ req[v].step = "saveTier" => tier[req[v].item] = NoTier
    BY DEF CInv, Control, RequestOK
  <2>2. req[v].step = "saveTier" => req[v].item \notin r.doomed
    BY <1>5, <2>1 DEF Governed, NoTier, Tiers
  <2>3. QED BY <2>1, <2>2, CleanupCommitEffect
<1>9. (\A v \in Workers : RequestOK(v))' /\ (\A v \in Workers : SweepOK(v))'
  BY <1>2, <1>6, <1>7, <1>8, Frame
<1>10. (\A c \in Content : ItemOK(c))'
  <2> SUFFICES ASSUME NEW c \in Content PROVE ItemOK(c)'
    OBVIOUS
  <2>1. ItemOK(c) /\ log[c] \in Seq(Event)
    BY DEF CInv, Control, TypeOK
  <2>2. CASE c \notin r.doomed
    BY <2>1, <2>2, CleanupCommitEffect DEF ItemOK, Governed
  <2>3. CASE c \in r.doomed
    <3>1. Governed(c)'
      BY <2>3, CleanupCommitEffect DEF Governed, Tiers
    <3>2. \A k \in DOMAIN log'[c] : log'[c][k].prev \in Tiers
      BY <2>1, <2>3, CleanupCommitEffect DEF ItemOK, Tiers
    <3>3. QED BY <3>1, <3>2 DEF ItemOK
  <2>4. QED BY <2>2, <2>3
<1>11. QED BY <1>2, <1>4, <1>9, <1>10 DEF CInv, Control

\* The passage of time and the links that protect an item.
LEMMA WorldSteps ==
  ASSUME CInv, NEW c \in Content
  PROVE  /\ \A w \in Workers : LinkContent(w, c) => CInv'
         /\ EscalationFallsDue(c) => CInv'
         /\ ContentAges(c) => CInv'
<1>1. ASSUME \/ ContentAges(c)
             \/ \E w \in Workers : LinkContent(w, c)
      PROVE  CInv'
  <2>1. UNCHANGED <<tier, esc, log, req, clock>>
    BY <1>1 DEF LinkContent, ContentAges
  <2>2. TypeOK'
    BY <1>1, <2>1 DEF LinkContent, ContentAges, CInv, TypeOK
  <2>3. Control'
    BY <2>1 DEF CInv, Control, RequestOK, SweepOK, SavesApart, ItemOK, Governed
  <2>4. QED BY <2>2, <2>3 DEF CInv
<1>2. ASSUME EscalationFallsDue(c) PROVE CInv'
  <2>1. /\ esc' = [esc EXCEPT ![c].due = TRUE] /\ esc[c].status = "pending"
        /\ UNCHANGED <<tier, aged, linked, log, req, clock>>
    BY <1>2 DEF EscalationFallsDue
  <2>2. esc[c] \in Escalation /\ esc \in [Content -> Escalation \cup {NoEscalation}]
    BY <2>1 DEF CInv, TypeOK, NoEscalation
  <2>3. /\ esc'[c] \in Escalation
        /\ esc' \in [Content -> Escalation \cup {NoEscalation}]
        /\ \A d \in Content \ {c} : esc'[d] = esc[d]
    BY <2>1, <2>2 DEF Escalation
  <2>4. TypeOK'
    BY <2>1, <2>3 DEF CInv, TypeOK
  <2>5. esc[c] # NoEscalation
    BY <2>1 DEF NoEscalation
  <2>6. \A v \in Workers : req[v].step \in SaveSteps => req[v].item \in Content \ {c}
    BY <2>5 DEF CInv, Control, RequestOK
  <2>7. (\A v \in Workers : RequestOK(v))' /\ (\A v \in Workers : SweepOK(v))'
    BY <2>1, <2>2, <2>3, <2>6, Frame DEF Governed
  <2>8. SavesApart' /\ (\A d \in Content : ItemOK(d))'
    BY <2>1, <2>2, <2>3, <2>5 DEF CInv, Control, SavesApart, ItemOK, Governed
  <2>9. QED BY <2>4, <2>7, <2>8 DEF CInv, Control
<1>3. QED BY <1>1, <1>2

-----------------------------------------------------------------------------
(* The control invariant holds.                                            *)

LEMMA InitControl == Init => CInv
<1> SUFFICES ASSUME Init PROVE CInv
  OBVIOUS
<1>1. TypeOK
  BY IdleType, MaxTicketsAssumption DEF Init, TypeOK
<1>2. \A w \in Workers : RequestOK(w) /\ SweepOK(w)
  BY DEF Init, RequestOK, SweepOK, Idle, SaveSteps, GovernedSteps
<1>3. SavesApart /\ \A c \in Content : ItemOK(c)
  BY DEF Init, SavesApart, ItemOK, Idle, SaveSteps
<1>4. QED BY <1>1, <1>2, <1>3 DEF CInv, Control

LEMMA NextControl == CInv /\ [Next]_vars => CInv'
<1> SUFFICES ASSUME CInv, [Next]_vars PROVE CInv'
  OBVIOUS
<1>1. ASSUME NEW w \in Workers, Start(w) PROVE CInv'
  BY <1>1, SaveInsertStep, ReadSteps, SweepSteps, WorldSteps DEF Start
<1>2. ASSUME NEW w \in Workers, Proceed(w) PROVE CInv'
  <2>1. OverrideCommit(w) \/ RollbackCommit(w) => CInv'
    BY PlainCommitStep DEF OverrideCommit, RollbackCommit
  <2>2. QED
    BY <1>2, <2>1, SaveTierStep, SaveEscalateStep, ResolveCommitStep,
       ReadSteps, SweepSteps, CleanupCommitStep DEF Proceed
<1>3. ASSUME NEW w \in Workers, Abort(w) PROVE CInv'
  BY <1>3, ReadSteps
<1>4. ASSUME NEW c \in Content, World(c) PROVE CInv'
  BY <1>4, WorldSteps DEF World
<1>5. CASE UNCHANGED vars
  BY <1>5 DEF vars, CInv, TypeOK, Control, RequestOK, SweepOK, SavesApart,
              ItemOK, Governed
<1>6. QED BY <1>1, <1>2, <1>3, <1>4, <1>5 DEF Next

\* Type correctness, for every set of items and workers.
THEOREM TypeCorrect == Spec => []TypeOK
<1>1. CInv => TypeOK
  BY DEF CInv
<1>2. QED BY <1>1, InitControl, NextControl, PTL DEF Spec

-----------------------------------------------------------------------------
(* The history part of the inductive invariant: what the audit trail and   *)
(* the requests in flight remember of each item.                           *)

Backed(c) == esc[c].severity = "requires_review"

\* The steps of a request that has a ticket.
Ticketed == Steps \ {"idle", "saveTier", "saveDetect"}

\* The tier a request has read, and the one it is about to write.
MemoryOK(w) ==
  LET r == req[w] IN
  /\ r.item \in Content /\ r.step # "cleanupSweep" =>
       /\ r.prev = "conflicted" => Backed(r.item)
       /\ r.aim = "conflicted" => Backed(r.item)
  /\ \/ r.step \in {"resolveCommit", "overrideCommit", "rollbackRead",
                    "rollbackCommit"}
     \/ r.step = "saveEscalate" /\ Quarantines(r.aim)
     => HeldSince(r.item, r.prev, r.at)
  /\ r.step \in Ticketed \/ r.doomed # {} => r.at < clock
  /\ \A c \in r.doomed : HeldSince(c, "transient", r.at)
  /\ r.step = "cleanupSweep" =>
       /\ \A c \in r.todo : HeldSince(c, "transient", r.at)
       /\ r.item # NoItem => HeldSince(r.item, "transient", r.at)

TrailOK(c) ==
  /\ log[c] # <<>> => tier[c] = log[c][Len(log[c])].new
  /\ tier[c] = "conflicted" => Backed(c)
  /\ \A i \in DOMAIN log[c] : log[c][i].prev = "conflicted" => Backed(c)

History ==
  /\ \A w \in Workers : MemoryOK(w)
  /\ \A c \in Content : TrailOK(c)

HInv == CInv /\ History

LEMMA IdleMemory ==
  ASSUME NEW w \in Workers, req'[w] = Idle
  PROVE  MemoryOK(w)'
BY NoItemAssumption DEF MemoryOK, Idle, Ticketed

\* Memories stay true as long as histories only grow.
LEMMA MemoryFrame ==
  ASSUME HInv,
         \A c \in Content : \A t \in Tiers, a \in 0 .. MaxTickets :
           Governed(c) /\ a < clock /\ HeldSince(c, t, a) => HeldSince(c, t, a)',
         \A c \in Content : Backed(c) => Backed(c)',
         clock' \in {clock, clock + 1},
         \A v \in Workers : req'[v] = req[v] \/ MemoryOK(v)'
  PROVE  (\A v \in Workers : MemoryOK(v))'
<1> SUFFICES ASSUME NEW v \in Workers, req'[v] = req[v] PROVE MemoryOK(v)'
  OBVIOUS
<1> DEFINE r == req[v]
<1>1. /\ r \in Request /\ RequestOK(v) /\ SweepOK(v) /\ MemoryOK(v)
  BY DEF HInv, CInv, TypeOK, Control, History
<1>2. \/ r.step \in {"resolveCommit", "overrideCommit", "rollbackRead",
                     "rollbackCommit"}
      \/ r.step = "saveEscalate" /\ Quarantines(r.aim)
      => r.item \in Content /\ Governed(r.item) /\ r.prev \in Tiers
  BY <1>1 DEF RequestOK, SaveSteps, GovernedSteps
<1>3. /\ \A c \in r.doomed : c \in Content /\ Governed(c)
      /\ r.step = "cleanupSweep" =>
           /\ \A c \in r.todo : c \in Content /\ Governed(c)
           /\ r.item # NoItem => r.item \in Content /\ Governed(r.item)
  BY <1>1, RequestFields DEF SweepOK
<1>4. "transient" \in Tiers
  BY DEF Tiers
<1>5. Quarantines(r.aim)' <=> Quarantines(r.aim)
  BY DEF Quarantines
<1>6. r.at \in 0 .. MaxTickets /\ clock \in Nat /\ (r.at < clock => r.at < clock')
  BY <1>1, RequestFields, MaxTicketsAssumption DEF HInv, CInv, TypeOK
<1>7. QED
  BY <1>1, <1>2, <1>3, <1>4, <1>5, <1>6 DEF MemoryOK, Ticketed, Steps

\* A step that writes no item's row, trail or escalation.
LEMMA LocalHistory ==
  ASSUME HInv, NEW w \in Workers,
         UNCHANGED <<tier, esc, log>>, clock' \in {clock, clock + 1},
         \A v \in Workers \ {w} : req'[v] = req[v],
         MemoryOK(w)'
  PROVE  History'
<1>1. \A c \in Content : \A t \in Tiers, a \in 0 .. MaxTickets :
        Governed(c) /\ a < clock /\ HeldSince(c, t, a) => HeldSince(c, t, a)'
  BY DEF HeldSince, TierBefore
<1>2. \A c \in Content : Backed(c) => Backed(c)'
  BY DEF Backed
<1>3. (\A v \in Workers : MemoryOK(v))'
  BY <1>1, <1>2, MemoryFrame
<1>4. (\A c \in Content : TrailOK(c))'
  BY DEF HInv, History, TrailOK, Backed
<1>5. QED BY <1>3, <1>4 DEF History

\* One more event keeps a trail in order, and what was held since an earlier
\* moment is held since then.
LEMMA TrailGrows ==
  ASSUME NEW i \in Content, TypeOK, TrailOK(i),
         NEW p \in Tiers, NEW t \in Tiers,
         log[i] = <<>> => p = tier[i],
         Backed(i) => Backed(i)',
         p = "conflicted" \/ t = "conflicted" => Backed(i)',
         tier'[i] = t, log'[i] \in Seq(Event),
         Len(log'[i]) = Len(log[i]) + 1,
         \A k \in 1 .. Len(log[i]) : log'[i][k] = log[i][k],
         log'[i][Len(log'[i])].prev = p,
         log'[i][Len(log'[i])].new = t,
         log'[i][Len(log'[i])].done = clock
  PROVE  /\ TrailOK(i)'
         /\ \A s \in Tiers, a \in 0 .. MaxTickets :
              a < clock /\ HeldSince(i, s, a) => HeldSince(i, s, a)'
<1>0. PICK n \in Nat : n = Len(log[i])
  BY DEF TypeOK
<1>1. /\ log[i] \in Seq(Event) /\ n = Len(log[i]) /\ Len(log'[i]) = n + 1
      /\ DOMAIN log[i] = 1 .. n /\ DOMAIN log'[i] = 1 .. n + 1
      /\ log'[i] # <<>> /\ (log[i] # <<>> => n >= 1)
  BY <1>0 DEF TypeOK
<1>2. TrailOK(i)'
  <2>1. \A k \in DOMAIN log'[i] : log'[i][k].prev = "conflicted" => Backed(i)'
    <3> TAKE k \in DOMAIN log'[i]
    <3>1. k \in 1 .. n => log'[i][k] = log[i][k] /\ k \in DOMAIN log[i]
      BY <1>1
    <3>2. k \in 1 .. n \/ k = Len(log'[i])
      BY <1>1
    <3>3. QED BY <3>1, <3>2 DEF TrailOK
  <2>2. QED BY <1>1, <2>1 DEF TrailOK
<1>3. \A j \in 1 .. n : TierBefore(i, j)' = TierBefore(i, j)
  BY <1>1 DEF TierBefore
<1>4. TierBefore(i, n + 1)' = tier[i]
  <2>1. CASE n = 0
    <3>1. log[i] = <<>> /\ Len(log'[i]) = 1
      BY <1>1, <2>1
    <3>2. log'[i][1].prev = tier[i]
      BY <3>1
    <3>3. QED BY <2>1, <3>2 DEF TierBefore
  <2>2. CASE n # 0
    <3>1. n + 1 # 1 /\ (n + 1) - 1 = n /\ log'[i][n] = log[i][n] /\ log[i] # <<>>
      BY <1>1, <2>2
    <3>2. tier[i] = log[i][n].new
      BY <1>1, <3>1 DEF TrailOK
    <3>3. TierBefore(i, n + 1)' = log'[i][(n + 1) - 1].new
      BY <3>1 DEF TierBefore
    <3>4. QED BY <3>1, <3>2, <3>3
  <2>3. QED BY <2>1, <2>2
<1>5. ASSUME NEW s \in Tiers, NEW a \in 0 .. MaxTickets, a < clock, HeldSince(i, s, a)
      PROVE  HeldSince(i, s, a)'
  <2>1. CASE s = tier[i]
    <3>1. /\ n + 1 \in DOMAIN log'[i] /\ s = TierBefore(i, n + 1)'
          /\ \A k \in (n + 1) .. Len(log'[i]) : log'[i][k].done > a
      <4>1. n + 1 \in DOMAIN log'[i] /\ s = TierBefore(i, n + 1)'
        BY <1>1, <1>4, <2>1
      <4>2. clock > a /\ \A k \in (n + 1) .. Len(log'[i]) : k = Len(log'[i])
        BY <1>1, <1>5, MaxTicketsAssumption DEF TypeOK
      <4>3. QED BY <4>1, <4>2
    <3>2. QED BY <3>1 DEF HeldSince
  <2>2. CASE \E j \in DOMAIN log[i] :
               s = TierBefore(i, j) /\ \A k \in j .. n : log[i][k].done > a
    <3>1. PICK j \in 1 .. n :
            s = TierBefore(i, j) /\ \A k \in j .. n : log[i][k].done > a
      BY <1>1, <2>2
    <3>2. s = TierBefore(i, j)' /\ j \in DOMAIN log'[i]
      BY <1>1, <1>3, <3>1
    <3>3. \A k \in j .. Len(log'[i]) : log'[i][k].done > a
      <4> TAKE k \in j .. Len(log'[i])
      <4>1. k \in 1 .. n \/ k = Len(log'[i])
        BY <1>1, <3>1
      <4>2. k \in 1 .. n => log'[i][k].done > a
        BY <1>1, <3>1
      <4>3. k = Len(log'[i]) => log'[i][k].done > a
        BY <1>5 DEF TypeOK
      <4>4. QED BY <4>1, <4>2, <4>3
    <3>4. QED BY <3>2, <3>3 DEF HeldSince
  <2>3. QED BY <1>1, <1>5, <2>1, <2>2 DEF HeldSince
<1>6. QED BY <1>2, <1>5

LEMMA CommitHistory ==
  ASSUME HInv, NEW w \in Workers, Finish(w),
         NEW i \in Content, Governed(i),
         NEW p \in Tiers, NEW t \in Tiers,
         NEW source \in {"save", "admin", "cleanup"},
         NEW at \in 0 .. MaxTickets,
         tier' = [tier EXCEPT ![i] = t],
         log' = [log EXCEPT ![i] = Append(@, [prev |-> p, new |-> t,
                                     source |-> source, at |-> at, done |-> clock])],
         \A c \in Content : Backed(c) => Backed(c)',
         log[i] = <<>> => p = tier[i],
         p = "conflicted" \/ t = "conflicted" => Backed(i)',
         clock' = clock
  PROVE  History'
<1>1. TypeOK /\ CInv
  BY DEF HInv, CInv
<1>2. /\ tier' \in [Content -> Tiers \cup {NoTier, Absent}]
      /\ tier'[i] = t
      /\ \A c \in Content \ {i} : tier'[c] = tier[c] /\ log'[c] = log[c]
      /\ log' \in [Content -> Seq(Event)]
      /\ Len(log'[i]) = Len(log[i]) + 1
      /\ \A k \in 1 .. Len(log[i]) : log'[i][k] = log[i][k]
      /\ log'[i][Len(log'[i])].prev = p
      /\ log'[i][Len(log'[i])].new = t
      /\ log'[i][Len(log'[i])].done = clock
  BY <1>1, CommitTierEffect
<1>3. req'[w] = Idle /\ \A v \in Workers \ {w} : req'[v] = req[v]
  BY <1>1, FinishType
<1>4. /\ TrailOK(i)'
      /\ \A s \in Tiers, a \in 0 .. MaxTickets :
           a < clock /\ HeldSince(i, s, a) => HeldSince(i, s, a)'
  BY <1>1, <1>2, TrailGrows DEF HInv, History, Governed
<1>5. \A c \in Content : \A s \in Tiers, a \in 0 .. MaxTickets :
        Governed(c) /\ a < clock /\ HeldSince(c, s, a) => HeldSince(c, s, a)'
  <2> TAKE c \in Content
  <2>1. CASE c = i
    BY <1>4, <2>1
  <2>2. CASE c # i
    BY <1>2, <2>2 DEF HeldSince, TierBefore
  <2>3. QED BY <2>1, <2>2
<1>6. (\A v \in Workers : MemoryOK(v))'
  BY <1>3, <1>5, IdleMemory, MemoryFrame
<1>7. \A c \in Content \ {i} : TrailOK(c)'
  BY <1>2 DEF HInv, History, TrailOK
<1>8. QED BY <1>4, <1>6, <1>7 DEF History

\* The tier an item has now is one it held.
LEMMA HeldNow ==
  ASSUME HInv, NEW c \in Content
  PROVE  /\ \A a \in 0 .. MaxTickets : HeldSince(c, tier[c], a)
         /\ tier[c] = "conflicted" => Backed(c)
BY DEF HInv, History, TrailOK, HeldSince

\* Before the first event, a tier held since any moment is the present one.
LEMMA HeldThen ==
  ASSUME NEW c \in Content, NEW t, NEW a, HeldSince(c, t, a), log[c] = <<>>
  PROVE  t = tier[c]
BY DEF HeldSince

\* What leaves tiers and trails alone leaves what was held alone.
LEMMA HeldStays ==
  ASSUME UNCHANGED <<tier, log>>, NEW c, NEW t, NEW a
  PROVE  HeldSince(c, t, a)' <=> HeldSince(c, t, a)
BY DEF HeldSince, TierBefore

LEMMA SaveInsertHistory ==
  ASSUME HInv, NEW w \in Workers, NEW c \in Content, SaveInsert(w, c)
  PROVE  History'
<1> DEFINE R == [Idle EXCEPT !.step = "saveTier", !.item = c]
<1>1. /\ req' = [req EXCEPT ![w] = R] /\ tier' = [tier EXCEPT ![c] = NoTier]
      /\ UNCHANGED <<esc, log, clock>> /\ tier[c] = Absent
      /\ req \in [Workers -> Request]
      /\ tier \in [Content -> Tiers \cup {NoTier, Absent}]
  BY DEF HInv, CInv, TypeOK, SaveInsert, Stored
<1>2. /\ R.step = "saveTier" /\ R.item = c /\ R.prev = NoTier /\ R.aim = NoTier
      /\ R.doomed = {}
  BY DEF Idle
<1>3. req'[w] = R /\ \A v \in Workers \ {w} : req'[v] = req[v]
  BY <1>1
<1> HIDE DEF R
<1>4. MemoryOK(w)'
  BY <1>2, <1>3 DEF MemoryOK, NoTier, Ticketed
<1>5. log[c] = <<>> /\ ~Governed(c)
  BY <1>1 DEF HInv, CInv, Control, ItemOK, Governed, Absent, Tiers
<1>6. \A d \in Content : \A t \in Tiers, a \in 0 .. MaxTickets :
        Governed(d) /\ a < clock /\ HeldSince(d, t, a) => HeldSince(d, t, a)'
  BY <1>1, <1>5 DEF HeldSince, TierBefore
<1>7. (\A v \in Workers : MemoryOK(v))'
  BY <1>1, <1>3, <1>4, <1>6, MemoryFrame DEF Backed
<1>8. (\A d \in Content : TrailOK(d))'
  BY <1>1, <1>5 DEF HInv, History, TrailOK, Backed, NoTier
<1>9. QED BY <1>7, <1>8 DEF History

LEMMA SaveTierHistory ==
  ASSUME HInv, NEW w \in Workers, SaveTier(w)
  PROVE  History'
<1> DEFINE i == req[w].item
           R == [req[w] EXCEPT !.step = "saveDetect"]
<1>1. PICK t \in RoutedTiers : tier' = [tier EXCEPT ![i] = t]
  BY DEF SaveTier
<1>2. /\ i \in Content /\ tier[i] = NoTier /\ req[w].step = "saveTier"
      /\ req[w] \in Request /\ MemoryOK(w)
      /\ req \in [Workers -> Request]
      /\ tier \in [Content -> Tiers \cup {NoTier, Absent}]
  BY DEF HInv, CInv, TypeOK, Control, RequestOK, History, SaveTier, SaveSteps
<1>3. log[i] = <<>> /\ ~Governed(i)
  BY <1>2 DEF HInv, CInv, Control, ItemOK, Governed, NoTier, Tiers
<1>4. /\ req' = [req EXCEPT ![w] = R] /\ UNCHANGED <<esc, log, clock>>
  BY DEF SaveTier
<1>5. /\ R.step = "saveDetect" /\ R.item = i /\ R.prev = req[w].prev
      /\ R.aim = req[w].aim /\ R.doomed = req[w].doomed /\ R.at = req[w].at
  BY <1>2 DEF Request
<1>6. req'[w] = R /\ \A v \in Workers \ {w} : req'[v] = req[v]
  BY <1>2, <1>4
<1>7. \A d \in Content : \A s \in Tiers, a \in 0 .. MaxTickets :
        Governed(d) /\ a < clock /\ HeldSince(d, s, a) => HeldSince(d, s, a)'
  BY <1>1, <1>2, <1>3, <1>4 DEF HeldSince, TierBefore
<1>8. /\ req[w].at \in 0 .. MaxTickets
      /\ \A d \in req[w].doomed : d \in Content /\ Governed(d)
  BY <1>2, RequestFields DEF HInv, CInv, Control, SweepOK
<1> HIDE DEF R
<1>9. MemoryOK(w)'
  BY <1>2, <1>4, <1>5, <1>6, <1>7, <1>8 DEF MemoryOK, Backed, Tiers, Ticketed
<1>10. (\A v \in Workers : MemoryOK(v))'
  BY <1>4, <1>6, <1>7, <1>9, MemoryFrame DEF Backed
<1>11. t # "conflicted"
  BY DEF RoutedTiers
<1>12. (\A d \in Content : TrailOK(d))'
  BY <1>1, <1>2, <1>3, <1>4, <1>11 DEF HInv, History, TrailOK, Backed
<1>13. QED BY <1>10, <1>12 DEF History

LEMMA SaveEscalateHistory ==
  ASSUME HInv, NEW w \in Workers, SaveEscalate(w)
  PROVE  History'
<1>0. PICK i \in Content : i = req[w].item
  BY DEF HInv, CInv, Control, RequestOK, SaveEscalate, SaveSteps
<1> DEFINE r == req[w]
           e == [status |-> "pending", severity |-> r.aim, due |-> FALSE]
<1>1. /\ r \in Request /\ r.step = "saveEscalate" /\ i \in Content /\ Governed(i)
      /\ r.aim \in Severities /\ (Quarantines(r.aim) => r.prev \in Tiers)
      /\ esc[i] = NoEscalation /\ r.at \in 0 .. MaxTickets
      /\ esc \in [Content -> Escalation \cup {NoEscalation}]
      /\ MemoryOK(w)
  BY <1>0, RequestFields DEF HInv, History, CInv, TypeOK, Control, RequestOK,
     SaveEscalate, SaveSteps, GovernedSteps
<1>2. /\ esc' = [esc EXCEPT ![i] = e] /\ Finish(w)
  BY <1>0 DEF SaveEscalate
<1>3. ~Backed(i) /\ esc'[i].severity = r.aim
      /\ \A c \in Content \ {i} : esc'[c] = esc[c]
  BY <1>1, <1>2 DEF Backed, NoEscalation
<1>4. \A c \in Content : Backed(c) => Backed(c)'
  BY <1>3 DEF Backed
<1>5. CASE Quarantines(r.aim)
  <2> DEFINE q == [r EXCEPT !.aim = "conflicted"]
  <2>1. CommitTier(q, "save")
    BY <1>5 DEF SaveEscalate
  <2>2. q.item = i /\ q.aim = "conflicted" /\ q.prev = r.prev /\ q.at = r.at
    BY <1>0, <1>1 DEF Request
  <2>3. /\ tier' = [tier EXCEPT ![i] = "conflicted"]
        /\ log' = [log EXCEPT ![i] = Append(@, [prev |-> r.prev, new |-> "conflicted",
                                          source |-> "save", at |-> r.at,
                                          done |-> clock])]
    BY <2>1, <2>2 DEF CommitTier
  <2>4. r.prev \in Tiers /\ "conflicted" \in Tiers
        /\ (log[i] = <<>> => r.prev = tier[i])
    BY <1>0, <1>1, <1>5, HeldThen DEF Tiers, MemoryOK
  <2>5. Backed(i)'
    BY <1>3, <1>5 DEF Backed, Quarantines
  <2>6. "save" \in {"save", "admin", "cleanup"}
    OBVIOUS
  <2>9. clock' = clock
    BY DEF SaveEscalate
  <2> HIDE DEF e, q
  <2>7. i \in Content /\ Governed(i) /\ r.at \in 0 .. MaxTickets
    BY <1>1
  <2> HIDE DEF r
  <2>8. QED
    BY <1>2, <1>4, <2>3, <2>4, <2>5, <2>6, <2>7, <2>9, CommitHistory
<1>6. CASE ~Quarantines(r.aim)
  <2>1. UNCHANGED <<tier, log>>
    BY <1>6 DEF SaveEscalate
  <2>2. req'[w] = Idle /\ \A v \in Workers \ {w} : req'[v] = req[v]
    BY <1>2, FinishType DEF HInv
  <2>5. clock' = clock
    BY DEF SaveEscalate
  <2>3. (\A v \in Workers : MemoryOK(v))'
    BY <1>4, <2>1, <2>2, <2>5, IdleMemory, MemoryFrame DEF HeldSince, TierBefore
  <2>4. (\A d \in Content : TrailOK(d))'
    BY <1>4, <2>1 DEF HInv, History, TrailOK
  <2>6. QED BY <2>3, <2>4 DEF History
<1>7. QED BY <1>5, <1>6

\* The resolutions, overrides and rollbacks all commit what they have read.
LEMMA AdminCommitHistory ==
  ASSUME HInv, NEW w \in Workers,
         req[w].step \in {"resolveCommit", "overrideCommit", "rollbackCommit"},
         CommitTier(req[w], "admin"), Finish(w), clock' = clock,
         \A c \in Content : esc'[c].severity = esc[c].severity
  PROVE  History'
<1>0. PICK i \in Content : i = req[w].item
  BY DEF HInv, CInv, Control, RequestOK, GovernedSteps
<1> DEFINE r == req[w]
<1>1. /\ r \in Request /\ i \in Content /\ Governed(i)
      /\ r.aim \in Tiers /\ r.prev \in Tiers /\ r.at \in 0 .. MaxTickets
      /\ MemoryOK(w)
  BY <1>0, RequestFields DEF HInv, History, CInv, TypeOK, Control, RequestOK,
     GovernedSteps
<1>2. /\ tier' = [tier EXCEPT ![i] = r.aim]
      /\ log' = [log EXCEPT ![i] = Append(@, [prev |-> r.prev, new |-> r.aim,
                                        source |-> "admin", at |-> r.at,
                                        done |-> clock])]
  BY <1>0 DEF CommitTier
<1>3. \A c \in Content : Backed(c) => Backed(c)'
  BY DEF Backed
<1>4. log[i] = <<>> => r.prev = tier[i]
  BY <1>0, <1>1, HeldThen DEF MemoryOK
<1>5. r.prev = "conflicted" \/ r.aim = "conflicted" => Backed(i)'
  BY <1>0, <1>1, <1>3 DEF MemoryOK
<1>6. "admin" \in {"save", "admin", "cleanup"}
  OBVIOUS
<1>7. /\ i \in Content /\ Governed(i)
      /\ r.aim \in Tiers /\ r.prev \in Tiers /\ r.at \in 0 .. MaxTickets
  BY <1>1
<1> HIDE DEF r
<1>8. QED BY <1>2, <1>3, <1>4, <1>5, <1>6, <1>7, CommitHistory

LEMMA CleanupCommitHistory ==
  ASSUME HInv, NEW w \in Workers, CleanupCommit(w)
  PROVE  History'
<1> DEFINE r == req[w]
<1>1. /\ CInv /\ TypeOK /\ r \in Request /\ MemoryOK(w)
      /\ \A c \in r.doomed : Governed(c)
  BY DEF HInv, History, CInv, TypeOK, Control, SweepOK
<1>2. req'[w] = Idle /\ \A v \in Workers \ {w} : req'[v] = req[v]
  BY <1>1, FinishType DEF CleanupCommit
<1>3. \A c \in Content : Backed(c) => Backed(c)'
  BY <1>1, CleanupCommitEffect DEF Backed
<1>4. ASSUME NEW c \in Content
      PROVE  /\ TrailOK(c)'
             /\ \A s \in Tiers, a \in 0 .. MaxTickets :
                  a < clock /\ HeldSince(c, s, a) => HeldSince(c, s, a)'
  <2>1. CASE c \notin r.doomed
    <3>1. tier'[c] = tier[c] /\ log'[c] = log[c]
      BY <1>1, <2>1, CleanupCommitEffect
    <3>2. QED BY <1>3, <3>1 DEF HInv, History, TrailOK, HeldSince, TierBefore
  <2>2. CASE c \in r.doomed
    <3>1. /\ tier'[c] = "archived" /\ log'[c] \in Seq(Event)
          /\ Len(log'[c]) = Len(log[c]) + 1
          /\ \A k \in 1 .. Len(log[c]) : log'[c][k] = log[c][k]
          /\ log'[c][Len(log'[c])].prev = "transient"
          /\ log'[c][Len(log'[c])].new = "archived"
          /\ log'[c][Len(log'[c])].done = clock
      BY <1>1, <2>2, CleanupCommitEffect
    <3>2. TrailOK(c) /\ (log[c] = <<>> => tier[c] = "transient")
      BY <1>1, <2>2, HeldThen DEF HInv, History, MemoryOK
    <3>3. "transient" \in Tiers /\ "archived" \in Tiers
      BY DEF Tiers
    <3>4. QED BY <1>1, <1>3, <3>1, <3>2, <3>3, TrailGrows
  <2>3. QED BY <2>1, <2>2
<1>5. clock' = clock
  BY DEF CleanupCommit
<1>6. (\A v \in Workers : MemoryOK(v))'
  BY <1>2, <1>3, <1>4, <1>5, IdleMemory, MemoryFrame
<1>7. QED BY <1>4, <1>6 DEF History

\* The steps that only read remember tiers the item had.
LEMMA ReadHistory ==
  ASSUME HInv, NEW w \in Workers
  PROVE  /\ SaveDetectNothing(w) \/ Abort(w) => History'
         /\ \A s \in Severities : SaveDetectConflict(w, s) => History'
         /\ SaveReadTier(w) => History'
         /\ \A c \in Content, d \in {"approved", "rejected"} :
              ResolveFetch(w, c, d) => History'
         /\ ResolveRead(w) => History'
         /\ \A c \in Content, t \in OverrideTiers : OverrideRead(w, c, t) => History'
         /\ \A c \in Content : RollbackRead(w, c) => History'
         /\ RollbackReadLog(w) => History'
<1> DEFINE r == req[w]
<1>0. /\ r \in Request /\ req \in [Workers -> Request]
      /\ RequestOK(w) /\ SweepOK(w) /\ MemoryOK(w) /\ clock \in Nat
      /\ r.at \in 0 .. MaxTickets /\ clock \in 0 .. MaxTickets
      /\ \A c \in Content : TrailOK(c)
  BY RequestFields, MaxTicketsAssumption DEF HInv, History, CInv, TypeOK, Control
<1>held. \A c \in Content :
           /\ \A a \in 0 .. MaxTickets : HeldSince(c, tier[c], a)
           /\ tier[c] = "conflicted" => Backed(c)
  BY HeldNow
<1>1. ASSUME SaveDetectNothing(w) \/ Abort(w) PROVE History'
  <2>1. Finish(w) /\ UNCHANGED <<tier, esc, log, clock>>
    BY <1>1 DEF SaveDetectNothing, Abort
  <2>2. req'[w] = Idle /\ \A v \in Workers \ {w} : req'[v] = req[v]
    BY <2>1, FinishType DEF HInv
  <2>3. QED BY <2>1, <2>2, IdleMemory, LocalHistory
<1>2. ASSUME NEW s \in Severities, SaveDetectConflict(w, s) PROVE History'
  <2> DEFINE R == [r EXCEPT !.step = "saveQuarantine", !.aim = s, !.at = clock]
  <2>1. /\ req' = [req EXCEPT ![w] = R] /\ r.step = "saveDetect"
        /\ UNCHANGED <<tier, esc, log>> /\ clock' = clock + 1
    BY <1>2 DEF SaveDetectConflict, Begin
  <2>2. /\ R.at = clock /\ R.step = "saveQuarantine" /\ R.item = r.item
        /\ R.aim = s /\ R.doomed = r.doomed /\ R.prev = r.prev
    BY <1>0 DEF Request
  <2>3. req'[w] = R /\ \A v \in Workers \ {w} : req'[v] = req[v]
    BY <1>0, <2>1
  <2>4. s # "conflicted"
    BY DEF Severities
  <2> HIDE DEF R
  <2>5. MemoryOK(w)'
    <3>1. r.doomed = {}
      BY <1>0, <2>1 DEF SweepOK
    <3>2. QED
      BY <1>0, <2>1, <2>2, <2>3, <2>4, <3>1 DEF MemoryOK, Backed
  <2>6. QED BY <2>1, <2>3, <2>5, LocalHistory
<1>9. ASSUME SaveReadTier(w) PROVE History'
  <2> DEFINE p == IF Quarantines(r.aim) THEN tier[r.item] ELSE NoTier
             R == [r EXCEPT !.step = "saveEscalate", !.prev = p]
  <2>1. /\ req' = [req EXCEPT ![w] = R] /\ r.step = "saveQuarantine"
        /\ UNCHANGED <<tier, esc, log, clock>>
    BY <1>0, <1>9 DEF SaveReadTier, Request
  <2>2. r.item \in Content
    BY <1>0, <2>1 DEF RequestOK, SaveSteps, GovernedSteps
  <2>3. /\ R.at = r.at /\ R.step = "saveEscalate" /\ R.item = r.item
        /\ R.aim = r.aim /\ R.doomed = r.doomed /\ R.prev = p
    BY <1>0 DEF Request
  <2>4. req'[w] = R /\ \A v \in Workers \ {w} : req'[v] = req[v]
    BY <1>0, <2>1
  <2>5. NoTier # "conflicted"
    BY DEF NoTier
  <2> HIDE DEF R
  <2>6. MemoryOK(w)'
    BY <1>0, <1>held, <2>1, <2>2, <2>3, <2>4, <2>5, HeldStays
    DEF MemoryOK, Ticketed, Steps, Backed, Quarantines
  <2>7. QED BY <2>1, <2>4, <2>6, LocalHistory
<1>3. ASSUME NEW c \in Content, NEW d \in {"approved", "rejected"},
             ResolveFetch(w, c, d)
      PROVE  History'
  <2> DEFINE t == IF d = "approved" THEN "persistent" ELSE "archived"
             R == [Idle EXCEPT !.step = "resolveRead", !.item = c,
                               !.aim = t, !.at = clock]
  <2>1. /\ req' = [req EXCEPT ![w] = R] /\ UNCHANGED <<tier, esc, log>> /\ clock' = clock + 1
    BY <1>3 DEF ResolveFetch, Begin, Idle
  <2>2. /\ R.at = clock /\ R.step = "resolveRead" /\ R.prev = NoTier /\ R.doomed = {}
        /\ R.aim # "conflicted"
    BY DEF Idle
  <2>3. req'[w] = R /\ \A v \in Workers \ {w} : req'[v] = req[v]
    BY <1>0, <2>1
  <2> HIDE DEF R
  <2>4. MemoryOK(w)'
    BY <1>0, <2>1, <2>2, <2>3 DEF MemoryOK, NoTier
  <2>5. QED BY <2>1, <2>3, <2>4, LocalHistory
<1>4. ASSUME ResolveRead(w) PROVE History'
  <2> DEFINE R == [r EXCEPT !.step = "resolveCommit", !.prev = tier[r.item]]
  <2>1. /\ req' = [req EXCEPT ![w] = R] /\ r.step = "resolveRead"
        /\ UNCHANGED <<tier, esc, log, clock>>
    BY <1>0, <1>4 DEF ResolveRead, Request
  <2>2. r.item \in Content
    BY <1>0, <2>1 DEF RequestOK, GovernedSteps
  <2>3. /\ R.at = r.at /\ R.step = "resolveCommit" /\ R.item = r.item /\ R.aim = r.aim
        /\ R.prev = tier[r.item] /\ R.doomed = r.doomed
    BY <1>0 DEF Request
  <2>4. req'[w] = R /\ \A v \in Workers \ {w} : req'[v] = req[v]
    BY <1>0, <2>1
  <2> HIDE DEF R
  <2>5. MemoryOK(w)'
    BY <1>0, <1>held, <2>1, <2>2, <2>3, <2>4, HeldStays DEF MemoryOK, Ticketed, Steps, Backed
  <2>6. QED BY <2>1, <2>4, <2>5, LocalHistory
<1>5. ASSUME NEW c \in Content, NEW t \in OverrideTiers, OverrideRead(w, c, t)
      PROVE  History'
  <2> DEFINE R == [Idle EXCEPT !.step = "overrideCommit", !.item = c,
                               !.prev = tier[c], !.aim = t, !.at = clock]
  <2>1. /\ req' = [req EXCEPT ![w] = R] /\ UNCHANGED <<tier, esc, log>> /\ clock' = clock + 1
    BY <1>5 DEF OverrideRead, Begin, Idle
  <2>2. /\ R.at = clock /\ R.step = "overrideCommit" /\ R.item = c /\ R.prev = tier[c]
        /\ R.aim # "conflicted" /\ R.doomed = {}
    BY DEF Idle, OverrideTiers
  <2>3. req'[w] = R /\ \A v \in Workers \ {w} : req'[v] = req[v]
    BY <1>0, <2>1
  <2> HIDE DEF R
  <2>4. MemoryOK(w)'
    BY <1>0, <1>held, <2>1, <2>2, <2>3, HeldStays DEF MemoryOK, Backed
  <2>5. QED BY <2>1, <2>3, <2>4, LocalHistory
<1>6. ASSUME NEW c \in Content, RollbackRead(w, c) PROVE History'
  <2> DEFINE R == [Idle EXCEPT !.step = "rollbackRead", !.item = c,
                               !.prev = tier[c], !.at = clock]
  <2>1. /\ req' = [req EXCEPT ![w] = R] /\ UNCHANGED <<tier, esc, log>> /\ clock' = clock + 1
    BY <1>6 DEF RollbackRead, Begin, Idle
  <2>2. /\ R.at = clock /\ R.step = "rollbackRead" /\ R.item = c /\ R.prev = tier[c]
        /\ R.aim = NoTier /\ R.doomed = {}
    BY DEF Idle
  <2>3. req'[w] = R /\ \A v \in Workers \ {w} : req'[v] = req[v]
    BY <1>0, <2>1
  <2> HIDE DEF R
  <2>4. MemoryOK(w)'
    BY <1>0, <1>held, <2>1, <2>2, <2>3, HeldStays DEF MemoryOK, Backed, NoTier
  <2>5. QED BY <2>1, <2>3, <2>4, LocalHistory
<1>7. ASSUME RollbackReadLog(w) PROVE History'
  <2>1. r.step = "rollbackRead" /\ UNCHANGED <<tier, esc, log, clock>>
    BY <1>7 DEF RollbackReadLog
  <2>2. CASE Finish(w)
    <3>1. req'[w] = Idle /\ \A v \in Workers \ {w} : req'[v] = req[v]
      BY <2>2, FinishType DEF HInv
    <3>2. QED BY <2>1, <3>1, IdleMemory, LocalHistory
  <2>3. ASSUME NEW e \in LatestEvents(r.item),
               req' = [req EXCEPT ![w].step = "rollbackCommit", ![w].aim = e.prev]
        PROVE  History'
    <3> DEFINE R == [r EXCEPT !.step = "rollbackCommit", !.aim = e.prev]
    <3>1. req' = [req EXCEPT ![w] = R]
      BY <1>0, <2>3 DEF Request
    <3>2. r.item \in Content
      BY <1>0, <2>1 DEF RequestOK, GovernedSteps
    <3>3. PICK k \in DOMAIN log[r.item] : e = log[r.item][k]
      BY DEF LatestEvents, Range
    <3>4. e.prev = "conflicted" => Backed(r.item)
      BY <1>0, <3>2, <3>3 DEF TrailOK
    <3>5. /\ R.at = r.at /\ R.step = "rollbackCommit" /\ R.item = r.item
          /\ R.aim = e.prev /\ R.prev = r.prev /\ R.doomed = r.doomed
      BY <1>0 DEF Request
    <3>6. req'[w] = R /\ \A v \in Workers \ {w} : req'[v] = req[v]
      BY <1>0, <3>1
    <3> HIDE DEF R
    <3>7. MemoryOK(w)'
      BY <1>0, <2>1, <3>2, <3>4, <3>5, <3>6, HeldStays DEF MemoryOK, Ticketed, Steps, Backed
    <3>8. QED BY <2>1, <3>6, <3>7, LocalHistory
  <2>4. QED BY <1>7, <2>2, <2>3 DEF RollbackReadLog
<1>8. QED BY <1>1, <1>2, <1>9, <1>3, <1>4, <1>5, <1>6, <1>7

LEMMA SweepHistory ==
  ASSUME HInv, NEW w \in Workers
  PROVE  /\ CleanupStart(w) => History'
         /\ CleanupExpire(w) => History'
         /\ CleanupScan(w) => History'
         /\ \A c \in Content : CleanupCheck(w, c) => History'
         /\ CleanupArchive(w) => History'
<1> DEFINE r == req[w]
<1>0. /\ r \in Request /\ req \in [Workers -> Request]
      /\ RequestOK(w) /\ SweepOK(w) /\ MemoryOK(w) /\ clock \in Nat
      /\ r.at \in 0 .. MaxTickets /\ clock \in 0 .. MaxTickets
  BY RequestFields, MaxTicketsAssumption DEF HInv, History, CInv, TypeOK, Control
<1>1. ASSUME CleanupStart(w) PROVE History'
  <2> DEFINE R == [Idle EXCEPT !.step = "cleanupExpire",
                     !.hold = StaleEscalations, !.todo = aged, !.at = clock]
  <2>1. req' = [req EXCEPT ![w] = R] /\ UNCHANGED <<tier, esc, log>> /\ clock' = clock + 1
    BY <1>1 DEF CleanupStart, Begin, Idle
  <2>2. R.at = clock /\ R.step = "cleanupExpire" /\ R.item = NoItem /\ R.doomed = {}
    BY DEF Idle
  <2>3. req'[w] = R /\ \A v \in Workers \ {w} : req'[v] = req[v]
    BY <1>0, <2>1
  <2> HIDE DEF R
  <2>4. MemoryOK(w)'
    BY <1>0, <2>1, <2>2, <2>3, NoItemAssumption DEF MemoryOK
  <2>5. QED BY <2>1, <2>3, <2>4, LocalHistory
<1>2. ASSUME CleanupExpire(w) PROVE History'
  <2> DEFINE R == [r EXCEPT !.step = "cleanupScan"]
  <2>1. /\ req' = [req EXCEPT ![w] = R] /\ r.step = "cleanupExpire"
        /\ UNCHANGED <<tier, esc, log, clock>>
    BY <1>2 DEF CleanupExpire
  <2>2. R.at = r.at /\ R.step = "cleanupScan" /\ R.item = NoItem /\ R.doomed = r.doomed
    BY <1>0, <2>1 DEF Request, SweepOK
  <2>3. req'[w] = R /\ \A v \in Workers \ {w} : req'[v] = req[v]
    BY <1>0, <2>1
  <2> HIDE DEF R
  <2>4. MemoryOK(w)'
    BY <1>0, <2>1, <2>2, <2>3, NoItemAssumption, HeldStays DEF MemoryOK, Ticketed, Steps
  <2>5. QED BY <2>1, <2>3, <2>4, LocalHistory
<1>3. ASSUME CleanupScan(w) PROVE History'
  <2> DEFINE R == [r EXCEPT !.step = "cleanupSweep",
                            !.todo = CleanupCandidates(r.todo)]
  <2>1. /\ req' = [req EXCEPT ![w] = R] /\ r.step = "cleanupScan"
        /\ UNCHANGED <<tier, esc, log, clock>>
    BY <1>0, <1>3 DEF CleanupScan, Request
  <2>2. /\ R.at = r.at /\ R.step = "cleanupSweep" /\ R.item = NoItem
        /\ R.todo = CleanupCandidates(r.todo) /\ R.doomed = r.doomed
    BY <1>0, <2>1 DEF Request, SweepOK
  <2>3. req'[w] = R /\ \A v \in Workers \ {w} : req'[v] = req[v]
    BY <1>0, <2>1
  <2>4. \A c \in R.todo : HeldSince(c, "transient", R.at)
    <3>1. r.todo \subseteq Content
      BY <1>0, RequestFields
    <3>2. \A c \in R.todo : c \in Content /\ tier[c] = "transient"
      BY <2>2, <3>1 DEF CleanupCandidates
    <3>3. R.at \in 0 .. MaxTickets
      BY <1>0, <2>2
    <3> HIDE DEF R
    <3>4. QED BY <3>2, <3>3, HeldNow
  <2> HIDE DEF R
  <2>5. MemoryOK(w)'
    BY <1>0, <2>1, <2>2, <2>3, <2>4, NoItemAssumption, HeldStays DEF MemoryOK, Ticketed, Steps
  <2>6. QED BY <2>1, <2>3, <2>5, LocalHistory
<1>4. ASSUME NEW c \in Content, CleanupCheck(w, c) PROVE History'
  <2> DEFINE i == IF Expendable(w, c) THEN c ELSE NoItem
             R == [r EXCEPT !.todo = @ \ {c}, !.item = i]
  <2>1. /\ req' = [req EXCEPT ![w] = R] /\ r.step = "cleanupSweep"
        /\ c \in r.todo /\ UNCHANGED <<tier, esc, log, clock>>
    BY <1>0, <1>4 DEF CleanupCheck, Request
  <2>2. /\ R.at = r.at /\ R.step = "cleanupSweep" /\ R.item \in {c, NoItem}
        /\ R.todo = r.todo \ {c} /\ R.doomed = r.doomed
    BY <1>0, <2>1 DEF Request
  <2>3. req'[w] = R /\ \A v \in Workers \ {w} : req'[v] = req[v]
    BY <1>0, <2>1
  <2> HIDE DEF R, i
  <2>5. MemoryOK(w)'
    BY <1>0, <2>1, <2>2, <2>3, HeldStays DEF MemoryOK, Ticketed, Steps
  <2>6. QED BY <2>1, <2>3, <2>5, LocalHistory
<1>5. ASSUME CleanupArchive(w) PROVE History'
  <2> DEFINE R == [r EXCEPT !.doomed = @ \cup {r.item}, !.item = NoItem]
  <2>1. /\ req' = [req EXCEPT ![w] = R] /\ r.step = "cleanupSweep"
        /\ r.item # NoItem /\ UNCHANGED <<tier, esc, log, clock>>
    BY <1>0, <1>5 DEF CleanupArchive, Request
  <2>2. /\ R.at = r.at /\ R.step = "cleanupSweep" /\ R.item = NoItem /\ R.todo = r.todo
        /\ R.doomed = r.doomed \cup {r.item}
    BY <1>0, <2>1 DEF Request
  <2>3. req'[w] = R /\ \A v \in Workers \ {w} : req'[v] = req[v]
    BY <1>0, <2>1
  <2> HIDE DEF R
  <2>4. MemoryOK(w)'
    BY <1>0, <2>1, <2>2, <2>3, NoItemAssumption, HeldStays DEF MemoryOK, Ticketed, Steps
  <2>5. QED BY <2>1, <2>3, <2>4, LocalHistory
<1>6. QED BY <1>1, <1>2, <1>3, <1>4, <1>5

LEMMA WorldHistory ==
  ASSUME HInv
  PROVE  /\ \A w \in Workers, c \in Content : LinkContent(w, c) => History'
         /\ \A c \in Content : EscalationFallsDue(c) => History'
         /\ \A c \in Content : ContentAges(c) => History'
<1>1. ASSUME UNCHANGED <<tier, log, req, clock>>,
             \A d \in Content : esc'[d].severity = esc[d].severity
      PROVE  History'
  <2>1. \A d \in Content : Backed(d) => Backed(d)'
    BY <1>1 DEF Backed
  <2>2. (\A v \in Workers : MemoryOK(v))'
    BY <1>1, <2>1, MemoryFrame, HeldStays
  <2>3. (\A d \in Content : TrailOK(d))'
    BY <1>1, <2>1 DEF HInv, History, TrailOK
  <2>4. QED BY <2>2, <2>3 DEF History
<1>2. ASSUME NEW c \in Content, EscalationFallsDue(c)
      PROVE  \A d \in Content : esc'[d].severity = esc[d].severity
  <2>1. /\ esc \in [Content -> Escalation \cup {NoEscalation}]
        /\ esc' = [esc EXCEPT ![c].due = TRUE]
    BY <1>2 DEF HInv, CInv, TypeOK, EscalationFallsDue
  <2>2. \A d \in Content :
          esc'[d] = IF d = c THEN [esc[d] EXCEPT !.due = TRUE] ELSE esc[d]
    BY <2>1
  <2>3. esc[c] \in Escalation \cup {NoEscalation}
    BY <2>1
  <2>4. [esc[c] EXCEPT !.due = TRUE].severity = esc[c].severity
    BY <2>3 DEF Escalation, NoEscalation
  <2>5. QED BY <2>2, <2>4
<1>3. QED BY <1>1, <1>2 DEF LinkContent, EscalationFallsDue, ContentAges

LEMMA InitHistory == Init => History
<1> SUFFICES ASSUME Init PROVE History
  OBVIOUS
<1>1. \A w \in Workers : MemoryOK(w)
  BY NoItemAssumption DEF Init, Idle, MemoryOK, Ticketed
<1>2. \A c \in Content : TrailOK(c)
  BY DEF Init, TrailOK, Absent
<1>3. QED BY <1>1, <1>2 DEF History

LEMMA NextHistory == HInv /\ [Next]_vars => History'
<1> SUFFICES ASSUME HInv, [Next]_vars PROVE History'
  OBVIOUS
<1>1. ASSUME NEW w \in Workers, Start(w) PROVE History'
  BY <1>1, SaveInsertHistory, ReadHistory, SweepHistory, WorldHistory DEF Start
<1>2. ASSUME NEW w \in Workers, Proceed(w) PROVE History'
  <2>1. OverrideCommit(w) \/ RollbackCommit(w) => History'
    BY AdminCommitHistory DEF OverrideCommit, RollbackCommit
  <2>2. ASSUME ResolveCommit(w) PROVE History'
    <3> DEFINE i == req[w].item
               s == IF req[w].aim = "persistent" THEN "approved" ELSE "rejected"
    <3>1. /\ esc \in [Content -> Escalation \cup {NoEscalation}]
          /\ esc' = [esc EXCEPT ![i].status = s]
          /\ req[w].step = "resolveCommit"
      BY <2>2 DEF HInv, CInv, TypeOK, ResolveCommit
    <3>2. i \in Content /\ esc[i] \in Escalation
      BY <3>1 DEF HInv, CInv, Control, RequestOK, GovernedSteps
    <3> HIDE DEF s
    <3>3. [esc[i] EXCEPT !.status = s].severity = esc[i].severity
      BY <3>2 DEF Escalation
    <3>4. \A c \in Content : esc'[c].severity = esc[c].severity
      BY <3>1, <3>2, <3>3
    <3>5. QED BY <2>2, <3>4, AdminCommitHistory DEF ResolveCommit
  <2>3. QED
    BY <1>2, <2>1, <2>2, SaveTierHistory, SaveEscalateHistory, ReadHistory,
       SweepHistory, CleanupCommitHistory DEF Proceed
<1>3. ASSUME NEW w \in Workers, Abort(w) PROVE History'
  BY <1>3, ReadHistory
<1>4. ASSUME NEW c \in Content, World(c) PROVE History'
  BY <1>4, WorldHistory DEF World
<1>5. CASE UNCHANGED vars
  BY <1>5, HeldStays DEF vars, HInv, History, MemoryOK, TrailOK, Backed, Quarantines
<1>6. QED BY <1>1, <1>2, <1>3, <1>4, <1>5 DEF Next

\* The inductive invariant, of which the three theorems below are parts.
LEMMA HistoryInvariant == Spec => []HInv
<1>1. Init => HInv
  BY InitControl, InitHistory DEF HInv
<1>2. HInv /\ [Next]_vars => HInv'
  BY NextControl, NextHistory DEF HInv
<1>3. QED BY <1>1, <1>2, PTL DEF Spec

\* In every reachable state the newest committed event of an item names the
\* tier the item has, whatever handlers ran concurrently.
THEOREM AuditHeadCorrect == Spec => []AuditHeadMatchesTier
<1>1. HInv => AuditHeadMatchesTier
  BY DEF HInv, History, TrailOK, AuditHeadMatchesTier
<1>2. QED BY <1>1, HistoryInvariant, PTL

\* A commit overrules only what was committed while its request ran: the tier
\* its event names was the item's at some moment since the request began.
THEOREM OverrulesWhileItRuns == Spec => OverrulesOnlyMeanwhile
<1>1. ASSUME HInv, [Next]_vars, NEW c \in Content, log'[c] # log[c]
      PROVE  LET e == log'[c][Len(log'[c])] IN HeldSince(c, e.prev, e.at)
  <2>1. ASSUME NEW w \in Workers, NEW source \in {"save", "admin", "cleanup"},
               NEW r \in Request, r.item = req[w].item, r.item \in Content,
               CommitTier(r, source),
               HeldSince(r.item, r.prev, r.at)
        PROVE  LET e == log'[c][Len(log'[c])] IN HeldSince(c, e.prev, e.at)
    <3> DEFINE i == r.item
               e == [prev |-> r.prev, new |-> r.aim, source |-> source,
                     at |-> r.at, done |-> clock]
    <3>0. log' = [log EXCEPT ![i] = Append(@, e)]
      BY <2>1 DEF CommitTier
    <3>1. log' = [log EXCEPT ![i] = Append(@, e)] /\ log \in [Content -> Seq(Event)]
      BY <1>1, <3>0 DEF HInv, CInv, TypeOK
    <3> HIDE DEF e
    <3>2. c = i
      BY <1>1, <2>1, <3>1
    <3>3. log'[c] = Append(log[c], e) /\ log[c] \in Seq(Event)
      BY <3>1, <3>2
    <3>4. log'[c][Len(log'[c])] = e
      BY <3>3
    <3>5. e.prev = r.prev /\ e.at = r.at
      BY DEF e
    <3>6. QED BY <2>1, <3>2, <3>4, <3>5
  <2>2. ASSUME NEW w \in Workers, SaveEscalate(w)
        PROVE  LET e == log'[c][Len(log'[c])] IN HeldSince(c, e.prev, e.at)
    <3> DEFINE q == [req[w] EXCEPT !.aim = "conflicted"]
    <3>1. Quarantines(req[w].aim) /\ CommitTier(q, "save")
      BY <1>1, <2>2 DEF SaveEscalate
    <3>2. /\ req[w] \in Request /\ req[w].item \in Content
          /\ HeldSince(req[w].item, req[w].prev, req[w].at)
      <4>1. req[w] \in Request /\ RequestOK(w) /\ MemoryOK(w)
        BY <1>1, <2>2 DEF HInv, CInv, TypeOK, Control, History
      <4>2. QED BY <2>2, <3>1, <4>1 DEF RequestOK, MemoryOK, SaveEscalate, SaveSteps
    <3>3. /\ q \in Request /\ q.item = req[w].item
          /\ q.prev = req[w].prev /\ q.at = req[w].at
      BY <3>2 DEF Request, Tiers
    <3> HIDE DEF q
    <3>4. QED BY <2>1, <3>1, <3>2, <3>3
  <2>3. ASSUME NEW w \in Workers, CommitTier(req[w], "admin"),
               req[w].step \in {"resolveCommit", "overrideCommit", "rollbackCommit"}
        PROVE  LET e == log'[c][Len(log'[c])] IN HeldSince(c, e.prev, e.at)
    <3>1. /\ req[w] \in Request /\ req[w].item \in Content
          /\ HeldSince(req[w].item, req[w].prev, req[w].at)
      <4>1. req[w] \in Request /\ RequestOK(w) /\ MemoryOK(w)
        BY <1>1, <2>3 DEF HInv, CInv, TypeOK, Control, History
      <4>2. QED BY <2>3, <4>1 DEF RequestOK, MemoryOK, GovernedSteps
    <3>2. QED BY <2>1, <2>3, <3>1
  <2>4. ASSUME NEW w \in Workers, CleanupCommit(w)
        PROVE  LET e == log'[c][Len(log'[c])] IN HeldSince(c, e.prev, e.at)
    <3> DEFINE e == [prev |-> "transient", new |-> "archived", source |-> "cleanup",
                     at |-> req[w].at, done |-> clock]
    <3>1. c \in req[w].doomed /\ log'[c] = Append(log[c], e) /\ log[c] \in Seq(Event)
      BY <1>1, <2>4 DEF CleanupCommit, HInv, CInv, TypeOK
    <3>2. HeldSince(c, "transient", req[w].at)
      BY <1>1, <3>1 DEF HInv, History, MemoryOK
    <3>3. log'[c][Len(log'[c])] = e
      BY <3>1
    <3>4. QED BY <3>2, <3>3
  <2>5. ~UNCHANGED log
    BY <1>1
  <2>6. ASSUME NEW w \in Workers, Proceed(w)
        PROVE  LET e == log'[c][Len(log'[c])] IN HeldSince(c, e.prev, e.at)
    BY <2>2, <2>3, <2>4, <2>5, <2>6
    DEF Proceed, SaveTier, SaveDetectNothing, SaveDetectConflict, SaveReadTier,
        ResolveRead, ResolveCommit, OverrideCommit, RollbackReadLog, RollbackCommit,
        CleanupExpire, CleanupScan, CleanupCheck, CleanupArchive
  <2>7. \A w \in Workers : ~Start(w) /\ ~Abort(w)
    BY <2>5 DEF Start, SaveInsert, ResolveFetch, OverrideRead, RollbackRead,
       CleanupStart, LinkContent, Abort
  <2>8. ~UNCHANGED vars /\ \A d \in Content : ~World(d)
    BY <2>5 DEF vars, World, EscalationFallsDue, ContentAges
  <2>9. QED BY <1>1, <2>6, <2>7, <2>8 DEF Next
<1>2. HInv /\ [Next]_vars
        => [\A c \in Content : log'[c] # log[c] =>
              LET e == log'[c][Len(log'[c])] IN HeldSince(c, e.prev, e.at)]_vars
  BY <1>1
<1>3. QED BY <1>2, HistoryInvariant, PTL DEF Spec, OverrulesOnlyMeanwhile

\* An item in quarantine has had an escalation that requires review: neither a
\* rollback nor a warning puts it there.
THEOREM QuarantineSound == Spec => []QuarantineBacked
<1>1. HInv => QuarantineBacked
  BY DEF HInv, History, TrailOK, Backed, QuarantineBacked
<1>2. QED BY <1>1, HistoryInvariant, PTL

-----------------------------------------------------------------------------
(* The sparing part of the inductive invariant: what keeps an escalation   *)
(* from becoming pending between cleanup's check and its commit.           *)

CleanupSteps == {"cleanupExpire", "cleanupScan", "cleanupSweep"}

\* No escalation of c is pending, but for one the cleanup r is expiring.
Reviewed(r, c) == esc[c].status # "pending" \/ c \in r.hold

\* A save is of a young item; a cleanup looks only at old ones, and has seen
\* that those it archives are not under review.
SparingOK(r) ==
  /\ r.step \in SaveSteps => r.item \notin aged
  /\ r.step \in CleanupSteps => r.todo \subseteq aged
  /\ r.step = "cleanupSweep" /\ r.item # NoItem => r.item \in aged /\ Reviewed(r, r.item)
  /\ \A c \in r.doomed : c \in aged /\ Reviewed(r, c)

Sparing ==
  /\ \A c \in aged : Stored(c)
  /\ \A w \in Workers : SparingOK(req[w])

SInv == CInv /\ Sparing

\* What a request has seen stays true while nobody escalates an old item.
LEMMA SparingFrame ==
  ASSUME SInv, NEW w \in Workers, SparingOK(req[w])',
         \A v \in Workers \ {w} : req'[v] = req[v],
         aged' = aged, \A c \in aged : Stored(c)',
         \A c \in aged : esc'[c].status = "pending" => esc[c].status = "pending"
  PROVE  Sparing'
<1>1. ASSUME NEW v \in Workers \ {w} PROVE SparingOK(req[v])'
  <2>1. SparingOK(req[v]) /\ req'[v] = req[v]
    BY DEF SInv, Sparing
  <2>2. QED BY <2>1 DEF SparingOK, Reviewed
<1>2. QED BY <1>1 DEF Sparing

\* A step that writes no row.
LEMMA LocalSparing ==
  ASSUME SInv, NEW w \in Workers, NEW R, SparingOK(R),
         req' = [req EXCEPT ![w] = R], UNCHANGED <<tier, aged, esc>>
  PROVE  Sparing'
<1>1. req'[w] = R /\ \A v \in Workers \ {w} : req'[v] = req[v]
  BY DEF SInv, CInv, TypeOK
<1>2. SparingOK(req[w])'
  BY <1>1 DEF SparingOK, Reviewed
<1>3. \A c \in aged : Stored(c)'
  BY DEF SInv, Sparing, Stored
<1>4. QED BY <1>1, <1>2, <1>3, SparingFrame

\* A transaction that ends remembers nothing.
LEMMA IdleSparing == SparingOK(Idle)
BY DEF SparingOK, Idle, SaveSteps, CleanupSteps

\* A commit of the row of one item, whose escalation it may resolve.
LEMMA CommitSparing ==
  ASSUME SInv, NEW w \in Workers, Finish(w), aged' = aged, NEW i \in Content, NEW t \in Tiers,
         tier' = tier \/ tier' = [tier EXCEPT ![i] = t],
         \A c \in aged : esc'[c].status = "pending" => esc[c].status = "pending"
  PROVE  Sparing'
<1>1. req'[w] = Idle /\ \A v \in Workers \ {w} : req'[v] = req[v]
  BY FinishType DEF SInv
<1>2. SparingOK(req[w])'
  BY <1>1, NoItemAssumption DEF SparingOK, Idle, SaveSteps, CleanupSteps
<1>3. \A c \in aged : Stored(c)'
  BY DEF SInv, Sparing, CInv, TypeOK, Stored, Absent, Tiers
<1>4. QED BY <1>1, <1>2, <1>3, SparingFrame

\* The steps of a save: its item is younger than cleanup's limit.
LEMMA SaveSparing ==
  ASSUME SInv, NEW w \in Workers
  PROVE  /\ \A c \in Content : SaveInsert(w, c) => Sparing'
         /\ SaveTier(w) => Sparing'
         /\ SaveDetectNothing(w) => Sparing'
         /\ \A s \in Severities : SaveDetectConflict(w, s) => Sparing'
         /\ SaveReadTier(w) => Sparing'
         /\ SaveEscalate(w) => Sparing'
<1> DEFINE r == req[w]
<1>0. r \in Request /\ req \in [Workers -> Request] /\ RequestOK(w) /\ SparingOK(r) /\ aged \subseteq Content
  BY DEF SInv, CInv, TypeOK, Control, Sparing
<1>1. ASSUME NEW c \in Content, SaveInsert(w, c) PROVE Sparing'
  <2> DEFINE R == [Idle EXCEPT !.step = "saveTier", !.item = c]
  <2>1. req' = [req EXCEPT ![w] = R] /\ tier' = [tier EXCEPT ![c] = NoTier] /\ UNCHANGED <<aged, esc>>
        /\ ~Stored(c)
    BY <1>1 DEF SaveInsert
  <2>2. R.step = "saveTier" /\ R.item = c /\ R.doomed = {}
    BY DEF Idle
  <2>3. req'[w] = R /\ \A v \in Workers \ {w} : req'[v] = req[v]
    BY <1>0, <2>1
  <2> HIDE DEF R
  <2>4. c \notin aged
    BY <2>1 DEF SInv, Sparing
  <2>5. SparingOK(req[w])'
    BY <2>1, <2>2, <2>3, <2>4 DEF SparingOK, CleanupSteps
  <2>6. \A d \in aged : Stored(d)'
    BY <1>0, <2>1, <2>4 DEF SInv, Sparing, Stored
  <2>7. QED BY <2>1, <2>3, <2>5, <2>6, SparingFrame
<1>2. ASSUME SaveTier(w) PROVE Sparing'
  <2> DEFINE R == [r EXCEPT !.step = "saveDetect"]
  <2>1. PICK t \in RoutedTiers : tier' = [tier EXCEPT ![r.item] = t]
    BY <1>2 DEF SaveTier
  <2>2. req' = [req EXCEPT ![w] = R] /\ UNCHANGED <<aged, esc>> /\ r.step = "saveTier"
    BY <1>2 DEF SaveTier
  <2>3. R.step = "saveDetect" /\ R.item = r.item /\ R.doomed = r.doomed /\ R.hold = r.hold
    BY <1>0 DEF Request
  <2>4. req'[w] = R /\ \A v \in Workers \ {w} : req'[v] = req[v]
    BY <1>0, <2>2
  <2> HIDE DEF R
  <2>5. SparingOK(req[w])'
    BY <1>0, <2>2, <2>3, <2>4 DEF SparingOK, SaveSteps, CleanupSteps, Reviewed
  <2>6. \A d \in aged : Stored(d)'
    BY <1>0, <2>1 DEF SInv, Sparing, CInv, TypeOK, Stored, Absent, RoutedTiers
  <2>7. QED BY <2>2, <2>4, <2>5, <2>6, SparingFrame
<1>3. ASSUME SaveDetectNothing(w) PROVE Sparing'
  BY <1>3, IdleSparing, LocalSparing DEF SaveDetectNothing, Finish
<1>4. ASSUME NEW s \in Severities, SaveDetectConflict(w, s) PROVE Sparing'
  <2> DEFINE R == [r EXCEPT !.step = "saveQuarantine", !.aim = s, !.at = clock]
  <2>1. req' = [req EXCEPT ![w] = R] /\ UNCHANGED <<tier, aged, esc>> /\ r.step = "saveDetect"
    BY <1>0, <1>4 DEF SaveDetectConflict, Begin, Request
  <2>2. R.step = "saveQuarantine" /\ R.item = r.item /\ R.doomed = r.doomed /\ R.hold = r.hold
    BY <1>0 DEF Request
  <2> HIDE DEF R
  <2>3. SparingOK(R)
    BY <1>0, <2>1, <2>2 DEF SparingOK, SaveSteps, CleanupSteps, Reviewed
  <2>4. QED BY <2>1, <2>3, LocalSparing
<1>5. ASSUME SaveReadTier(w) PROVE Sparing'
  <2> DEFINE p == IF Quarantines(r.aim) THEN tier[r.item] ELSE NoTier
             R == [r EXCEPT !.step = "saveEscalate", !.prev = p]
  <2>1. req' = [req EXCEPT ![w] = R] /\ UNCHANGED <<tier, aged, esc>> /\ r.step = "saveQuarantine"
    BY <1>0, <1>5 DEF SaveReadTier, Request
  <2>2. R.step = "saveEscalate" /\ R.item = r.item /\ R.doomed = r.doomed /\ R.hold = r.hold
    BY <1>0 DEF Request
  <2> HIDE DEF R
  <2>3. SparingOK(R)
    BY <1>0, <2>1, <2>2 DEF SparingOK, SaveSteps, CleanupSteps, Reviewed
  <2>4. QED BY <2>1, <2>3, LocalSparing
<1>6. ASSUME SaveEscalate(w) PROVE Sparing'
  <2>1. /\ r.step = "saveEscalate" /\ Finish(w) /\ aged' = aged
        /\ tier' = tier \/ tier' = [tier EXCEPT ![r.item] = "conflicted"]
    BY <1>0, <1>6 DEF SaveEscalate, CommitTier, Request
  <2>2. r.item \in Content /\ r.item \notin aged
    BY <1>0, <2>1 DEF RequestOK, GovernedSteps, SparingOK, SaveSteps
  <2>3. \A c \in aged : esc'[c] = esc[c]
    BY <1>0, <1>6, <2>2 DEF SaveEscalate, SInv, CInv, TypeOK
  <2>4. "conflicted" \in Tiers
    BY DEF Tiers
  <2>5. QED BY <2>1, <2>2, <2>3, <2>4, CommitSparing
<1>7. QED BY <1>1, <1>2, <1>3, <1>4, <1>5, <1>6

\* The steps of the human gate, of an override and of a rollback.
LEMMA AdminSparing ==
  ASSUME SInv, NEW w \in Workers
  PROVE  /\ \A c \in Content, d \in {"approved", "rejected"} : ResolveFetch(w, c, d) => Sparing'
         /\ ResolveRead(w) => Sparing'
         /\ ResolveCommit(w) => Sparing'
         /\ \A c \in Content, t \in OverrideTiers : OverrideRead(w, c, t) => Sparing'
         /\ OverrideCommit(w) \/ RollbackCommit(w) => Sparing'
         /\ \A c \in Content : RollbackRead(w, c) => Sparing'
         /\ RollbackReadLog(w) => Sparing'
         /\ Abort(w) => Sparing'
<1> DEFINE r == req[w]
<1>0. r \in Request /\ req \in [Workers -> Request] /\ RequestOK(w) /\ SparingOK(r) /\ aged \subseteq Content
  BY DEF SInv, CInv, TypeOK, Control, Sparing
<1>1. ASSUME NEW R, req' = [req EXCEPT ![w] = R], UNCHANGED <<tier, aged, esc>>,
             R.step \notin SaveSteps \cup CleanupSteps, R.doomed = {}
      PROVE  Sparing'
  <2>1. SparingOK(R)
    BY <1>1 DEF SparingOK, CleanupSteps
  <2>2. QED BY <1>1, <2>1, LocalSparing
<1>2. ASSUME NEW R, req' = [req EXCEPT ![w] = R], UNCHANGED <<tier, aged, esc>>,
             R.step \notin SaveSteps \cup CleanupSteps, R.doomed = r.doomed, R.hold = r.hold
      PROVE  Sparing'
  <2>1. SparingOK(R)
    BY <1>0, <1>2 DEF SparingOK, Reviewed, CleanupSteps
  <2>2. QED BY <1>2, <2>1, LocalSparing
<1>3. ASSUME NEW c \in Content, NEW d \in {"approved", "rejected"}, ResolveFetch(w, c, d) PROVE Sparing'
  <2> DEFINE a == IF d = "approved" THEN "persistent" ELSE "archived"
             R == [Idle EXCEPT !.step = "resolveRead", !.item = c, !.aim = a, !.at = clock]
  <2>1. req' = [req EXCEPT ![w] = R] /\ UNCHANGED <<tier, aged, esc>>
    BY <1>3 DEF ResolveFetch, Begin, Idle
  <2>2. R.step \notin SaveSteps \cup CleanupSteps /\ R.doomed = {}
    BY DEF Idle, SaveSteps, CleanupSteps
  <2> HIDE DEF R
  <2>3. QED BY <1>1, <2>1, <2>2
<1>4. ASSUME ResolveRead(w) PROVE Sparing'
  <2> DEFINE R == [r EXCEPT !.step = "resolveCommit", !.prev = tier[r.item]]
  <2>1. req' = [req EXCEPT ![w] = R] /\ UNCHANGED <<tier, aged, esc>>
    BY <1>0, <1>4 DEF ResolveRead, Request
  <2>2. R.step \notin SaveSteps \cup CleanupSteps /\ R.doomed = r.doomed /\ R.hold = r.hold
    BY <1>0 DEF Request, SaveSteps, CleanupSteps
  <2> HIDE DEF R
  <2>3. QED BY <1>2, <2>1, <2>2
<1>5. ASSUME NEW i \in Content, NEW t \in Tiers, tier' = [tier EXCEPT ![i] = t],
             Finish(w), aged' = aged, \A c \in aged : esc'[c].status = "pending" => esc[c].status = "pending"
      PROVE  Sparing'
  BY <1>5, CommitSparing
<1>6. ASSUME ResolveCommit(w) PROVE Sparing'
  <2>1. /\ r.item \in Content /\ r.aim \in Tiers /\ tier' = [tier EXCEPT ![r.item] = r.aim]
        /\ Finish(w) /\ aged' = aged
    BY <1>0, <1>6 DEF RequestOK, GovernedSteps, ResolveCommit, CommitTier
  <2> DEFINE s == IF r.aim = "persistent" THEN "approved" ELSE "rejected"
  <2>2. esc' = [esc EXCEPT ![r.item].status = s] /\ s # "pending"
    BY <1>6 DEF ResolveCommit
  <2>3. /\ esc[r.item] \in Escalation \cup {NoEscalation}
        /\ esc'[r.item] = [esc[r.item] EXCEPT !.status = s]
        /\ \A c \in aged : c # r.item => esc'[c] = esc[c]
    BY <1>0, <2>1, <2>2 DEF SInv, CInv, TypeOK
  <2> HIDE DEF s
  <2>4. esc'[r.item].status # "pending"
    BY <2>2, <2>3 DEF Escalation, NoEscalation
  <2>5. \A c \in aged : esc'[c].status = "pending" => esc[c].status = "pending"
    BY <2>3, <2>4
  <2>6. QED BY <1>5, <2>1, <2>5
<1>7. ASSUME NEW c \in Content, NEW t \in OverrideTiers, OverrideRead(w, c, t) PROVE Sparing'
  <2> DEFINE R == [Idle EXCEPT !.step = "overrideCommit", !.item = c,
                               !.prev = tier[c], !.aim = t, !.at = clock]
  <2>1. req' = [req EXCEPT ![w] = R] /\ UNCHANGED <<tier, aged, esc>>
    BY <1>7 DEF OverrideRead, Begin, Idle
  <2>2. R.step \notin SaveSteps \cup CleanupSteps /\ R.doomed = {}
    BY DEF Idle, SaveSteps, CleanupSteps
  <2> HIDE DEF R
  <2>3. QED BY <1>1, <2>1, <2>2
<1>8. ASSUME OverrideCommit(w) \/ RollbackCommit(w) PROVE Sparing'
  <2>1. /\ r.item \in Content /\ r.aim \in Tiers /\ tier' = [tier EXCEPT ![r.item] = r.aim]
        /\ Finish(w) /\ aged' = aged /\ esc' = esc
    BY <1>0, <1>8 DEF RequestOK, GovernedSteps, OverrideCommit, RollbackCommit, CommitTier
  <2>2. QED BY <1>5, <2>1
<1>9. ASSUME NEW c \in Content, RollbackRead(w, c) PROVE Sparing'
  <2> DEFINE R == [Idle EXCEPT !.step = "rollbackRead", !.item = c, !.prev = tier[c], !.at = clock]
  <2>1. req' = [req EXCEPT ![w] = R] /\ UNCHANGED <<tier, aged, esc>>
    BY <1>9 DEF RollbackRead, Begin, Idle
  <2>2. R.step \notin SaveSteps \cup CleanupSteps /\ R.doomed = {}
    BY DEF Idle, SaveSteps, CleanupSteps
  <2> HIDE DEF R
  <2>3. QED BY <1>1, <2>1, <2>2
<1>10. ASSUME Finish(w), UNCHANGED <<tier, aged, esc>> PROVE Sparing'
  BY <1>10, IdleSparing, LocalSparing DEF Finish
<1>11. ASSUME RollbackReadLog(w) PROVE Sparing'
  <2>1. UNCHANGED <<tier, aged, esc>>
    BY <1>11 DEF RollbackReadLog
  <2>2. ASSUME NEW e, req' = [req EXCEPT ![w].step = "rollbackCommit", ![w].aim = e.prev] PROVE Sparing'
    <3> DEFINE R == [r EXCEPT !.step = "rollbackCommit", !.aim = e.prev]
    <3>1. req' = [req EXCEPT ![w] = R]
      BY <1>0, <2>2 DEF Request
    <3>2. R.step \notin SaveSteps \cup CleanupSteps /\ R.doomed = r.doomed /\ R.hold = r.hold
      BY <1>0 DEF Request, SaveSteps, CleanupSteps
    <3> HIDE DEF R
    <3>3. QED BY <1>2, <2>1, <3>1, <3>2
  <2>3. QED BY <1>10, <1>11, <2>1, <2>2 DEF RollbackReadLog
<1>12. ASSUME Abort(w) PROVE Sparing'
  BY <1>10, <1>12 DEF Abort
<1>13. QED BY <1>3, <1>4, <1>6, <1>7, <1>8, <1>9, <1>11, <1>12

\* The steps of cleanup: it looks only at rows that were old when it began.
LEMMA CleanupSparing ==
  ASSUME SInv, NEW w \in Workers
  PROVE  /\ CleanupStart(w) => Sparing'
         /\ CleanupExpire(w) => Sparing'
         /\ CleanupScan(w) => Sparing'
         /\ \A c \in Content : CleanupCheck(w, c) => Sparing'
         /\ CleanupArchive(w) => Sparing'
         /\ CleanupCommit(w) => Sparing'
<1> DEFINE r == req[w]
<1>0. r \in Request /\ req \in [Workers -> Request] /\ RequestOK(w) /\ SparingOK(r) /\ aged \subseteq Content
  BY DEF SInv, CInv, TypeOK, Control, Sparing
<1>1. ASSUME CleanupStart(w) PROVE Sparing'
  <2> DEFINE R == [Idle EXCEPT !.step = "cleanupExpire",
                     !.hold = StaleEscalations, !.todo = aged, !.at = clock]
  <2>1. req' = [req EXCEPT ![w] = R] /\ UNCHANGED <<tier, aged, esc>>
    BY <1>1 DEF CleanupStart, Begin, Idle
  <2>2. R.step = "cleanupExpire" /\ R.todo = aged /\ R.doomed = {}
    BY DEF Idle
  <2> HIDE DEF R
  <2>3. SparingOK(R)
    BY <2>2 DEF SparingOK, SaveSteps
  <2>4. QED BY <2>1, <2>3, LocalSparing
<1>2. ASSUME CleanupExpire(w) PROVE Sparing'
  <2> DEFINE R == [r EXCEPT !.step = "cleanupScan"]
  <2>1. req' = [req EXCEPT ![w] = R] /\ UNCHANGED <<tier, aged, esc>> /\ r.step = "cleanupExpire"
    BY <1>2 DEF CleanupExpire
  <2>2. R.step = "cleanupScan" /\ R.todo = r.todo /\ R.hold = r.hold /\ R.doomed = r.doomed
    BY <1>0 DEF Request
  <2> HIDE DEF R
  <2>3. SparingOK(R)
    BY <1>0, <2>1, <2>2 DEF SparingOK, SaveSteps, CleanupSteps, Reviewed
  <2>4. QED BY <2>1, <2>3, LocalSparing
<1>3. ASSUME CleanupScan(w) PROVE Sparing'
  <2> DEFINE R == [r EXCEPT !.step = "cleanupSweep", !.todo = CleanupCandidates(r.todo)]
  <2>1. req' = [req EXCEPT ![w] = R] /\ UNCHANGED <<tier, aged, esc>> /\ r.step = "cleanupScan"
    BY <1>0, <1>3 DEF CleanupScan, Request
  <2>2. /\ R.step = "cleanupSweep" /\ R.todo \subseteq r.todo /\ R.hold = r.hold
        /\ R.doomed = r.doomed /\ R.item = NoItem
    BY <1>0, <2>1 DEF Request, CleanupCandidates, SInv, CInv, Control, SweepOK
  <2> HIDE DEF R
  <2>3. SparingOK(R)
    BY <1>0, <2>1, <2>2 DEF SparingOK, SaveSteps, CleanupSteps, Reviewed
  <2>4. QED BY <2>1, <2>3, LocalSparing
<1>4. ASSUME NEW c \in Content, CleanupCheck(w, c) PROVE Sparing'
  <2> DEFINE i == IF Expendable(w, c) THEN c ELSE NoItem
             R == [r EXCEPT !.todo = @ \ {c}, !.item = i]
  <2>1. /\ req' = [req EXCEPT ![w] = R] /\ UNCHANGED <<tier, aged, esc>> /\ r.step = "cleanupSweep"
        /\ c \in r.todo
    BY <1>0, <1>4 DEF CleanupCheck, Request
  <2>2. /\ R.step = "cleanupSweep" /\ R.todo \subseteq r.todo /\ R.hold = r.hold
        /\ R.doomed = r.doomed /\ R.item = i
    BY <1>0, <2>1 DEF Request
  <2>3. i # NoItem => i = c /\ Reviewed(r, c)
    BY DEF Expendable, Reviewed
  <2> HIDE DEF R, i
  <2>4. SparingOK(R)
    BY <1>0, <2>1, <2>2, <2>3 DEF SparingOK, SaveSteps, CleanupSteps, Reviewed
  <2>5. QED BY <2>1, <2>4, LocalSparing
<1>5. ASSUME CleanupArchive(w) PROVE Sparing'
  <2> DEFINE R == [r EXCEPT !.doomed = @ \cup {r.item}, !.item = NoItem]
  <2>1. /\ req' = [req EXCEPT ![w] = R] /\ UNCHANGED <<tier, aged, esc>> /\ r.step = "cleanupSweep"
        /\ r.item # NoItem
    BY <1>0, <1>5 DEF CleanupArchive, Request
  <2>2. /\ R.step = "cleanupSweep" /\ R.todo = r.todo /\ R.hold = r.hold
        /\ R.doomed = r.doomed \cup {r.item} /\ R.item = NoItem
    BY <1>0, <2>1 DEF Request
  <2> HIDE DEF R
  <2>3. SparingOK(R)
    BY <1>0, <2>1, <2>2 DEF SparingOK, SaveSteps, CleanupSteps, Reviewed
  <2>4. QED BY <2>1, <2>3, LocalSparing
<1>6. ASSUME CleanupCommit(w) PROVE Sparing'
  <2>1. req'[w] = Idle /\ aged' = aged /\ \A v \in Workers \ {w} : req'[v] = req[v]
    BY <1>6, FinishType DEF CleanupCommit, SInv
  <2>2. SparingOK(req[w])'
    BY <2>1 DEF SparingOK, Idle, SaveSteps, CleanupSteps
  <2>3. \A c \in aged : Stored(c)'
    BY <1>0, <1>6, CleanupCommitEffect DEF SInv, Sparing, Stored, Absent
  <2>4. ASSUME NEW c \in aged, esc'[c].status = "pending" PROVE esc[c].status = "pending"
    <3>1. /\ esc[c] \in Escalation \cup {NoEscalation}
          /\ esc'[c] = IF c \in r.hold THEN [esc[c] EXCEPT !.status = "expired"] ELSE esc[c]
      BY <1>0, <1>6 DEF SInv, CInv, TypeOK, CleanupCommit
    <3>2. [esc[c] EXCEPT !.status = "expired"].status = "expired"
      BY <3>1 DEF Escalation, NoEscalation
    <3>3. QED BY <2>4, <3>1, <3>2
  <2>5. QED BY <2>1, <2>2, <2>3, <2>4, SparingFrame
<1>7. QED BY <1>1, <1>2, <1>3, <1>4, <1>5, <1>6

\* Time passes: an item grows old only after its save.
LEMMA WorldSparing ==
  ASSUME SInv
  PROVE  /\ \A w \in Workers, c \in Content : LinkContent(w, c) => Sparing'
         /\ \A c \in Content : EscalationFallsDue(c) => Sparing'
         /\ \A c \in Content : ContentAges(c) => Sparing'
<1>1. ASSUME NEW w \in Workers, NEW c \in Content, LinkContent(w, c) PROVE Sparing'
  BY <1>1 DEF LinkContent, SInv, Sparing, Stored, SparingOK, Reviewed
<1>2. ASSUME NEW c \in Content, EscalationFallsDue(c) PROVE Sparing'
  <2>1. /\ esc \in [Content -> Escalation \cup {NoEscalation}]
        /\ esc' = [esc EXCEPT ![c].due = TRUE] /\ UNCHANGED <<tier, aged, req>>
    BY <1>2 DEF SInv, CInv, TypeOK, EscalationFallsDue
  <2>2. \A d \in Content : esc'[d] = IF d = c THEN [esc[d] EXCEPT !.due = TRUE] ELSE esc[d]
    BY <2>1
  <2>3. [esc[c] EXCEPT !.due = TRUE].status = esc[c].status
    BY <2>1 DEF Escalation, NoEscalation
  <2>4. \A d \in Content : esc'[d].status = esc[d].status
    BY <2>2, <2>3
  <2>5. aged \subseteq Content
    BY DEF SInv, CInv, TypeOK
  <2>6. ASSUME NEW w \in Workers PROVE SparingOK(req[w])'
    <3>1. SparingOK(req[w])
      BY DEF SInv, Sparing
    <3>2. QED BY <2>1, <2>4, <2>5, <3>1 DEF SparingOK, Reviewed
  <2>7. QED BY <2>1, <2>6 DEF SInv, Sparing, Stored
<1>3. ASSUME NEW c \in Content, ContentAges(c) PROVE Sparing'
  <2>1. /\ Stored(c) /\ aged' = aged \cup {c} /\ UNCHANGED <<tier, esc, req>>
        /\ \A w \in Workers : req[w].step \in SaveSteps => req[w].item # c
    BY <1>3 DEF ContentAges
  <2>2. QED BY <2>1 DEF SInv, Sparing, SparingOK, Reviewed, Stored
<1>4. QED BY <1>1, <1>2, <1>3

LEMMA InitSparing == Init => Sparing
<1> SUFFICES ASSUME Init PROVE Sparing
  OBVIOUS
<1>1. aged = {} /\ \A w \in Workers : req[w] = Idle
  BY DEF Init
<1>2. QED BY <1>1, IdleSparing DEF Sparing

LEMMA NextSparing == SInv /\ [Next]_vars => Sparing'
<1> SUFFICES ASSUME SInv, [Next]_vars PROVE Sparing'
  OBVIOUS
<1>1. ASSUME NEW w \in Workers, Start(w) PROVE Sparing'
  BY <1>1, SaveSparing, AdminSparing, CleanupSparing, WorldSparing DEF Start
<1>2. ASSUME NEW w \in Workers, Proceed(w) PROVE Sparing'
  BY <1>2, SaveSparing, AdminSparing, CleanupSparing DEF Proceed
<1>3. ASSUME NEW w \in Workers, Abort(w) PROVE Sparing'
  BY <1>3, AdminSparing
<1>4. ASSUME NEW c \in Content, World(c) PROVE Sparing'
  BY <1>4, WorldSparing DEF World
<1>5. CASE UNCHANGED vars
  BY <1>5 DEF vars, SInv, Sparing, SparingOK, Reviewed, Stored
<1>6. QED BY <1>1, <1>2, <1>3, <1>4, <1>5 DEF Next

LEMMA SparingInvariant == Spec => []SInv
<1>1. Init => SInv
  BY InitControl, InitSparing DEF SInv
<1>2. SInv /\ [Next]_vars => SInv'
  BY NextControl, NextSparing DEF SInv
<1>3. QED BY <1>1, <1>2, PTL DEF Spec

\* A commit of the gate, of an administrator or of a save is not cleanup's.
LEMMA OthersCommit ==
  ASSUME CInv, NEW w \in Workers, CommitTier(req[w], "admin") \/ CommitTier([req[w] EXCEPT !.aim = "conflicted"], "save"),
         req[w].item \in Content, NEW c \in Content
  PROVE  ~ArchivedByCleanup(c)
<1> DEFINE i == req[w].item
<1>1. PICK e : log' = [log EXCEPT ![i] = Append(@, e)] /\ e.source # "cleanup"
  <2>1. CASE CommitTier(req[w], "admin")
    <3> DEFINE e == [prev |-> req[w].prev, new |-> req[w].aim, source |-> "admin", at |-> req[w].at, done |-> clock]
    <3>1. log' = [log EXCEPT ![i] = Append(@, e)]
      BY <2>1 DEF CommitTier
    <3>2. e.source # "cleanup"
      OBVIOUS
    <3> HIDE DEF e
    <3>3. QED BY <3>1, <3>2
  <2>2. CASE CommitTier([req[w] EXCEPT !.aim = "conflicted"], "save")
    <3> DEFINE R == [req[w] EXCEPT !.aim = "conflicted"]
               e == [prev |-> R.prev, new |-> R.aim, source |-> "save", at |-> R.at, done |-> clock]
    <3>1. R.item = i
      BY DEF CInv, TypeOK, Request
    <3>2. log' = [log EXCEPT ![i] = Append(@, e)]
      BY <2>2, <3>1 DEF CommitTier
    <3>3. e.source # "cleanup"
      OBVIOUS
    <3> HIDE DEF e
    <3>4. QED BY <3>2, <3>3
  <2>3. QED BY <2>1, <2>2
<1>2. log \in [Content -> Seq(Event)]
  BY DEF CInv, TypeOK
<1>3. CASE c # i
  BY <1>1, <1>2, <1>3 DEF ArchivedByCleanup
<1>4. CASE c = i
  <2>1. log[i] \in Seq(Event) /\ log'[i] = Append(log[i], e)
    BY <1>1, <1>2
  <2>2. Append(log[i], e)[Len(Append(log[i], e))] = e
    BY <2>1
  <2>3. QED BY <1>1, <1>4, <2>1, <2>2 DEF ArchivedByCleanup
<1>5. QED BY <1>3, <1>4

\* Cleanup archives no item under review: the row it locked is old, so nobody
\* escalates it after the check, and what was pending then it expires itself.
THEOREM CleanupKeepsPendingItems == Spec => CleanupSparesPending
<1> DEFINE Spared == \A c \in Content : ArchivedByCleanup(c) => esc'[c].status # "pending"
<1>1. ASSUME SInv, [Next]_vars PROVE Spared
  <2> SUFFICES ASSUME NEW c \in Content, ArchivedByCleanup(c) PROVE esc'[c].status # "pending"
    OBVIOUS
  <2>1. log'[c] # log[c]
    BY DEF ArchivedByCleanup
  <2>2. CInv
    BY <1>1 DEF SInv
  <2>3. ASSUME NEW w \in Workers, CleanupCommit(w) PROVE esc'[c].status # "pending"
    <3>1. c \in req[w].doomed
      BY <2>1, <2>2, <2>3, CleanupCommitEffect
    <3>2. /\ esc[c] \in Escalation \cup {NoEscalation} /\ Reviewed(req[w], c)
          /\ esc'[c] = IF c \in req[w].hold THEN [esc[c] EXCEPT !.status = "expired"] ELSE esc[c]
      BY <1>1, <2>3, <3>1 DEF SInv, Sparing, SparingOK, CInv, TypeOK, CleanupCommit
    <3>3. [esc[c] EXCEPT !.status = "expired"].status = "expired"
      BY <3>2 DEF Escalation, NoEscalation
    <3>4. QED BY <3>2, <3>3 DEF Reviewed
  <2>4. ASSUME NEW w \in Workers, Start(w) PROVE FALSE
    BY <2>1, <2>4 DEF Start, SaveInsert, ResolveFetch, OverrideRead, RollbackRead, CleanupStart, LinkContent
  <2>5. ASSUME NEW w \in Workers, SaveEscalate(w) \/ ResolveCommit(w) \/ OverrideCommit(w) \/ RollbackCommit(w)
        PROVE  FALSE
    <3>1. req[w].item \in Content
      BY <2>2, <2>5 DEF CInv, Control, RequestOK, GovernedSteps, SaveEscalate, ResolveCommit,
                        OverrideCommit, RollbackCommit
    <3>2. CommitTier(req[w], "admin") \/ CommitTier([req[w] EXCEPT !.aim = "conflicted"], "save")
      BY <2>1, <2>5 DEF SaveEscalate, ResolveCommit, OverrideCommit, RollbackCommit
    <3>3. QED BY <2>2, <3>1, <3>2, OthersCommit
  <2>6. ASSUME NEW w \in Workers, Proceed(w), ~CleanupCommit(w) PROVE FALSE
    BY <2>1, <2>5, <2>6 DEF Proceed, SaveTier, SaveDetectNothing, SaveDetectConflict, SaveReadTier, ResolveRead,
       RollbackReadLog, CleanupExpire, CleanupScan, CleanupCheck, CleanupArchive
  <2>7. ASSUME NEW w \in Workers, Abort(w) PROVE FALSE
    BY <2>1, <2>7 DEF Abort
  <2>8. ASSUME NEW d \in Content, World(d) PROVE FALSE
    BY <2>1, <2>8 DEF World, EscalationFallsDue, ContentAges
  <2>9. ~UNCHANGED vars
    BY <2>1 DEF vars
  <2>10. QED BY <1>1, <2>3, <2>4, <2>6, <2>7, <2>8, <2>9 DEF Next
<1>2. SInv /\ [Next]_vars => [Spared]_vars
  BY <1>1
<1>3. QED BY <1>2, SparingInvariant, PTL DEF Spec, CleanupSparesPending

=============================================================================
