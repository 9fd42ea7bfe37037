----------------------- MODULE DecisionLineageProofs -----------------------
(***************************************************************************)
(* The links between decisions, for every number of writers and rows.      *)
(*                                                                         *)
(* The invariant adds one fact to the properties: a writer that is past    *)
(* its SELECT aims at a row that exists.  It holds on because no decision  *)
(* is ever deleted; with it the new row's link runs backwards, and the     *)
(* mark on the old row runs forward to the end of the table.               *)
(*                                                                         *)
(* At the end what the readers answer: where a lineage is cut off, and     *)
(* which decisions are in conflict.                                        *)
(***************************************************************************)
EXTENDS DecisionLineage, WellFoundedInduction, TLAPS

\* What CreateCheck found stays true until the commit.
AimsExist ==
  \A w \in Writers :
    req[w].step \in {"insert", "mark", "commit"} => req[w].aim \in 0 .. Len(dec)

Links == LinksRunForward /\ LinksAgree /\ LastSuccessorWins

IInv == LineageTypeOK /\ AimsExist /\ Links

-----------------------------------------------------------------------------
LEMMA RequestFields ==
  ASSUME NEW r \in Request
  PROVE  /\ r.step \in {"idle", "check", "insert", "mark", "commit"}
         /\ r.aim \in Nat
         /\ r.status \in AllStatuses
         /\ r.concerns \in SUBSET Concerns
BY DEF Request

LEMMA DecisionFields ==
  ASSUME NEW row \in Decision
  PROVE  /\ row.supersedes \in Nat
         /\ row.successor \in Nat
         /\ row.status \in AllStatuses
         /\ row.concerns \in SUBSET Concerns
BY DEF Decision

\* The old row of a supersession.
LEMMA MarkedRow ==
  ASSUME NEW row \in Decision, NEW n \in Nat
  PROVE  LET mark == [row EXCEPT !.successor = n, !.status = "superseded"]
         IN  mark \in Decision /\ mark.supersedes = row.supersedes /\ mark.successor = n
BY DEF Decision, AllStatuses

LEMMA RestatedRow ==
  ASSUME NEW row \in Decision, NEW s \in AllStatuses
  PROVE  LET new == [row EXCEPT !.status = s]
         IN  /\ new \in Decision
             /\ new.supersedes = row.supersedes /\ new.successor = row.successor
BY DEF Decision

\* What the table looks like after create_decision.
LEMMA CreatedShape ==
  ASSUME dec \in Seq(Decision), NEW r \in Request
  PROVE  /\ Created(r) \in Seq(Decision)
         /\ Len(Created(r)) = Len(dec) + 1
         /\ \A d \in 1 .. Len(dec) :
              /\ Created(r)[d].supersedes = dec[d].supersedes
              /\ d # r.aim => Created(r)[d] = dec[d]
              /\ d = r.aim => Created(r)[d].successor = Len(dec) + 1
         /\ Created(r)[Len(dec) + 1] = NewRow(r)
<1> DEFINE mark(d) == [dec[d] EXCEPT !.successor = Len(dec) + 1,
                                    !.status = "superseded"]
           new(d) == IF d = r.aim THEN mark(d) ELSE dec[d]
           marked == [d \in Decisions |-> new(d)]
<1>1. /\ Decisions = 1 .. Len(dec)
      /\ Len(dec) \in Nat
      /\ \A d \in 1 .. Len(dec) : dec[d] \in Decision
  BY DEF Decisions
<1>2. NewRow(r) \in Decision
  BY RequestFields DEF NewRow, Decision
<1>3. ASSUME NEW d \in 1 .. Len(dec)
      PROVE  /\ mark(d) \in Decision
             /\ mark(d).supersedes = dec[d].supersedes
             /\ mark(d).successor = Len(dec) + 1
  <2>1. dec[d] \in Decision /\ Len(dec) + 1 \in Nat
    BY <1>1
  <2> QED
    BY <2>1, MarkedRow
<1>4. Created(r) = Append(marked, NewRow(r))
  BY DEF Created
<1> HIDE DEF mark
<1>5. ASSUME NEW d \in 1 .. Len(dec)
      PROVE  /\ new(d) \in Decision
             /\ new(d).supersedes = dec[d].supersedes
             /\ d # r.aim => new(d) = dec[d]
             /\ d = r.aim => new(d).successor = Len(dec) + 1
  BY <1>1, <1>3
<1> HIDE DEF new
<1>6. /\ marked \in [1 .. Len(dec) -> Decision]
      /\ \A d \in 1 .. Len(dec) : marked[d] = new(d)
  BY <1>1, <1>5
<1> HIDE DEF marked
<1>7. marked \in Seq(Decision) /\ Len(marked) = Len(dec)
  BY <1>1, <1>6
<1>8. /\ Created(r) \in Seq(Decision)
      /\ Len(Created(r)) = Len(dec) + 1
      /\ \A d \in 1 .. Len(dec) : Created(r)[d] = marked[d]
      /\ Created(r)[Len(dec) + 1] = NewRow(r)
  BY <1>1, <1>2, <1>4, <1>7
<1> QED
  BY <1>5, <1>6, <1>8

\* A status update changes no link.
LEMMA UpdateStatusShape ==
  ASSUME dec \in Seq(Decision), NEW d, NEW status \in AllStatuses,
         UpdateStatus(d, status)
  PROVE  /\ dec' \in Seq(Decision)
         /\ Len(dec') = Len(dec)
         /\ \A e \in 1 .. Len(dec) :
              /\ dec'[e].supersedes = dec[e].supersedes
              /\ dec'[e].successor = dec[e].successor
<1>1. /\ d \in 1 .. Len(dec) /\ Len(dec) \in Nat
      /\ \A e \in 1 .. Len(dec) : dec[e] \in Decision
  BY DEF UpdateStatus, Decisions
<1>2. dec' = [dec EXCEPT ![d] = [dec[d] EXCEPT !.status = status]]
  BY DEF UpdateStatus
<1>3. [dec[d] EXCEPT !.status = status] \in Decision
  BY <1>1, RestatedRow
<1>4. dec' \in Seq(Decision) /\ Len(dec') = Len(dec)
  BY <1>1, <1>2, <1>3
<1>5. ASSUME NEW e \in 1 .. Len(dec)
      PROVE  /\ dec'[e].supersedes = dec[e].supersedes
             /\ dec'[e].successor = dec[e].successor
  <2>1. dec[e] \in Decision
    BY <1>1
  <2>2. CASE e = d
    <3>1. dec'[e] = [dec[e] EXCEPT !.status = status]
      BY <1>1, <1>2, <2>2
    <3> QED
      BY <2>1, <3>1, RestatedRow
  <2>3. CASE e # d
    BY <1>1, <1>2, <2>3
  <2> QED
    BY <2>2, <2>3
<1> QED
  BY <1>4, <1>5

-----------------------------------------------------------------------------
LEMMA InitIInv == LineageInit => IInv
<1> SUFFICES ASSUME LineageInit PROVE IInv
  OBVIOUS
<1>1. dec = <<>> /\ Len(dec) = 0 /\ Decisions = {}
  BY DEF LineageInit, Decisions
<1>2. LineageTypeOK
  BY <1>1 DEF LineageInit, LineageTypeOK, NoCreation, Request, AllStatuses
<1>3. AimsExist
  BY DEF LineageInit, AimsExist, NoCreation
<1>4. Links
  BY <1>1 DEF Links, LinksRunForward, LinksAgree, LastSuccessorWins
<1> QED
  BY <1>2, <1>3, <1>4 DEF IInv

\* A step that leaves the table alone keeps its links.
LEMMA TableUnchanged ==
  ASSUME IInv, UNCHANGED dec
  PROVE  Links'
BY DEF IInv, Links, LinksRunForward, LinksAgree, LastSuccessorWins, Decisions

\* A new decision at the end of the table, its link backwards.
LEMMA CommitKeepsLinks ==
  ASSUME IInv, NEW w \in Writers, CreateCommit(w)
  PROVE  Links'
<1> DEFINE r == req[w]
           n == Len(dec) + 1
<1>1. /\ dec \in Seq(Decision) /\ r \in Request /\ Len(dec) \in Nat
      /\ r.aim \in 0 .. Len(dec)
      /\ r.aim \in Nat
      /\ \A d \in 1 .. Len(dec) : /\ dec[d].supersedes \in Nat
                                  /\ dec[d].successor \in Nat
  <2>1. dec \in Seq(Decision) /\ r \in Request
    BY DEF IInv, LineageTypeOK
  <2>2. r.aim \in 0 .. Len(dec)
    BY DEF IInv, AimsExist, CreateCommit
  <2>3. \A d \in 1 .. Len(dec) : dec[d] \in Decision
    BY <2>1
  <2> QED
    BY <2>1, <2>2, <2>3, RequestFields, DecisionFields
<1>2. /\ dec' \in Seq(Decision)
      /\ Len(dec') = n
      /\ \A d \in 1 .. Len(dec) :
           /\ dec'[d].supersedes = dec[d].supersedes
           /\ d # r.aim => dec'[d].successor = dec[d].successor
           /\ d = r.aim => dec'[d].successor = n
      /\ dec'[n].supersedes = r.aim
      /\ dec'[n].successor = 0
  <2>1. dec' = Created(r)
    BY DEF CreateCommit
  <2>2. NewRow(r).supersedes = r.aim /\ NewRow(r).successor = 0
    BY DEF NewRow
  <2> HIDE DEF r
  <2>3. /\ dec' \in Seq(Decision)
        /\ Len(dec') = Len(dec) + 1
        /\ \A d \in 1 .. Len(dec) :
             /\ dec'[d].supersedes = dec[d].supersedes
             /\ d # r.aim => dec'[d] = dec[d]
             /\ d = r.aim => dec'[d].successor = Len(dec) + 1
        /\ dec'[Len(dec) + 1] = NewRow(r)
    BY <1>1, <2>1, CreatedShape
  <2> QED
    BY <2>2, <2>3
<1>3. /\ Decisions = 1 .. Len(dec)
      /\ Decisions' = 1 .. n
      /\ \A d \in 1 .. n : d \in 1 .. Len(dec) \/ d = n
  BY <1>1, <1>2 DEF Decisions
<1>4. /\ \A d \in 1 .. Len(dec) :
           /\ dec[d].supersedes < d
           /\ dec[d].successor # 0 => dec[d].successor \in d + 1 .. Len(dec)
           /\ dec[d].successor # 0 => dec[dec[d].successor].supersedes = d
           /\ dec[d].supersedes # 0 => dec[dec[d].supersedes].successor # 0
      /\ \A d, e \in 1 .. Len(dec) :
           dec[e].supersedes = d => dec[d].successor >= e
  BY <1>3 DEF IInv, Links, LinksRunForward, LinksAgree, LastSuccessorWins
<1> HIDE DEF r, n
<1>5. LinksRunForward'
  <2> SUFFICES ASSUME NEW d \in 1 .. n
               PROVE  /\ dec'[d].supersedes < d
                      /\ dec'[d].successor # 0 =>
                           dec'[d].successor \in d + 1 .. n
    BY <1>2, <1>3 DEF LinksRunForward
  <2>1. CASE d = n
    BY <1>1, <1>2, <2>1 DEF n
  <2>2. CASE d \in 1 .. Len(dec)
    BY <1>1, <1>2, <1>4, <2>2 DEF n
  <2> QED
    BY <1>3, <2>1, <2>2
<1>6. LinksAgree'
  <2> SUFFICES ASSUME NEW d \in 1 .. n
               PROVE  /\ dec'[d].successor # 0 =>
                           dec'[dec'[d].successor].supersedes = d
                      /\ dec'[d].supersedes # 0 =>
                           dec'[dec'[d].supersedes].successor # 0
    BY <1>3 DEF LinksAgree
  <2>1. CASE d = n
    BY <1>1, <1>2, <2>1 DEF n
  <2>2. CASE d \in 1 .. Len(dec)
    <3>1. ASSUME dec'[d].successor # 0
          PROVE  dec'[dec'[d].successor].supersedes = d
      <4>1. CASE d = r.aim
        BY <1>2, <2>2, <4>1
      <4>2. CASE d # r.aim
        <5>1. dec'[d].successor = dec[d].successor
          BY <1>2, <2>2, <4>2
        <5>2. /\ dec[d].successor \in 1 .. Len(dec)
              /\ dec[dec[d].successor].supersedes = d
          BY <1>1, <1>4, <2>2, <3>1, <5>1
        <5> QED
          BY <1>2, <5>1, <5>2
      <4> QED
        BY <4>1, <4>2
    <3>2. ASSUME dec'[d].supersedes # 0
          PROVE  dec'[dec'[d].supersedes].successor # 0
      <4>1. dec'[d].supersedes = dec[d].supersedes
        BY <1>2, <2>2
      <4>2. /\ dec[d].supersedes \in 1 .. Len(dec)
            /\ dec[dec[d].supersedes].successor # 0
        BY <1>1, <1>4, <2>2, <3>2, <4>1
      <4>3. n # 0
        BY <1>1 DEF n
      <4> QED
        BY <1>2, <4>1, <4>2, <4>3
    <3> QED
      BY <3>1, <3>2
  <2> QED
    BY <1>3, <2>1, <2>2
<1>7. LastSuccessorWins'
  <2> SUFFICES ASSUME NEW d \in 1 .. n, NEW e \in 1 .. n, dec'[e].supersedes = d
               PROVE  dec'[d].successor >= e
    BY <1>3 DEF LastSuccessorWins
  <2>1. CASE e = n
    BY <1>1, <1>2, <2>1 DEF n
  <2>2. CASE e \in 1 .. Len(dec)
    BY <1>1, <1>2, <1>3, <1>4, <2>2 DEF n
  <2> QED
    BY <1>3, <2>1, <2>2
<1> QED
  BY <1>5, <1>6, <1>7 DEF Links

\* A status update changes no link.
LEMMA StatusKeepsLinks ==
  ASSUME IInv, NEW d, NEW status \in AllStatuses, UpdateStatus(d, status)
  PROVE  Links'
<1>1. dec \in Seq(Decision)
  BY DEF IInv, LineageTypeOK
<1>2. /\ dec' \in Seq(Decision)
      /\ Len(dec') = Len(dec)
      /\ \A e \in 1 .. Len(dec) :
           /\ dec'[e].supersedes = dec[e].supersedes
           /\ dec'[e].successor = dec[e].successor
  BY <1>1, UpdateStatusShape
<1>3. Decisions = 1 .. Len(dec) /\ Decisions' = 1 .. Len(dec)
  BY <1>1, <1>2 DEF Decisions
<1>4. \A e \in 1 .. Len(dec) :
        /\ dec[e].supersedes \in Nat /\ dec[e].supersedes < e
        /\ dec[e].successor # 0 => dec[e].successor \in e + 1 .. Len(dec)
  <2>1. \A e \in 1 .. Len(dec) : dec[e] \in Decision
    BY <1>1
  <2> QED
    BY <1>3, <2>1, DecisionFields DEF IInv, Links, LinksRunForward
<1>5. LinksRunForward'
  BY <1>2, <1>3 DEF IInv, Links, LinksRunForward
<1>6. LinksAgree'
  <2> SUFFICES ASSUME NEW e \in 1 .. Len(dec)
               PROVE  /\ dec'[e].successor # 0 =>
                           dec'[dec'[e].successor].supersedes = e
                      /\ dec'[e].supersedes # 0 =>
                           dec'[dec'[e].supersedes].successor # 0
    BY <1>3 DEF LinksAgree
  <2>1. /\ dec[e].successor # 0 => dec[dec[e].successor].supersedes = e
        /\ dec[e].supersedes # 0 => dec[dec[e].supersedes].successor # 0
    BY <1>3 DEF IInv, Links, LinksAgree
  <2>2. dec[e].successor # 0 => dec[e].successor \in 1 .. Len(dec)
    BY <1>4
  <2>3. dec[e].supersedes # 0 => dec[e].supersedes \in 1 .. Len(dec)
    BY <1>4
  <2> QED
    BY <1>2, <2>1, <2>2, <2>3
<1>7. LastSuccessorWins'
  BY <1>2, <1>3 DEF IInv, Links, LastSuccessorWins
<1> QED
  BY <1>5, <1>6, <1>7 DEF Links

-----------------------------------------------------------------------------
LEMMA NextIInv == IInv /\ [LineageNext]_lineageVars => IInv'
<1> SUFFICES ASSUME IInv, [LineageNext]_lineageVars PROVE IInv'
  OBVIOUS
<1> USE DEF Decisions
<1>0. /\ dec \in Seq(Decision) /\ Len(dec) \in Nat
      /\ DOMAIN dec = 1 .. Len(dec)
      /\ req \in [Writers -> Request] /\ byHand \subseteq DOMAIN dec
      /\ AimsExist
  BY DEF IInv, LineageTypeOK
<1>1. ASSUME NEW w \in Writers, NEW aim \in 0 .. MaxDecisions,
             NEW s \in Asked, NEW T \in SUBSET Concerns,
             CreateStart(w, aim, s, T)
      PROVE  IInv'
  <2>1. [step |-> "check", aim |-> aim, status |-> s, concerns |-> T] \in Request
    BY StatusAssumption, DecisionsAssumption DEF Request
  <2>2. LineageTypeOK'
    BY <1>0, <1>1, <2>1 DEF CreateStart, LineageTypeOK
  <2>3. AimsExist'
    BY <1>0, <1>1 DEF CreateStart, AimsExist
  <2> QED
    BY <1>1, <2>2, <2>3, TableUnchanged DEF CreateStart, IInv
<1>2. ASSUME NEW w \in Writers, CreateCheck(w)
      PROVE  IInv'
  <2>1. [req[w] EXCEPT !.step = "insert"] \in Request /\ NoCreation \in Request
    BY <1>0 DEF Request, NoCreation, AllStatuses
  <2>2. LineageTypeOK'
    BY <1>0, <1>2, <2>1 DEF CreateCheck, Goto, LineageTypeOK
  <2>3. AimsExist'
    <3>1. /\ dec' = dec
          /\ \A v \in Writers \ {w} : req'[v] = req[v]
      BY <1>0, <1>2 DEF CreateCheck, Goto
    <3>2. CASE req[w].aim \in Decisions \cup {0}
      <4>1. req'[w] = [req[w] EXCEPT !.step = "insert"]
        BY <1>0, <1>2, <3>2 DEF CreateCheck, Goto
      <4>2. req'[w].aim = req[w].aim
        BY <1>0, <4>1 DEF Request
      <4> QED
        BY <1>0, <3>1, <3>2, <4>2 DEF AimsExist
    <3>3. CASE req[w].aim \notin Decisions \cup {0}
      <4>1. req'[w] = NoCreation
        BY <1>0, <1>2, <3>3 DEF CreateCheck
      <4>2. req'[w].aim = 0 /\ req'[w].step = "idle"
        BY <4>1 DEF NoCreation
      <4> QED
        BY <1>0, <3>1, <4>2 DEF AimsExist
    <3> QED
      BY <3>2, <3>3
  <2> QED
    BY <1>2, <2>2, <2>3, TableUnchanged DEF CreateCheck, IInv
<1>3. ASSUME NEW w \in Writers, CreateInsert(w)
      PROVE  IInv'
  <2>1. \A step \in {"commit", "mark"} : [req[w] EXCEPT !.step = step] \in Request
    BY <1>0 DEF Request
  <2>2. LineageTypeOK'
    BY <1>0, <1>3, <2>1 DEF CreateInsert, Goto, LineageTypeOK
  <2>3. AimsExist'
    BY <1>0, <1>3 DEF CreateInsert, Goto, AimsExist, Request
  <2> QED
    BY <1>3, <2>2, <2>3, TableUnchanged DEF CreateInsert, IInv
<1>4. ASSUME NEW w \in Writers, CreateMark(w)
      PROVE  IInv'
  <2>1. [req[w] EXCEPT !.step = "commit"] \in Request
    BY <1>0 DEF Request
  <2>2. LineageTypeOK'
    BY <1>0, <1>4, <2>1 DEF CreateMark, Goto, LineageTypeOK
  <2>3. AimsExist'
    BY <1>0, <1>4 DEF CreateMark, Goto, AimsExist, Request
  <2> QED
    BY <1>4, <2>2, <2>3, TableUnchanged DEF CreateMark, IInv
<1>5. ASSUME NEW w \in Writers, CreateCommit(w)
      PROVE  IInv'
  <2>1. req[w] \in Request /\ NoCreation \in Request
    BY <1>0 DEF NoCreation, Request, AllStatuses
  <2>2. dec' \in Seq(Decision) /\ Len(dec') = Len(dec) + 1
    BY <1>0, <1>5, <2>1, CreatedShape DEF CreateCommit
  <2>3. LineageTypeOK'
    BY <1>0, <1>5, <2>1, <2>2 DEF CreateCommit, LineageTypeOK
  <2>4. AimsExist'
    BY <1>0, <1>5, <2>2 DEF CreateCommit, AimsExist, NoCreation
  <2> QED
    BY <1>5, <2>3, <2>4, CommitKeepsLinks DEF IInv
<1>6. ASSUME NEW w \in Writers, Abort(w)
      PROVE  IInv'
  <2>1. NoCreation \in Request
    BY DEF NoCreation, Request, AllStatuses
  <2>2. LineageTypeOK'
    BY <1>0, <1>6, <2>1 DEF Abort, LineageTypeOK
  <2>3. AimsExist'
    BY <1>0, <1>6 DEF Abort, AimsExist, NoCreation
  <2> QED
    BY <1>6, <2>2, <2>3, TableUnchanged DEF Abort, IInv
<1>7. ASSUME NEW d \in Decisions, NEW s \in Asked, UpdateStatus(d, s)
      PROVE  IInv'
  <2>1. s \in AllStatuses
    BY StatusAssumption
  <2>2. dec' \in Seq(Decision) /\ Len(dec') = Len(dec)
    BY <1>0, <1>7, <2>1, UpdateStatusShape
  <2>3. LineageTypeOK'
    BY <1>0, <1>7, <2>2 DEF UpdateStatus, LineageTypeOK
  <2>4. AimsExist'
    BY <1>0, <1>7, <2>2 DEF UpdateStatus, AimsExist
  <2> QED
    BY <1>7, <2>1, <2>3, <2>4, StatusKeepsLinks DEF IInv
<1>8. CASE UNCHANGED lineageVars
  BY <1>8 DEF lineageVars, IInv, LineageTypeOK, AimsExist, Links, LinksRunForward, LinksAgree,
              LastSuccessorWins
<1> QED
  BY <1>1, <1>2, <1>3, <1>4, <1>5, <1>6, <1>7, <1>8 DEF LineageNext

\* Every variable keeps its type.
THEOREM DecisionTypes == LineageSpec => []LineageTypeOK
<1>1. IInv => LineageTypeOK
  BY DEF IInv
<1> QED
  BY <1>1, InitIInv, NextIInv, PTL DEF LineageSpec

\* No lineage runs in a circle: a decision supersedes only older ones and is
\* succeeded only by newer ones, however creators interleave or fail.
THEOREM LineageAcyclic == LineageSpec => []LinksRunForward
<1>1. IInv => LinksRunForward
  BY DEF IInv, Links
<1> QED
  BY <1>1, InitIInv, NextIInv, PTL DEF LineageSpec

\* The two links written by create_decision always agree.
THEOREM LineageAgrees == LineageSpec => []LinksAgree
<1>1. IInv => LinksAgree
  BY DEF IInv, Links
<1> QED
  BY <1>1, InitIInv, NextIInv, PTL DEF LineageSpec

\* The successor is the last decision to commit that supersedes this one.
THEOREM LastSuccessor == LineageSpec => []LastSuccessorWins
<1>1. IInv => LastSuccessorWins
  BY DEF IInv, Links
<1> QED
  BY <1>1, InitIInv, NextIInv, PTL DEF LineageSpec

-----------------------------------------------------------------------------
(* The walk along a lineage is a recursive function.  That there is one    *)
(* with its equation is shown by induction on the depth: a least depth     *)
(* without one cannot be.                                                  *)

LEMMA Least ==
  ASSUME NEW S \in SUBSET Nat, S # {}
  PROVE  \E m \in S : \A s \in S : m <= s
<1> DEFINE R == OpToRel(<, Nat)
<1>1. \E x \in S : \A y \in S : ~ (<<y, x>> \in R)
  <2>1. IsWellFoundedOn(R, Nat)
    BY NatLessThanWellFounded
  <2> HIDE DEF R
  <2> QED
    BY <2>1, WFMin
<1>2. PICK x \in S : \A y \in S : ~ (y < x)
  BY <1>1 DEF OpToRel
<1>3. ASSUME NEW y \in S PROVE x <= y
  <2>1. ~ (y < x) /\ x \in Nat /\ y \in Nat
    BY <1>2
  <2> HIDE DEF R
  <2> QED
    BY <2>1
<1> QED
  BY <1>3

Following(n, link) == IF n = 0 THEN 0 ELSE dec[n][link]
IsWalk(g, d, link, depth) ==
  g = [n \in 0 .. depth |-> IF n = 0 THEN d ELSE Following(g[n - 1], link)]

LEMMA WalkExists ==
  ASSUME NEW d, NEW link, NEW depth \in Nat
  PROVE  \E g : IsWalk(g, d, link, depth)
<1> DEFINE S == {n \in Nat : ~ \E g : IsWalk(g, d, link, n)}
<1> SUFFICES ASSUME S # {} PROVE FALSE
  OBVIOUS
<1>1. PICK least \in S : \A s \in S : least <= s
  <2>1. S \subseteq Nat
    OBVIOUS
  <2> HIDE DEF S
  <2> QED
    BY <2>1, Least
<1>2. least \in Nat /\ ~ \E g : IsWalk(g, d, link, least)
  OBVIOUS
<1>3. least # 0
  <2>1. IsWalk([n \in 0 .. 0 |-> d], d, link, 0)
    <3> DEFINE g == [n \in 0 .. 0 |-> d]
    <3>1. [n \in 0 .. 0 |-> IF n = 0 THEN d ELSE Following(g[n - 1], link)] = g
      OBVIOUS
    <3> QED
      BY <3>1 DEF IsWalk
  <2> QED
    BY <1>2, <2>1
<1> DEFINE before == least - 1
<1>4. before \in Nat /\ before \notin S /\ least = before + 1
  <2>1. before \in Nat /\ ~ (least <= before) /\ least = before + 1
    BY <1>2, <1>3
  <2> HIDE DEF S, before
  <2> QED
    BY <1>1, <2>1
<1> HIDE DEF before
<1>5. PICK g : IsWalk(g, d, link, before)
  BY <1>4
<1> HIDE DEF S
<1> DEFINE h == [n \in 0 .. least |-> IF n <= before THEN g[n] ELSE Following(g[before], link)]
<1>6. \A n \in 0 .. before : g[n] = IF n = 0 THEN d ELSE Following(g[n - 1], link)
  BY <1>5 DEF IsWalk
<1>7. ASSUME NEW n \in 0 .. least
      PROVE  h[n] = IF n = 0 THEN d ELSE Following(h[n - 1], link)
  <2>1. CASE n <= before
    <3>1. n \in 0 .. before /\ h[n] = g[n]
      BY <1>4, <2>1
    <3>2. n # 0 => h[n - 1] = g[n - 1]
      BY <1>4, <2>1
    <3> QED
      BY <1>6, <3>1, <3>2
  <2>2. CASE ~ (n <= before)
    <3>1. n = least /\ n # 0 /\ n - 1 = before /\ before \in 0 .. least
      BY <1>2, <1>4, <2>2
    <3>2. h[n] = Following(g[before], link) /\ h[n - 1] = g[before]
      BY <1>4, <2>2, <3>1
    <3> QED
      BY <3>1, <3>2
  <2> QED
    BY <2>1, <2>2
<1>8. h = [n \in 0 .. least |-> IF n = 0 THEN d ELSE Following(h[n - 1], link)]
  BY <1>7
<1>9. IsWalk(h, d, link, least)
  <2> HIDE DEF h
  <2> QED
    BY <1>8 DEF IsWalk
<1> QED
  BY <1>2, <1>9

LEMMA WalkIsWalk ==
  ASSUME NEW d, NEW link
  PROVE  /\ Walk(d, link)[0] = d
         /\ \A n \in 0 .. DepthLimit - 1 : Walk(d, link)[n + 1] = Following(Walk(d, link)[n], link)
<1>1. DepthLimit \in Nat \ {0}
  BY DepthAssumption
<1>2. IsWalk(Walk(d, link), d, link, DepthLimit)
  <2>1. \E g : IsWalk(g, d, link, DepthLimit)
    BY <1>1, WalkExists
  <2> QED
    BY <2>1 DEF Walk, IsWalk, Following
<1> DEFINE w == Walk(d, link)
<1>3. w = [n \in 0 .. DepthLimit |-> IF n = 0 THEN d ELSE Following(w[n - 1], link)]
  BY <1>2 DEF IsWalk
<1> HIDE DEF w
<1>4. \A n \in 0 .. DepthLimit : w[n] = IF n = 0 THEN d ELSE Following(w[n - 1], link)
  BY <1>3
<1>5. w[0] = d
  BY <1>1, <1>4
<1>6. ASSUME NEW n \in 0 .. DepthLimit - 1
      PROVE  w[n + 1] = Following(w[n], link)
  <2>1. n + 1 \in 0 .. DepthLimit /\ n + 1 # 0 /\ (n + 1) - 1 = n
    BY <1>1
  <2> QED
    BY <1>4, <2>1
<1> QED
  BY <1>5, <1>6 DEF w

\* Where a walk of less than the limit ends, the link is empty.
LEMMA WalkEnds ==
  ASSUME NEW d, d # 0, NEW link, ~ (DepthOf(Walk(d, link)) >= DepthLimit)
  PROVE  \E n \in 0 .. DepthLimit : /\ Walk(d, link)[n] # 0
                                    /\ dec[Walk(d, link)[n]][link] = 0
<1> DEFINE w == Walk(d, link)
           Last(n) == w[n] # 0 /\ (n = DepthLimit \/ w[n + 1] = 0)
<1>1. DepthLimit \in Nat \ {0}
  BY DepthAssumption
<1>2. /\ w[0] = d
      /\ \A n \in 0 .. DepthLimit - 1 : w[n + 1] = Following(w[n], link)
  BY WalkIsWalk
<1>3. DepthOf(w) = CHOOSE n \in 0 .. DepthLimit : Last(n)
  BY DEF DepthOf
<1>4. ~ (DepthOf(w) >= DepthLimit)
  OBVIOUS
<1> HIDE DEF w
<1>5. \E n \in 0 .. DepthLimit : Last(n)
  <2> DEFINE S == {n \in 0 .. DepthLimit : n = DepthLimit \/ w[n + 1] = 0}
  <2>1. S \subseteq Nat /\ DepthLimit \in S
    BY <1>1
  <2>2. PICK m \in S : \A s \in S : m <= s
    <3> HIDE DEF S
    <3> QED
      BY <2>1, Least
  <2>3. w[m] # 0
    <3>1. CASE m = 0
      BY <1>2, <3>1
    <3>2. CASE m # 0
      <4>1. m - 1 \in 0 .. DepthLimit /\ m - 1 \in Nat /\ (m - 1) + 1 = m /\ ~ (m <= m - 1)
        BY <1>1, <3>2
      <4>2. m - 1 \notin S
        <5> HIDE DEF S
        <5> QED
          BY <2>2, <4>1
      <4> QED
        BY <4>1, <4>2
    <3> QED
      BY <3>1, <3>2
  <2> QED
    BY <2>3
<1>6. DepthOf(w) \in 0 .. DepthLimit /\ Last(DepthOf(w))
  <2> HIDE DEF Last
  <2> QED
    BY <1>3, <1>5
<1>7. DepthOf(w) \in 0 .. DepthLimit - 1 /\ DepthOf(w) # DepthLimit
  BY <1>1, <1>4, <1>6
<1>8. w[DepthOf(w)] # 0 /\ w[DepthOf(w) + 1] = 0
  BY <1>6, <1>7
<1>9. dec[w[DepthOf(w)]][link] = 0
  BY <1>2, <1>7, <1>8 DEF Following
<1> QED
  BY <1>6, <1>8, <1>9 DEF w

LEMMA CutOff == dec \in Seq(Decision) => CutOffIsReported
<1> SUFFICES ASSUME dec \in Seq(Decision), NEW d \in Decisions, ~LimitReached(d)
             PROVE  /\ \E a \in Ancestors(d) \cup {d} : dec[a].supersedes = 0
                    /\ \E b \in Descendants(d) \cup {d} : dec[b].successor = 0
  BY DEF CutOffIsReported
<1>1. d # 0
  BY DEF Decisions
<1>2. /\ ~ (DepthOf(Walk(d, "supersedes")) >= DepthLimit)
      /\ ~ (DepthOf(Walk(d, "successor")) >= DepthLimit)
  BY DEF LimitReached
<1>3. ASSUME NEW link, NEW n \in 0 .. DepthLimit, Walk(d, link)[n] # 0
      PROVE  Walk(d, link)[n] \in ({Walk(d, link)[m] : m \in 1 .. DepthLimit} \ {0}) \cup {d}
  <2>1. CASE n = 0
    BY <2>1, WalkIsWalk
  <2>2. CASE n # 0
    <3>1. n \in 1 .. DepthLimit
      BY <2>2, DepthAssumption
    <3> QED
      BY <1>3, <3>1
  <2> QED
    BY <2>1, <2>2
<1>4. \E a \in Ancestors(d) \cup {d} : dec[a].supersedes = 0
  <2>1. PICK n \in 0 .. DepthLimit : /\ Walk(d, "supersedes")[n] # 0
                                     /\ dec[Walk(d, "supersedes")[n]]["supersedes"] = 0
    BY <1>1, <1>2, WalkEnds
  <2>2. Walk(d, "supersedes")[n] \in Ancestors(d) \cup {d}
    BY <1>3, <2>1 DEF Ancestors
  <2> QED
    BY <2>1, <2>2
<1>5. \E b \in Descendants(d) \cup {d} : dec[b].successor = 0
  <2>1. PICK n \in 0 .. DepthLimit : /\ Walk(d, "successor")[n] # 0
                                     /\ dec[Walk(d, "successor")[n]]["successor"] = 0
    BY <1>1, <1>2, WalkEnds
  <2>2. Walk(d, "successor")[n] \in Descendants(d) \cup {d}
    BY <1>3, <2>1 DEF Descendants
  <2> QED
    BY <2>1, <2>2
<1> QED
  BY <1>4, <1>5

-----------------------------------------------------------------------------
(* What was replaced is marked, or somebody has set its status since.      *)

ReplacedIsMarked ==
  \A d, e \in Decisions : dec[e].supersedes = d => dec[d].status = "superseded" \/ d \in byHand

LEMMA MarkedStep ==
  ASSUME IInv, ReplacedIsMarked, [LineageNext]_lineageVars
  PROVE  ReplacedIsMarked'
<1>1. /\ dec \in Seq(Decision) /\ Len(dec) \in Nat /\ Decisions = 1 .. Len(dec)
      /\ \A w \in Writers : req[w] \in Request
      /\ \A d \in 1 .. Len(dec) : dec[d] \in Decision
  BY DEF IInv, LineageTypeOK, Decisions
<1>2. CASE UNCHANGED <<dec, byHand>>
  BY <1>2 DEF ReplacedIsMarked, Decisions
<1>3. ASSUME NEW w \in Writers, CreateCommit(w)
      PROVE  ReplacedIsMarked'
  <2> DEFINE aim == req[w].aim
             n == Len(dec) + 1
  <2>1. aim \in 0 .. Len(dec)
    BY <1>3 DEF IInv, AimsExist, CreateCommit
  <2>2. /\ Len(dec') = n /\ dec' \in Seq(Decision) /\ byHand' = byHand \ {aim}
        /\ \A d \in 1 .. Len(dec) : /\ dec'[d].supersedes = dec[d].supersedes
                                    /\ d # aim => dec'[d] = dec[d]
        /\ dec'[n] = NewRow(req[w])
    BY <1>1, <1>3, CreatedShape DEF CreateCommit
  <2>3. aim \in 1 .. Len(dec) => dec'[aim].status = "superseded"
    <3> SUFFICES ASSUME aim \in 1 .. Len(dec) PROVE dec'[aim].status = "superseded"
      OBVIOUS
    <3> DEFINE marked == [d \in Decisions |->
                 IF d = aim
                 THEN [dec[d] EXCEPT !.successor = Len(dec) + 1, !.status = "superseded"]
                 ELSE dec[d]]
    <3>1. dec' = Append(marked, NewRow(req[w]))
      BY <1>3 DEF CreateCommit, Created
    <3>2. marked[aim] = [dec[aim] EXCEPT !.successor = Len(dec) + 1, !.status = "superseded"]
      BY <1>1
    <3>3. marked[aim].status = "superseded"
      BY <1>1, <3>2 DEF Decision
    <3>4. DOMAIN marked = 1 .. Len(dec)
      BY <1>1
    <3>5. dec'[aim] = marked[aim]
      <4>1. Len(marked) = Len(dec)
        BY <1>1, <3>4
      <4> HIDE DEF marked, aim
      <4> QED
        BY <1>1, <3>1, <4>1
    <3> QED
      BY <3>3, <3>5
  <2>4. NewRow(req[w]).supersedes = aim
    BY DEF NewRow
  <2>5. Decisions' = 1 .. n /\ \A d \in 1 .. n : d \in 1 .. Len(dec) \/ d = n
    BY <1>1, <2>2 DEF Decisions
  <2>6. n \notin 1 .. Len(dec) /\ aim # n
    BY <1>1, <2>1
  <2>7. \A e \in 1 .. Len(dec) : dec[e].supersedes # n
    <3>1. \A e \in 1 .. Len(dec) : dec[e].supersedes \in Nat /\ dec[e].supersedes < e
      BY <1>1, DecisionFields DEF IInv, Links, LinksRunForward
    <3> QED
      BY <1>1, <3>1
  <2>8. \A d, e \in 1 .. Len(dec) :
          dec[e].supersedes = d => dec[d].status = "superseded" \/ d \in byHand
    BY <1>1 DEF ReplacedIsMarked
  <2> HIDE DEF n, aim
  <2>9. ASSUME NEW d \in 1 .. n, NEW e \in 1 .. n, dec'[e].supersedes = d
        PROVE  dec'[d].status = "superseded" \/ d \in byHand'
    <3>1. CASE e = n
      BY <2>2, <2>3, <2>4, <2>5, <2>6, <2>9, <3>1
    <3>2. CASE e \in 1 .. Len(dec)
      <4>1. d \in 1 .. Len(dec) /\ dec[e].supersedes = d
        BY <2>2, <2>5, <2>7, <2>9, <3>2
      <4> QED
        BY <2>2, <2>3, <2>8, <3>2, <4>1
    <3> QED
      BY <2>5, <3>1, <3>2
  <2> QED
    BY <2>5, <2>9 DEF ReplacedIsMarked
<1>4. ASSUME NEW d \in Decisions, NEW s \in Asked, UpdateStatus(d, s)
      PROVE  ReplacedIsMarked'
  <2>1. s \in AllStatuses
    BY StatusAssumption
  <2>2. /\ dec' \in Seq(Decision) /\ Len(dec') = Len(dec)
        /\ \A e \in 1 .. Len(dec) : dec'[e].supersedes = dec[e].supersedes
    BY <1>1, <1>4, <2>1, UpdateStatusShape
  <2>3. byHand' = byHand \cup {d} /\ \A e \in 1 .. Len(dec) : e # d => dec'[e] = dec[e]
    BY <1>1, <1>4 DEF UpdateStatus
  <2>4. Decisions' = Decisions
    BY <1>1, <2>2 DEF Decisions
  <2> QED
    BY <1>1, <2>2, <2>3, <2>4 DEF ReplacedIsMarked
<1>5. \/ UNCHANGED <<dec, byHand>>
      \/ \E w \in Writers : CreateCommit(w)
      \/ \E d \in Decisions, s \in Asked : UpdateStatus(d, s)
  BY DEF LineageNext, lineageVars, CreateStart, CreateCheck, CreateInsert, CreateMark, Abort
<1> QED
  BY <1>2, <1>3, <1>4, <1>5

\* A lineage is never cut off silently, for any table and any depth limit: if the limit is
\* not reported, the walk back ends at a decision that superseded nothing, and the walk
\* forward at one that nothing superseded (get_lineage, depth_limit_reached).
THEOREM CutOffReported == LineageSpec => []CutOffIsReported
<1>1. IInv => CutOffIsReported
  BY CutOff DEF IInv, LineageTypeOK
<1> QED
  BY <1>1, InitIInv, NextIInv, PTL DEF LineageSpec

\* list_conflicts reports no decision against one that replaced it, however many writers and
\* whatever they do to the statuses, unless a caller has set the status of the old one since.
THEOREM ReplacedStaysOut == LineageSpec => []ReplacedDoesNotConflict
<1>1. LineageInit => ReplacedIsMarked
  BY DEF LineageInit, ReplacedIsMarked, Decisions
<1>2. ReplacedIsMarked => ReplacedDoesNotConflict
  BY DEF ReplacedIsMarked, ReplacedDoesNotConflict, Conflicts
<1> QED
  BY <1>1, <1>2, InitIInv, NextIInv, MarkedStep, PTL DEF LineageSpec
=============================================================================
