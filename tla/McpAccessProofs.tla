-------------------------- MODULE McpAccessProofs --------------------------
(***************************************************************************)
(* Proofs about McpAccess, for any workspaces, memberships and             *)
(* configurations, any number of repeated calls, and any bounds on changes *)
(* and faults: types, that a call acts as its caller, that no handler is   *)
(* entered on a right that was gone when its request was sent, and that    *)
(* what is reported as linked is whole.                                    *)
(***************************************************************************)
EXTENDS McpAccess, SequenceTheorems, TLAPS

SaveAndLink == "save_and_link_to_hub"

\* A request that is somewhere in the API, or answered and not yet forgotten.
Active(q) == q.at \notin {"none", "gone"}

Endpoint(k) == Plan(k)[k.step]

\* The client of a call is the caller's where the configuration asks for that.
Bound(k) ==
  /\ k.token \in Subjects
  /\ k.tool = "rest" \/ deployment.transport = "api_key" => k.token = Caller
  /\ k.tool # "rest" /\ deployment.transport = "api_key" => k.defaultWs \in Workspaces

Within(h, g) ==
  /\ h.key => g.key
  /\ h.subject => g.subject
  /\ h.member \subseteq g.member
  /\ h.open \subseteq g.open

\* What a call k, its request q and the rights s noted for it say of each other.
Admitted(k, q, s) ==
  /\ k.at \notin {"wait", "done"} => ~Active(q)
  /\ k.at \in {"bearer", "membership", "client"} => k.tool # "rest"
  /\ k.at \in {"send", "wait"} \/ Active(q) => Bound(k)
  /\ Active(q) => /\ q.token = k.token /\ q.header = Selected(k)
                  /\ Within(Holds(Bearer(q.token), Endpoint(k)), s)
  /\ q.at \in {"member", "audit"} => deployment.database
  /\ deployment.database =>
       /\ q.at \in {"key", "member", "audit", "handler"} =>
            q.ws \in s.open /\ (q.header # None => q.ws = q.header)
       /\ q.at \in {"member", "audit", "handler"} =>
            /\ q.who = Bearer(q.token) /\ s.subject
            /\ deployment.auth = "api_key" => s.key
       /\ q.at \in {"audit", "handler"} => q.ws \in s.member

\* How far save_and_link_to_hub has come with the text, the summary and the link:
\* S, M and L are the workspaces with each of them.
Linking(k, q, S, M, L) ==
  /\ k.answer = "ok" => k.at = "done"
  /\ Active(q) /\ q.at # "answered" => q.answer # "ok"
  /\ k.tool = SaveAndLink =>
       /\ k.at \in {"send", "wait"} =>
            /\ k.step \in 1 .. Len(Plan(k))
            /\ k.step >= 2 => k.content \in S
            /\ k.step = 3 => k.content \in M
       /\ k.at = "wait" /\ Active(q) =>
            /\ k.step >= 2 => q.content = k.content
            /\ q.answer = "ok" =>
                 /\ Endpoint(k) = "create_content" => q.content \in S
                 /\ Endpoint(k) = "set_quick_summary" => q.content \in M
                 /\ Endpoint(k) = "link_content" => q.content \in L
       /\ k.answer = "ok" => /\ k.content \in S \cap L
                             /\ k.summary => k.content \in M

AInv ==
  /\ TypeOK
  /\ \A c \in Calls : /\ Admitted(call[c], request[c], since[c])
                       /\ Linking(call[c], request[c], saved, summarised, linked)

-----------------------------------------------------------------------------
(* The plan of save_and_link_to_hub.                                       *)

\* A table joined from two.
LEMMA Joined ==
  ASSUME NEW f, NEW g, NEW t
  PROVE  /\ t \notin DOMAIN f /\ t \notin DOMAIN g => t \notin DOMAIN (f ++ g)
         /\ t \notin DOMAIN f /\ t \in DOMAIN g =>
              t \in DOMAIN (f ++ g) /\ (f ++ g)[t] = g[t]
         /\ t \in DOMAIN f => t \in DOMAIN (f ++ g) /\ (f ++ g)[t] = f[t]
BY DEF ++

LEMMA SaveAndLinkTool == Method["save_and_link_to_hub"] = "save_and_link_to_hub"
<1> DEFINE t == "save_and_link_to_hub"
           A == ContentTools ++ HubTools
           B == A ++ QueryTools
           C == B ++ ReviewTools
           D == C ++ GraphTools
<1>1. GraphTools[t] = t /\ t \in DOMAIN GraphTools
  BY DEF GraphTools
<1>2. t \notin DOMAIN ContentTools
  BY DEF ContentTools
<1>3. t \notin DOMAIN HubTools
  BY DEF HubTools
<1>4. t \notin DOMAIN QueryTools /\ t \notin DOMAIN ReviewTools
  BY DEF QueryTools, ReviewTools
<1>5. Method = D ++ DecisionTools
  BY DEF Method
<1> HIDE DEF t
<1>6. t \notin DOMAIN A
  BY <1>2, <1>3, Joined
<1>7. t \notin DOMAIN B
  <2> HIDE DEF A
  <2> QED
    BY <1>4, <1>6, Joined
<1>8. t \notin DOMAIN C
  <2> HIDE DEF B
  <2> QED
    BY <1>4, <1>7, Joined
<1>9. t \in DOMAIN D /\ D[t] = t
  <2> HIDE DEF C
  <2> QED
    BY <1>1, <1>8, Joined
<1>10. Method[t] = t
  <2> HIDE DEF D
  <2> QED
    BY <1>5, <1>9, Joined
<1> QED
  BY <1>10 DEF t

LEMMA SaveAndLinkRequests ==
  Requests["save_and_link_to_hub"] = <<"create_content", "set_quick_summary", "link_content">>
<1> DEFINE t == "save_and_link_to_hub"
           p == <<"create_content", "set_quick_summary", "link_content">>
           A == ContentMethods ++ HubMethods
           B == A ++ ReviewMethods
<1>1. ReviewMethods[t] = p /\ t \in DOMAIN ReviewMethods
  BY DEF ReviewMethods
<1>2. t \notin DOMAIN ContentMethods /\ t \notin DOMAIN HubMethods
  BY DEF ContentMethods, HubMethods
<1>3. Requests = B ++ DecisionMethods
  BY DEF Requests
<1> HIDE DEF t, p
<1>4. t \notin DOMAIN A
  BY <1>2, Joined
<1>5. t \in DOMAIN B /\ B[t] = p
  <2> HIDE DEF A
  <2> QED
    BY <1>1, <1>4, Joined
<1>6. Requests[t] = p
  <2> HIDE DEF B
  <2> QED
    BY <1>3, <1>5, Joined
<1> QED
  BY <1>6 DEF t, p

LEMMA LinkPlan ==
  ASSUME NEW k, k.tool = SaveAndLink
  PROVE  Plan(k) = IF k.summary THEN <<"create_content", "set_quick_summary", "link_content">>
                   ELSE <<"create_content", "link_content">>
BY SaveAndLinkTool, SaveAndLinkRequests DEF Plan, SaveAndLink

\* Its places, from the first request to the last.
LEMMA LinkSteps ==
  ASSUME NEW k, k.tool = SaveAndLink, k.step \in 1 .. Len(Plan(k))
  PROVE  /\ k.step \in 1 .. 3
         /\ k.step = 1 => Endpoint(k) = "create_content" /\ k.step # Len(Plan(k))
         /\ k.step = Len(Plan(k)) => Endpoint(k) = "link_content" /\ k.step >= 2
         /\ k.step = Len(Plan(k)) /\ k.summary => k.step = 3
         /\ k.step # 1 /\ k.step # Len(Plan(k)) =>
              Endpoint(k) = "set_quick_summary" /\ k.step = 2
<1>1. CASE k.summary
  <2>1. Plan(k) = <<"create_content", "set_quick_summary", "link_content">>
    BY <1>1, LinkPlan
  <2> QED
    BY <1>1, <2>1 DEF Endpoint
<1>2. CASE ~k.summary
  <2>1. Plan(k) = <<"create_content", "link_content">>
    BY <1>2, LinkPlan
  <2> QED
    BY <1>2, <2>1 DEF Endpoint
<1> QED
  BY <1>1, <1>2

-----------------------------------------------------------------------------
(* One call changes.                                                       *)

LEMMA CallTypes ==
  ASSUME AInv, NEW c \in Calls
  PROVE  /\ call[c] \in Call /\ request[c] \in Request /\ since[c] \in Noted
         /\ Admitted(call[c], request[c], since[c])
         /\ Linking(call[c], request[c], saved, summarised, linked)
BY DEF AInv, TypeOK

LEMMA OneCall ==
  ASSUME AInv, NEW c \in Calls, NEW k \in Call, NEW q \in Request, NEW s \in Noted,
         call' = [call EXCEPT ![c] = k], request' = [request EXCEPT ![c] = q],
         since' = [since EXCEPT ![c] = s], UNCHANGED <<deployment, rights, changes>>,
         faults' \in 0 .. MaxFaults,
         saved \subseteq saved', summarised \subseteq summarised', linked \subseteq linked',
         saved' \subseteq Workspaces, summarised' \subseteq saved', linked' \subseteq saved',
         Admitted(k, q, s), Linking(k, q, saved', summarised', linked')
  PROVE  AInv'
<1>1. /\ call \in [Calls -> Call] /\ request \in [Calls -> Request] /\ since \in [Calls -> Noted]
  BY DEF AInv, TypeOK
<1>2. /\ call' \in [Calls -> Call] /\ call'[c] = k
      /\ request' \in [Calls -> Request] /\ request'[c] = q
      /\ since' \in [Calls -> Noted] /\ since'[c] = s
      /\ \A d \in Calls \ {c} : call'[d] = call[d] /\ request'[d] = request[d] /\ since'[d] = since[d]
  BY <1>1
<1>3. TypeOK'
  BY <1>2 DEF AInv, TypeOK, rights
<1>4. ASSUME NEW d \in Calls
      PROVE  /\ Admitted(call'[d], request'[d], since'[d])
             /\ Linking(call'[d], request'[d], saved', summarised', linked')
  <2>1. CASE d = c
    BY <1>2, <2>1
  <2>2. CASE d # c
    <3>1. /\ Admitted(call'[d], request'[d], since'[d])
          /\ Linking(call'[d], request'[d], saved, summarised, linked)
      BY <1>2, <2>2, CallTypes
    <3> QED
      BY <3>1 DEF Linking
  <2> QED
    BY <2>1, <2>2
<1>5. ASSUME NEW d \in Calls
      PROVE  Admitted(call[d], request[d], since[d])'
  BY <1>4 DEF Admitted, Bound, Holds, Bearer, MemberOf, rights, Within, Active, Selected
<1>6. ASSUME NEW d \in Calls
      PROVE  Linking(call[d], request[d], saved, summarised, linked)'
  BY <1>4
<1> QED
  BY <1>3, <1>5, <1>6 DEF AInv

LEMMA CallStep ==
  ASSUME AInv, NEW c \in Calls, NEW k \in Call, call' = [call EXCEPT ![c] = k],
         UNCHANGED <<deployment, rights, store, since, request, changes>>,
         faults' \in 0 .. MaxFaults,
         Admitted(k, request[c], since[c]),
         Linking(k, request[c], saved, summarised, linked)
  PROVE  AInv'
<1>1. /\ request' = [request EXCEPT ![c] = request[c]] /\ since' = [since EXCEPT ![c] = since[c]]
      /\ request[c] \in Request /\ since[c] \in Noted
  BY DEF AInv, TypeOK
<1>2. /\ saved' = saved /\ summarised' = summarised /\ linked' = linked
      /\ saved \subseteq Workspaces /\ summarised \subseteq saved /\ linked \subseteq saved
  BY DEF store, AInv, TypeOK
<1> QED
  BY <1>1, <1>2, OneCall

LEMMA RequestStep ==
  ASSUME AInv, NEW c \in Calls, NEW q \in Request, request' = [request EXCEPT ![c] = q],
         UNCHANGED <<deployment, rights, since, call, changes>>,
         faults' \in 0 .. MaxFaults,
         saved \subseteq saved', summarised \subseteq summarised', linked \subseteq linked',
         saved' \subseteq Workspaces, summarised' \subseteq saved', linked' \subseteq saved',
         Admitted(call[c], q, since[c]),
         Linking(call[c], q, saved', summarised', linked')
  PROVE  AInv'
<1>1. /\ call' = [call EXCEPT ![c] = call[c]] /\ since' = [since EXCEPT ![c] = since[c]]
      /\ call[c] \in Call /\ since[c] \in Noted
  BY DEF AInv, TypeOK
<1> QED
  BY <1>1, OneCall

LEMMA PlainRequestStep ==
  ASSUME AInv, NEW c \in Calls, NEW q \in Request, request' = [request EXCEPT ![c] = q],
         UNCHANGED <<deployment, rights, store, since, call, changes>>,
         faults' \in 0 .. MaxFaults,
         Admitted(call[c], q, since[c]),
         Linking(call[c], q, saved, summarised, linked)
  PROVE  AInv'
<1>1. /\ saved' = saved /\ summarised' = summarised /\ linked' = linked
      /\ saved \subseteq Workspaces /\ summarised \subseteq saved /\ linked \subseteq saved
  BY DEF store, AInv, TypeOK
<1> QED
  BY <1>1, RequestStep

\* The request stays where it is not, or is answered, and only the call moves on.
LEMMA RestTypes ==
  /\ NoRequest \in Request /\ ~Active(NoRequest) /\ Nothing \in Noted
  /\ [NoRequest EXCEPT !.at = "gone"] \in Request
  /\ ~Active([NoRequest EXCEPT !.at = "gone"])
  /\ [NoRequest EXCEPT !.at = "gone"].at = "gone"
  /\ Idle \in Call /\ Idle.answer = None /\ Idle.at = "idle" /\ Idle.step = 0
BY DEF NoRequest, Request, Active, Nothing, Noted, Idle, Call, Named, Answers

LEMMA InitHolds == Init => AInv
<1> SUFFICES ASSUME Init PROVE AInv
  OBVIOUS
<1>1. TypeOK
  <2>1. /\ key \in [Subjects -> KeyStates] /\ subject \in [Subjects -> BOOLEAN]
        /\ open \in [Workspaces -> BOOLEAN]
    BY DEF Init, KeyStates
  <2>2. member \in [Subjects \X Workspaces -> Membership]
    BY DeploymentsAssumption DEF Init
  <2>3. /\ call \in [Calls -> Call] /\ request \in [Calls -> Request] /\ since \in [Calls -> Noted]
    BY RestTypes DEF Init
  <2>4. changes \in 0 .. MaxChanges /\ faults \in 0 .. MaxFaults
    BY AccessAssumption DEF Init
  <2> QED
    BY <2>1, <2>2, <2>3, <2>4 DEF Init, TypeOK
<1>2. Admitted(Idle, NoRequest, Nothing)
  BY RestTypes DEF Admitted, NoRequest
<1>3. Linking(Idle, NoRequest, saved, summarised, linked)
  BY RestTypes, AccessAssumption DEF Linking
<1> QED
  BY <1>1, <1>2, <1>3 DEF AInv, Init

\* A call that ends with an error while it has no request.
LEMMA Ends ==
  ASSUME NEW k \in Call, NEW a \in Answers, NEW q, NEW s, ~Active(q), NEW S, NEW M, NEW L,
         a = "ok" /\ k.tool = SaveAndLink =>
           k.content \in S \cap L /\ (k.summary => k.content \in M)
  PROVE  /\ Answered(k, a) \in Call
         /\ Admitted(Answered(k, a), q, s)
         /\ Linking(Answered(k, a), q, S, M, L)
<1> DEFINE e == Answered(k, a)
<1>1. e \in Call
  BY RestTypes DEF Answered, Call
<1>2. /\ e.at = "done" /\ e.answer = a /\ e.tool = k.tool /\ e.content = k.content
      /\ e.summary = k.summary
  BY DEF Answered, Idle
<1> HIDE DEF e
<1>3. Admitted(e, q, s)
  BY <1>2 DEF Admitted, Active
<1>4. Linking(e, q, S, M, L)
  BY <1>2 DEF Linking
<1> QED
  BY <1>1, <1>3, <1>4 DEF e

LEMMA EndStep ==
  ASSUME AInv, NEW c \in Calls, NEW a \in Answers, a # "ok", End(c, a),
         call[c].at \notin {"wait", "done"},
         UNCHANGED <<deployment, rights, store, since, request, changes>>,
         faults' \in 0 .. MaxFaults
  PROVE  AInv'
<1>1. call[c] \in Call /\ ~Active(request[c])
  BY CallTypes DEF Admitted
<1>2. call' = [call EXCEPT ![c] = Answered(call[c], a)]
  BY DEF End, AInv, TypeOK
<1> QED
  BY <1>1, <1>2, Ends, CallStep

LEMMA FaultsKept == AInv => faults \in 0 .. MaxFaults
BY DEF AInv, TypeOK

LEMMA OneMoreFault == AInv /\ faults < MaxFaults => faults + 1 \in 0 .. MaxFaults
BY AccessAssumption DEF AInv, TypeOK

-----------------------------------------------------------------------------
(* The MCP server.                                                         *)

LEMMA StartStep ==
  ASSUME AInv, NEW c \in Calls, NEW asked \in Call, Start(c, asked), call[c].at = "idle",
         asked.answer = None,
         UNCHANGED <<deployment, rights, store, since, request, changes, faults>>
  PROVE  AInv'
<1> DEFINE k1 == [asked EXCEPT !.token = Caller, !.step = 1, !.at = "send"]
           p == IF deployment.transport = "api_key" THEN "bearer" ELSE "client"
           k2 == [asked EXCEPT !.at = p]
<1>1. ~Active(request[c])
  BY CallTypes DEF Admitted
<1>2. CASE asked.tool = "rest"
  <2>1. call' = [call EXCEPT ![c] = k1]
    BY <1>2 DEF Start
  <2>2. k1 \in Call
    BY DEF Call, Subjects
  <2>3. /\ k1.at = "send" /\ k1.tool = "rest" /\ k1.token = Caller /\ k1.answer = None
    BY <1>2 DEF Call
  <2> HIDE DEF k1
  <2>4. Admitted(k1, request[c], since[c])
    BY <1>1, <2>3 DEF Admitted, Bound, Subjects, Active
  <2>5. Linking(k1, request[c], saved, summarised, linked)
    BY <1>1, <2>3, AccessAssumption DEF Linking, SaveAndLink
  <2> QED
    BY <2>1, <2>2, <2>4, <2>5, CallStep, FaultsKept
<1>3. CASE asked.tool # "rest"
  <2>0. p \in {"bearer", "client"}
    OBVIOUS
  <2>1. call' = [call EXCEPT ![c] = k2]
    BY <1>3 DEF Start
  <2> HIDE DEF p
  <2>2. k2 \in Call
    BY <2>0 DEF Call
  <2>3. /\ k2.at = p /\ k2.tool = asked.tool /\ k2.answer = None
    BY DEF Call
  <2> HIDE DEF k2
  <2>4. Admitted(k2, request[c], since[c])
    BY <1>1, <1>3, <2>0, <2>3 DEF Admitted, Active
  <2>5. Linking(k2, request[c], saved, summarised, linked)
    BY <1>1, <2>0, <2>3, AccessAssumption DEF Linking
  <2> QED
    BY <2>1, <2>2, <2>4, <2>5, CallStep, FaultsKept
<1> QED
  BY <1>2, <1>3

LEMMA AskStep ==
  ASSUME AInv, NEW c \in Calls, Ask(c)
  PROVE  AInv'
<1>1. call[c].at = "idle"
      /\ UNCHANGED <<deployment, rights, store, since, request, changes, faults>>
  BY DEF Ask
<1>2. ASSUME NEW ws \in Named, NEW summary \in BOOLEAN, NEW t \in Tried,
             Start(c, [Idle EXCEPT !.tool = t, !.ws = ws, !.summary = summary])
      PROVE  AInv'
  <2> DEFINE asked == [Idle EXCEPT !.tool = t, !.ws = ws, !.summary = summary]
  <2>1. asked \in Call /\ asked.answer = None
    BY RestTypes, AccessAssumption DEF Call, Named
  <2> HIDE DEF asked
  <2> QED
    BY <1>1, <1>2, <2>1, StartStep DEF asked
<1>3. ASSUME NEW ws \in Named, NEW e \in TriedDirectly,
             Start(c, [Idle EXCEPT !.tool = "rest", !.endpoint = e, !.ws = ws])
      PROVE  AInv'
  <2> DEFINE asked == [Idle EXCEPT !.tool = "rest", !.endpoint = e, !.ws = ws]
  <2>1. asked \in Call /\ asked.answer = None
    BY RestTypes, AccessAssumption DEF Call, Named
  <2> HIDE DEF asked
  <2> QED
    BY <1>1, <1>3, <2>1, StartStep DEF asked
<1> QED
  BY <1>2, <1>3 DEF Ask, Named

LEMMA AskAgainStep ==
  ASSUME AInv, NEW c \in Calls, AskAgain(c)
  PROVE  AInv'
<1>1. call[c].at = "idle"
      /\ UNCHANGED <<deployment, rights, store, since, request, changes, faults>>
  BY DEF AskAgain
<1>2. PICK d \in Calls :
        Start(c, [Idle EXCEPT !.tool = call[d].tool, !.ws = call[d].ws,
                              !.endpoint = call[d].endpoint, !.summary = call[d].summary])
  BY DEF AskAgain
<1> DEFINE asked == [Idle EXCEPT !.tool = call[d].tool, !.ws = call[d].ws,
                                 !.endpoint = call[d].endpoint, !.summary = call[d].summary]
<1>3. asked \in Call /\ asked.answer = None
  BY RestTypes, CallTypes DEF Call
<1> HIDE DEF asked
<1> QED
  BY <1>1, <1>2, <1>3, StartStep DEF asked

\* Moving a call that has no request, before its client is made.
LEMMA EarlyMove ==
  ASSUME AInv, NEW c \in Calls, NEW k \in Call, call' = [call EXCEPT ![c] = k],
         call[c].at \notin {"wait", "done"},
         k.at \in {"membership", "client"}, k.tool # "rest", k.answer # "ok",
         UNCHANGED <<deployment, rights, store, since, request, changes>>,
         faults' \in 0 .. MaxFaults
  PROVE  AInv'
<1>1. ~Active(request[c])
  BY CallTypes DEF Admitted
<1>2. Admitted(k, request[c], since[c])
  BY <1>1 DEF Admitted, Active
<1>3. Linking(k, request[c], saved, summarised, linked)
  BY <1>1 DEF Linking
<1> QED
  BY <1>2, <1>3, CallStep

LEMMA CheckBearerStep ==
  ASSUME AInv, NEW c \in Calls, CheckBearer(c)
  PROVE  AInv'
<1> DEFINE k == [call[c] EXCEPT !.at = "membership"]
<1>1. /\ call[c] \in Call /\ call[c].at = "bearer" /\ call[c].tool # "rest" /\ call[c].answer # "ok"
      /\ UNCHANGED <<deployment, rights, store, since, request, changes, faults>>
  BY CallTypes DEF CheckBearer, Admitted, Linking
<1>2. CASE Move(c, "membership")
  <2>1. call' = [call EXCEPT ![c] = k]
    BY <1>2 DEF Move
  <2>2. k \in Call /\ k.at = "membership" /\ k.tool = call[c].tool /\ k.answer = call[c].answer
    BY <1>1 DEF Call
  <2> HIDE DEF k
  <2> QED
    BY <1>1, <2>1, <2>2, EarlyMove, FaultsKept
<1>3. CASE End(c, "unauthenticated")
  BY <1>1, <1>3, EndStep, FaultsKept DEF Answers
<1> QED
  BY <1>2, <1>3 DEF CheckBearer

LEMMA CheckMembershipStep ==
  ASSUME AInv, NEW c \in Calls, CheckMembership(c)
  PROVE  AInv'
<1> DEFINE x(w) == [token |-> Caller, ws |-> w]
           k(w) == [call[c] EXCEPT !.at = "client", !.ctx = x(w)]
<1>1. /\ call[c] \in Call /\ call[c].at = "membership" /\ call[c].tool # "rest"
      /\ call[c].answer # "ok"
      /\ UNCHANGED <<deployment, rights, store, since, request, changes, faults>>
  BY CallTypes DEF CheckMembership, Admitted, Linking
<1>2. ASSUME NEW w \in MemberOf(Caller), call' = [call EXCEPT ![c].at = "client", ![c].ctx = x(w)]
      PROVE  AInv'
  <2>1. x(w) \in [token : {Caller}, ws : Workspaces]
    BY DEF MemberOf
  <2>2. call' = [call EXCEPT ![c] = k(w)]
    BY <1>2 DEF AInv, TypeOK
  <2> HIDE DEF x
  <2>3. k(w) \in Call /\ k(w).at = "client" /\ k(w).tool = call[c].tool /\ k(w).answer = call[c].answer
    BY <1>1, <2>1 DEF Call
  <2> HIDE DEF k
  <2> QED
    BY <1>1, <2>2, <2>3, EarlyMove, FaultsKept
<1>3. CASE End(c, "unauthenticated")
  BY <1>1, <1>3, EndStep, FaultsKept DEF Answers
<1> QED
  BY <1>2, <1>3 DEF CheckMembership

LEMMA BearerFailsStep ==
  ASSUME AInv, NEW c \in Calls, BearerFails(c)
  PROVE  AInv'
BY EndStep, OneMoreFault DEF BearerFails, Answers

LEMMA LoseContextStep ==
  ASSUME AInv, NEW c \in Calls, LoseContext(c)
  PROVE  AInv'
<1> DEFINE k == [call[c] EXCEPT !.ctx = None]
<1>1. /\ call[c] \in Call /\ call[c].at = "client" /\ call[c].tool # "rest" /\ call[c].answer # "ok"
      /\ UNCHANGED <<deployment, rights, store, since, request, changes>>
      /\ faults' \in 0 .. MaxFaults
  BY CallTypes, OneMoreFault DEF LoseContext, Admitted, Linking
<1>2. call' = [call EXCEPT ![c] = k]
  BY DEF LoseContext
<1>3. k \in Call /\ k.at = "client" /\ k.tool = call[c].tool /\ k.answer = call[c].answer
  BY <1>1 DEF Call
<1> HIDE DEF k
<1> QED
  BY <1>1, <1>2, <1>3, EarlyMove

LEMMA MakeClientStep ==
  ASSUME AInv, NEW c \in Calls, MakeClient(c)
  PROVE  AInv'
<1> DEFINE mine == [call[c] EXCEPT !.at = "send", !.step = 1, !.token = call[c].ctx.token,
                                   !.defaultWs = call[c].ctx.ws]
           theirs == [call[c] EXCEPT !.at = "send", !.step = 1, !.token = Service,
                                     !.defaultWs = deployment.toolWs]
<1>1. /\ call[c] \in Call /\ call[c].at = "client" /\ call[c].tool # "rest"
      /\ call[c].answer # "ok" /\ ~Active(request[c])
      /\ UNCHANGED <<deployment, rights, store, since, request, changes, faults>>
  BY CallTypes DEF MakeClient, Admitted, Linking
<1>2. ASSUME NEW k \in Call, k.at = "send", k.step = 1, k.tool = call[c].tool,
             k.answer = call[c].answer, Bound(k), call' = [call EXCEPT ![c] = k]
      PROVE  AInv'
  <2>1. Admitted(k, request[c], since[c])
    BY <1>1, <1>2 DEF Admitted, Active
  <2>2. k.tool = SaveAndLink => k.step \in 1 .. Len(Plan(k))
    BY <1>2, LinkPlan
  <2>3. Linking(k, request[c], saved, summarised, linked)
    BY <1>1, <1>2, <2>2 DEF Linking
  <2> QED
    BY <1>1, <1>2, <2>1, <2>3, CallStep, FaultsKept
<1>3. CASE call[c].ctx # None /\ call' = [call EXCEPT ![c].at = "send", ![c].step = 1,
             ![c].token = call[c].ctx.token, ![c].defaultWs = call[c].ctx.ws]
  <2>1. call[c].ctx \in [token : {Caller}, ws : Workspaces]
    BY <1>1, <1>3 DEF Call
  <2>2. call[c].ctx.token = Caller /\ call[c].ctx.ws \in Workspaces
    BY <2>1
  <2>3. mine \in Call
    BY <1>1, <2>2 DEF Call, Subjects, Named
  <2>4. /\ mine.at = "send" /\ mine.step = 1 /\ mine.tool = call[c].tool
        /\ mine.answer = call[c].answer /\ mine.token = Caller /\ mine.defaultWs \in Workspaces
    BY <1>1, <2>2 DEF Call
  <2>5. call' = [call EXCEPT ![c] = mine]
    BY <1>3 DEF AInv, TypeOK
  <2> HIDE DEF mine
  <2>6. Bound(mine)
    BY <2>4 DEF Bound, Subjects
  <2> QED
    BY <1>2, <2>3, <2>4, <2>5, <2>6
<1>4. CASE End(c, "error")
  BY <1>1, <1>4, EndStep, FaultsKept DEF Answers
<1>5. CASE /\ call[c].ctx = None /\ deployment.transport # "api_key"
           /\ call' = [call EXCEPT ![c].at = "send", ![c].step = 1, ![c].token = Service,
                                   ![c].defaultWs = deployment.toolWs]
  <2>1. deployment.toolWs \in Named
    BY DeploymentsAssumption DEF AInv, TypeOK, Deployment, Named
  <2>2. theirs \in Call
    BY <1>1, <2>1 DEF Call, Subjects
  <2>3. /\ theirs.at = "send" /\ theirs.step = 1 /\ theirs.tool = call[c].tool
        /\ theirs.answer = call[c].answer /\ theirs.token = Service
    BY <1>1 DEF Call
  <2>4. call' = [call EXCEPT ![c] = theirs]
    BY <1>5 DEF AInv, TypeOK
  <2> HIDE DEF theirs
  <2>5. Bound(theirs)
    BY <1>1, <1>5, <2>3 DEF Bound, Subjects
  <2> QED
    BY <1>2, <2>2, <2>3, <2>4, <2>5
<1> QED
  BY <1>3, <1>4, <1>5 DEF MakeClient

\* What is noted of rights has its type, for a subject there is.
LEMMA HoldsNoted ==
  ASSUME NEW s \in Subjects \cup {None}, NEW e, subject \in [Subjects -> BOOLEAN]
  PROVE  Holds(s, e) \in Noted
<1>1. CASE s = None
  BY <1>1, RestTypes DEF Holds
<1>2. CASE s \in Subjects
  BY <1>2 DEF Holds, Noted, MemberOf, Nothing
<1> QED
  BY <1>1, <1>2

LEMMA BearerIsSubject ==
  ASSUME NEW t \in Subjects
  PROVE  Bearer(t) \in Subjects /\ Bearer(t) # None
BY AccessAssumption DEF Bearer, Subjects

LEMMA SendStep ==
  ASSUME AInv, NEW c \in Calls, Send(c)
  PROVE  AInv'
<1> DEFINE k == [call[c] EXCEPT !.at = "wait"]
           q == [NoRequest EXCEPT !.at = "workspace", !.token = call[c].token,
                                  !.header = Selected(call[c]), !.content = call[c].content]
           s == Holds(Bearer(call[c].token), Current(c))
<1>1. /\ call[c] \in Call /\ call[c].at = "send" /\ Bound(call[c]) /\ call[c].answer # "ok"
      /\ Linking(call[c], request[c], saved, summarised, linked)
      /\ UNCHANGED <<deployment, rights, store, changes, faults>>
  BY CallTypes DEF Send, Admitted, Linking
<1>2. /\ call' = [call EXCEPT ![c] = k] /\ request' = [request EXCEPT ![c] = q]
      /\ since' = [since EXCEPT ![c] = s]
  BY DEF Send, Move
<1>3. /\ saved' = saved /\ summarised' = summarised /\ linked' = linked
      /\ saved \subseteq Workspaces /\ summarised \subseteq saved /\ linked \subseteq saved
      /\ subject \in [Subjects -> BOOLEAN]
  BY <1>1 DEF store, AInv, TypeOK
<1>4. call[c].token \in Subjects
  BY <1>1 DEF Bound
<1>5. s \in Noted
  BY <1>3, <1>4, BearerIsSubject, HoldsNoted
<1>6. Selected(call[c]) \in Named
  BY <1>1 DEF Selected, Call, Named
<1>7. q \in Request
  BY <1>1, <1>4, <1>6, RestTypes DEF Request, Call
<1>8. /\ k \in Call /\ k.at = "wait" /\ k.tool = call[c].tool /\ k.token = call[c].token
      /\ k.ws = call[c].ws /\ k.defaultWs = call[c].defaultWs /\ k.step = call[c].step
      /\ k.content = call[c].content /\ k.summary = call[c].summary
      /\ k.endpoint = call[c].endpoint /\ k.answer = call[c].answer
  BY <1>1 DEF Call
<1>9. /\ q.at = "workspace" /\ q.token = call[c].token /\ q.header = Selected(call[c])
      /\ q.content = call[c].content /\ q.answer = None
  BY DEF NoRequest
<1> DEFINE e == Current(c)
<1>10. s = Holds(Bearer(q.token), e) /\ e = Endpoint(call[c])
  BY <1>9 DEF Current, Endpoint
<1> HIDE DEF k, q, s, e
<1>11. Plan(k) = Plan(call[c]) /\ Endpoint(k) = Endpoint(call[c]) /\ Selected(k) = Selected(call[c])
  BY <1>8 DEF Plan, Endpoint, Selected
<1>12. Bound(k)
  BY <1>1, <1>8 DEF Bound
<1>13. Admitted(k, q, s)
  <2>1. Within(Holds(Bearer(q.token), Endpoint(k)), s)
    BY <1>10, <1>11 DEF Within
  <2> QED
    BY <1>8, <1>9, <1>11, <1>12, <2>1 DEF Admitted
<1>14. Linking(k, q, saved, summarised, linked)
  BY <1>1, <1>8, <1>9, <1>11, AccessAssumption DEF Linking
<1> QED
  BY <1>1, <1>2, <1>3, <1>5, <1>7, <1>8, <1>13, <1>14, OneCall, FaultsKept

-----------------------------------------------------------------------------
(* The API.                                                                *)

\* A request that is answered, with nothing stored.
LEMMA AnswerFits ==
  ASSUME AInv, NEW c \in Calls, Active(request[c]), NEW a \in Answers, a # "ok"
  PROVE  /\ [request[c] EXCEPT !.at = "answered", !.answer = a] \in Request
         /\ Admitted(call[c], [request[c] EXCEPT !.at = "answered", !.answer = a], since[c])
         /\ \A S, M, L : Linking(call[c], request[c], S, M, L) =>
              Linking(call[c], [request[c] EXCEPT !.at = "answered", !.answer = a], S, M, L)
<1> DEFINE r == request[c]
           q == [r EXCEPT !.at = "answered", !.answer = a]
<1>1. /\ r \in Request /\ Admitted(call[c], r, since[c])
  BY CallTypes
<1>2. q \in Request /\ q.at = "answered" /\ q.answer = a /\ q.token = r.token
      /\ q.header = r.header /\ q.content = r.content
  BY <1>1 DEF Request
<1> HIDE DEF q, r
<1>3. Active(r) /\ Active(q)
  BY <1>2 DEF Active, r
<1>4. Admitted(call[c], q, since[c])
  BY <1>1, <1>2, <1>3 DEF Admitted
<1>5. \A S, M, L : Linking(call[c], r, S, M, L) => Linking(call[c], q, S, M, L)
  BY <1>2, <1>3 DEF Linking
<1> QED
  BY <1>2, <1>4, <1>5 DEF q, r

LEMMA AnswerStep ==
  ASSUME AInv, NEW c \in Calls, Active(request[c]), NEW a \in Answers, a # "ok", Answer(c, a),
         UNCHANGED <<deployment, rights, store, since, call, changes>>,
         faults' \in 0 .. MaxFaults
  PROVE  AInv'
<1>1. request' = [request EXCEPT ![c] = [request[c] EXCEPT !.at = "answered", !.answer = a]]
  BY DEF Answer, AInv, TypeOK
<1>2. Linking(call[c], request[c], saved, summarised, linked)
  BY CallTypes
<1> QED
  BY <1>1, <1>2, AnswerFits, PlainRequestStep

\* A request that moves on in the API, and what it is then to know.
LEMMA MoveOn ==
  ASSUME AInv, NEW c \in Calls, Active(request[c]), request[c].at # "answered",
         NEW q \in Request, request' = [request EXCEPT ![c] = q],
         q.at \in {"key", "member", "audit", "handler"},
         q.token = request[c].token, q.header = request[c].header,
         q.content = request[c].content, q.answer = request[c].answer,
         q.at \in {"member", "audit"} => deployment.database,
         deployment.database =>
           /\ q.ws \in since[c].open /\ (q.header # None => q.ws = q.header)
           /\ q.at \in {"member", "audit", "handler"} =>
                /\ q.who = Bearer(q.token) /\ since[c].subject
                /\ deployment.auth = "api_key" => since[c].key
           /\ q.at \in {"audit", "handler"} => q.ws \in since[c].member,
         UNCHANGED <<deployment, rights, store, since, call, changes, faults>>
  PROVE  AInv'
<1>1. /\ Admitted(call[c], request[c], since[c])
      /\ Linking(call[c], request[c], saved, summarised, linked)
  BY CallTypes
<1>2. Active(q) /\ q.at # "answered"
  BY DEF Active
<1>3. Admitted(call[c], q, since[c])
  BY <1>1, <1>2 DEF Admitted
<1>4. Linking(call[c], q, saved, summarised, linked)
  BY <1>1, <1>2 DEF Linking
<1> QED
  BY <1>3, <1>4, PlainRequestStep, FaultsKept

\* What holds now has been noted.
LEMMA NowNoted ==
  ASSUME AInv, NEW c \in Calls, Active(request[c])
  PROVE  LET b == Bearer(request[c].token) IN
         /\ b \in Subjects /\ b # None
         /\ key[b] = "active" => since[c].key
         /\ subject[b] => since[c].subject
         /\ \A w \in Workspaces : open[w] => w \in since[c].open
         /\ \A w \in Workspaces :
              /\ member[<<b, w>>] # None /\ member[<<b, w>>].active
              /\ member[<<b, w>>].role \in AllowedRoles(Asks(c))
              => w \in since[c].member
<1> DEFINE b == Bearer(request[c].token)
           e == Endpoint(call[c])
<1>1. /\ request[c].token \in Subjects /\ Within(Holds(b, e), since[c])
  BY CallTypes DEF Admitted, Bound
<1>2. b \in Subjects /\ b # None
  BY <1>1, BearerIsSubject
<1>3. Asks(c) = Permission[e]
  BY DEF Asks, Current, Endpoint
<1> HIDE DEF b, e
<1>4. /\ Holds(b, e).key = (key[b] = "active") /\ Holds(b, e).subject = subject[b]
      /\ Holds(b, e).open = {w \in Workspaces : open[w]}
      /\ Holds(b, e).member = {w \in MemberOf(b) : member[<<b, w>>].role \in AllowedRoles(Permission[e])}
  BY <1>2 DEF Holds
<1>5. \A w \in Workspaces :
        /\ member[<<b, w>>] # None /\ member[<<b, w>>].active
        /\ member[<<b, w>>].role \in AllowedRoles(Asks(c))
        => w \in since[c].member
  BY <1>1, <1>3, <1>4 DEF Within, MemberOf
<1> QED
  BY <1>1, <1>2, <1>4, <1>5 DEF Within, b

LEMMA ResolveWorkspaceStep ==
  ASSUME AInv, NEW c \in Calls, ResolveWorkspace(c)
  PROVE  AInv'
<1> DEFINE r == request[c]
           w == IF r.header # None THEN r.header
                ELSE IF deployment.apiWs # None THEN deployment.apiWs ELSE DefaultWs
           q1 == [r EXCEPT !.at = "key", !.ws = Local]
           q2 == [r EXCEPT !.at = "key", !.ws = w]
<1>1. /\ r \in Request /\ r.at = "workspace" /\ Active(r)
      /\ UNCHANGED <<deployment, rights, store, since, call, changes, faults>>
  BY CallTypes DEF ResolveWorkspace, Active
<1>2. w \in Workspaces
  BY <1>1, AccessAssumption, DeploymentsAssumption DEF Request, Named, AInv, TypeOK, Deployment
<1>3. CASE ~deployment.database /\ request' = [request EXCEPT ![c] = q1]
  <2>1. /\ q1 \in Request /\ q1.at = "key" /\ q1.token = r.token /\ q1.header = r.header
        /\ q1.content = r.content /\ q1.answer = r.answer
    BY <1>1 DEF Request
  <2> HIDE DEF q1
  <2> QED
    BY <1>1, <1>3, <2>1, MoveOn
<1>4. CASE deployment.database /\ open[w] /\ request' = [request EXCEPT ![c] = q2]
  <2>0. w \in since[c].open
    BY <1>1, <1>2, <1>4, NowNoted
  <2>2. r.header # None => w = r.header
    OBVIOUS
  <2> HIDE DEF w
  <2>1. /\ q2 \in Request /\ q2.at = "key" /\ q2.token = r.token /\ q2.header = r.header
        /\ q2.content = r.content /\ q2.answer = r.answer /\ q2.ws = w
    BY <1>1, <1>2 DEF Request, Named
  <2> HIDE DEF q2
  <2> QED
    BY <1>1, <1>4, <2>0, <2>1, <2>2, MoveOn
<1>5. CASE Answer(c, "denied")
  BY <1>1, <1>5, AnswerStep, FaultsKept DEF Answers
<1> QED
  BY <1>3, <1>4, <1>5 DEF ResolveWorkspace

LEMMA UndatabasedStep ==
  ASSUME AInv, NEW c \in Calls, Undatabased(c)
  PROVE  AInv'
<1> DEFINE r == request[c]
           q == [r EXCEPT !.at = "handler"]
<1>1. /\ r \in Request /\ r.at = "key" /\ Active(r) /\ ~deployment.database
      /\ UNCHANGED <<deployment, rights, store, since, call, changes, faults>>
  BY CallTypes DEF Undatabased, Active
<1>2. CASE request' = [request EXCEPT ![c] = q]
  <2>1. /\ q \in Request /\ q.at = "handler" /\ q.token = r.token /\ q.header = r.header
        /\ q.content = r.content /\ q.answer = r.answer
    BY <1>1 DEF Request
  <2> HIDE DEF q
  <2> QED
    BY <1>1, <1>2, <2>1, MoveOn
<1>3. CASE Answer(c, "denied")
  BY <1>1, <1>3, AnswerStep, FaultsKept DEF Answers
<1>4. request' = [request EXCEPT ![c] = q] \/ Answer(c, "denied")
  BY DEF Undatabased, AInv, TypeOK
<1> QED
  BY <1>2, <1>3, <1>4

LEMMA ReadKeyStep ==
  ASSUME AInv, NEW c \in Calls, ReadKey(c)
  PROVE  AInv'
<1> DEFINE r == request[c]
           who == Bearer(r.token)
           q == [r EXCEPT !.at = "member", !.who = who]
<1>1. /\ r \in Request /\ r.at = "key" /\ Active(r) /\ deployment.database
      /\ Admitted(call[c], r, since[c])
      /\ UNCHANGED <<deployment, rights, store, since, call, changes, faults>>
  BY CallTypes DEF ReadKey, Active
<1>2. CASE /\ subject[who] /\ (deployment.auth = "api_key" => key[who] = "active")
           /\ request' = [request EXCEPT ![c] = q]
  <2>1. /\ who \in Subjects /\ since[c].subject /\ (deployment.auth = "api_key" => since[c].key)
    BY <1>1, <1>2, NowNoted
  <2>2. /\ q \in Request /\ q.at = "member" /\ q.token = r.token /\ q.header = r.header
        /\ q.content = r.content /\ q.answer = r.answer /\ q.ws = r.ws /\ q.who = who
    BY <1>1, <2>1 DEF Request
  <2>3. /\ r.ws \in since[c].open /\ (r.header # None => r.ws = r.header)
    BY <1>1 DEF Admitted
  <2>4. q.who = Bearer(q.token)
    BY <2>2
  <2> HIDE DEF q, who
  <2> QED
    BY <1>1, <1>2, <2>1, <2>2, <2>3, <2>4, MoveOn
<1>3. CASE Answer(c, "denied")
  BY <1>1, <1>3, AnswerStep, FaultsKept DEF Answers
<1> QED
  BY <1>2, <1>3 DEF ReadKey

LEMMA ReadMembershipStep ==
  ASSUME AInv, NEW c \in Calls, ReadMembership(c)
  PROVE  AInv'
<1> DEFINE r == request[c]
           m == member[<<r.who, r.ws>>]
           p == IF Asks(c) \in AdminPermissions THEN "audit" ELSE "handler"
           q == [r EXCEPT !.at = p]
<1>1. /\ r \in Request /\ r.at = "member" /\ Active(r) /\ since[c] \in Noted
      /\ Admitted(call[c], r, since[c])
      /\ UNCHANGED <<deployment, rights, store, since, call, changes, faults>>
  BY CallTypes DEF ReadMembership, Active
<1>2. CASE /\ m # None /\ m.active /\ m.role \in AllowedRoles(Asks(c))
           /\ request' = [request EXCEPT ![c] = q]
  <2>1. /\ deployment.database /\ r.ws \in since[c].open /\ (r.header # None => r.ws = r.header)
        /\ r.who = Bearer(r.token) /\ since[c].subject
        /\ deployment.auth = "api_key" => since[c].key
    BY <1>1 DEF Admitted
  <2>2. r.ws \in Workspaces
    BY <1>1, <2>1 DEF Noted
  <2>3. r.ws \in since[c].member
    BY <1>1, <1>2, <2>1, <2>2, NowNoted
  <2>4. p \in {"audit", "handler"}
    OBVIOUS
  <2> HIDE DEF p
  <2>5. /\ q \in Request /\ q.at = p /\ q.token = r.token /\ q.header = r.header
        /\ q.content = r.content /\ q.answer = r.answer /\ q.ws = r.ws /\ q.who = r.who
    BY <1>1, <2>4 DEF Request
  <2> HIDE DEF q
  <2> QED
    BY <1>1, <1>2, <2>1, <2>3, <2>4, <2>5, MoveOn
<1>3. CASE Answer(c, "denied")
  BY <1>1, <1>3, AnswerStep, FaultsKept DEF Answers
<1>4. \/ /\ m # None /\ m.active /\ m.role \in AllowedRoles(Asks(c))
         /\ request' = [request EXCEPT ![c] = q]
      \/ Answer(c, "denied")
  BY DEF ReadMembership, AInv, TypeOK
<1> QED
  BY <1>2, <1>3, <1>4

LEMMA WriteAuditStep ==
  ASSUME AInv, NEW c \in Calls, WriteAudit(c)
  PROVE  AInv'
<1> DEFINE r == request[c]
           q == [r EXCEPT !.at = "handler"]
<1>1. /\ r \in Request /\ r.at = "audit" /\ Active(r) /\ Admitted(call[c], r, since[c])
      /\ UNCHANGED <<deployment, rights, store, since, call, changes, faults>>
  BY CallTypes DEF WriteAudit, Active
<1>2. request' = [request EXCEPT ![c] = q]
  BY DEF WriteAudit
<1>3. /\ q \in Request /\ q.at = "handler" /\ q.token = r.token /\ q.header = r.header
      /\ q.content = r.content /\ q.answer = r.answer /\ q.ws = r.ws /\ q.who = r.who
  BY <1>1 DEF Request
<1> HIDE DEF q
<1>4. /\ r.ws \in since[c].open /\ (r.header # None => r.ws = r.header)
      /\ r.who = Bearer(r.token) /\ since[c].subject /\ r.ws \in since[c].member
      /\ deployment.auth = "api_key" => since[c].key
  BY <1>1 DEF Admitted
<1> QED
  BY <1>1, <1>2, <1>3, <1>4, MoveOn

\* A handler that has stored something answers.
LEMMA StoredStep ==
  ASSUME AInv, NEW c \in Calls, request[c].at = "handler",
         NEW q \in Request, request' = [request EXCEPT ![c] = q],
         q.at = "answered", q.token = request[c].token, q.header = request[c].header,
         saved \subseteq saved', summarised \subseteq summarised', linked \subseteq linked',
         saved' \subseteq Workspaces, summarised' \subseteq saved', linked' \subseteq saved',
         call[c].tool = SaveAndLink /\ call[c].at = "wait" =>
           /\ call[c].step >= 2 => q.content = call[c].content
           /\ q.answer = "ok" =>
                /\ Endpoint(call[c]) = "create_content" => q.content \in saved'
                /\ Endpoint(call[c]) = "set_quick_summary" => q.content \in summarised'
                /\ Endpoint(call[c]) = "link_content" => q.content \in linked',
         UNCHANGED <<deployment, rights, since, call, changes>>, faults' \in 0 .. MaxFaults
  PROVE  AInv'
<1>1. /\ Admitted(call[c], request[c], since[c])
      /\ Linking(call[c], request[c], saved, summarised, linked)
  BY CallTypes
<1>2. Active(q) /\ Active(request[c])
  BY DEF Active
<1>3. Admitted(call[c], q, since[c])
  BY <1>1, <1>2 DEF Admitted
<1>4. Linking(call[c], q, saved', summarised', linked')
  BY <1>1, <1>2 DEF Linking
<1> QED
  BY <1>3, <1>4, RequestStep

\* A handler with a database runs in a workspace, and the content it was given
\* is the one its call has.
LEMMA HandlerKnows ==
  ASSUME AInv, NEW c \in Calls, request[c].at = "handler"
  PROVE  /\ request[c] \in Request /\ Active(request[c])
         /\ deployment.database => request[c].ws \in Workspaces
         /\ call[c].tool = SaveAndLink /\ call[c].at = "wait" =>
              /\ call[c].step \in 1 .. Len(Plan(call[c]))
              /\ call[c].step >= 2 => request[c].content = call[c].content
         /\ Endpoint(call[c]) = Current(c)
         /\ saved \subseteq Workspaces /\ summarised \subseteq saved /\ linked \subseteq saved
<1>1. /\ request[c] \in Request /\ Active(request[c]) /\ since[c] \in Noted
      /\ Admitted(call[c], request[c], since[c])
      /\ Linking(call[c], request[c], saved, summarised, linked)
  BY CallTypes DEF Active
<1>2. deployment.database => request[c].ws \in Workspaces
  BY <1>1 DEF Admitted, Noted
<1>3. /\ call[c].tool = SaveAndLink /\ call[c].at = "wait" =>
           /\ call[c].step \in 1 .. Len(Plan(call[c]))
           /\ call[c].step >= 2 => request[c].content = call[c].content
  BY <1>1 DEF Linking
<1> QED
  BY <1>1, <1>2, <1>3 DEF Endpoint, Current, AInv, TypeOK

LEMMA CreateContentStep ==
  ASSUME AInv, NEW c \in Calls, request[c].at = "handler", deployment.database, CreateContent(c),
         UNCHANGED <<deployment, rights, since, call, changes, faults>>
  PROVE  AInv'
<1> DEFINE r == request[c]
           q == [r EXCEPT !.at = "answered", !.answer = "ok", !.content = r.ws]
<1>1. /\ r \in Request /\ r.ws \in Workspaces /\ Active(r) /\ Endpoint(call[c]) = "create_content"
      /\ saved \subseteq Workspaces /\ summarised \subseteq saved /\ linked \subseteq saved
      /\ UNCHANGED <<summarised, linked>>
  BY HandlerKnows DEF CreateContent
<1>2. CASE saved' = saved \cup {r.ws} /\ request' = [request EXCEPT ![c] = q]
  <2>1. /\ q \in Request /\ q.at = "answered" /\ q.token = r.token /\ q.header = r.header
        /\ q.content = r.ws
    BY <1>1 DEF Request, Named, Answers
  <2> HIDE DEF q
  <2>2. call[c].tool = SaveAndLink /\ call[c].at = "wait" => call[c].step = 1
    BY <1>1, HandlerKnows, LinkSteps
  <2>3. saved \subseteq saved' /\ r.ws \in saved' /\ saved' \subseteq Workspaces
    BY <1>1, <1>2
  <2>4. call[c].tool = SaveAndLink /\ call[c].at = "wait" =>
          /\ call[c].step >= 2 => q.content = call[c].content
          /\ q.answer = "ok" =>
               /\ Endpoint(call[c]) = "create_content" => q.content \in saved'
               /\ Endpoint(call[c]) = "set_quick_summary" => q.content \in summarised'
               /\ Endpoint(call[c]) = "link_content" => q.content \in linked'
    <3>1. call[c].step = 1 => ~(call[c].step >= 2)
      OBVIOUS
    <3> QED
      BY <1>1, <2>1, <2>2, <2>3, <3>1
  <2>5. summarised' \subseteq saved' /\ linked' \subseteq saved'
    BY <1>1, <2>3
  <2> QED
    BY <1>1, <1>2, <2>1, <2>3, <2>4, <2>5, StoredStep, FaultsKept
<1>3. CASE saved' = saved /\ Answer(c, "discarded")
  <2>1. UNCHANGED store
    BY <1>1, <1>3 DEF store
  <2> QED
    BY <1>1, <1>3, <2>1, AnswerStep, FaultsKept DEF Answers
<1>4. \/ saved' = saved \cup {r.ws} /\ request' = [request EXCEPT ![c] = q]
      \/ saved' = saved /\ Answer(c, "discarded")
  BY DEF CreateContent, AInv, TypeOK
<1> QED
  BY <1>2, <1>3, <1>4

LEMMA SetQuickSummaryStep ==
  ASSUME AInv, NEW c \in Calls, request[c].at = "handler", deployment.database,
         SetQuickSummary(c), UNCHANGED <<deployment, rights, since, call, changes, faults>>
  PROVE  AInv'
<1> DEFINE r == request[c]
           q == [r EXCEPT !.at = "answered", !.answer = "ok"]
<1>1. /\ r \in Request /\ Active(r) /\ Endpoint(call[c]) = "set_quick_summary"
      /\ saved \subseteq Workspaces /\ summarised \subseteq saved /\ linked \subseteq saved
      /\ UNCHANGED <<saved, linked>>
  BY HandlerKnows DEF SetQuickSummary
<1>2. CASE /\ r.content = r.ws /\ r.ws \in saved /\ summarised' = summarised \cup {r.ws}
           /\ request' = [request EXCEPT ![c] = q]
  <2>1. /\ q \in Request /\ q.at = "answered" /\ q.token = r.token /\ q.header = r.header
        /\ q.content = r.content
    BY <1>1 DEF Request, Answers
  <2> HIDE DEF q
  <2>2. call[c].tool = SaveAndLink /\ call[c].at = "wait" /\ call[c].step >= 2
          => r.content = call[c].content
    BY HandlerKnows
  <2> QED
    BY <1>1, <1>2, <2>1, <2>2, StoredStep, FaultsKept
<1>3. CASE summarised' = summarised /\ Answer(c, "missing")
  <2>1. UNCHANGED store
    BY <1>1, <1>3 DEF store
  <2> QED
    BY <1>1, <1>3, <2>1, AnswerStep, FaultsKept DEF Answers
<1>4. \/ /\ r.content = r.ws /\ r.ws \in saved /\ summarised' = summarised \cup {r.ws}
         /\ request' = [request EXCEPT ![c] = q]
      \/ summarised' = summarised /\ Answer(c, "missing")
  BY DEF SetQuickSummary, Answer, AInv, TypeOK
<1> QED
  BY <1>2, <1>3, <1>4

LEMMA LinkContentStep ==
  ASSUME AInv, NEW c \in Calls, request[c].at = "handler", deployment.database,
         LinkContent(c), UNCHANGED <<deployment, rights, since, call, changes, faults>>
  PROVE  AInv'
<1> DEFINE r == request[c]
           q == [r EXCEPT !.at = "answered", !.answer = "ok"]
<1>1. /\ r \in Request /\ Active(r) /\ Endpoint(call[c]) = "link_content"
      /\ saved \subseteq Workspaces /\ summarised \subseteq saved /\ linked \subseteq saved
      /\ UNCHANGED <<saved, summarised>>
  BY HandlerKnows DEF LinkContent
<1>2. CASE /\ r.content = HubHome /\ HubHome \in saved /\ linked' = linked \cup {HubHome}
           /\ request' = [request EXCEPT ![c] = q]
  <2>1. /\ q \in Request /\ q.at = "answered" /\ q.token = r.token /\ q.header = r.header
        /\ q.content = r.content
    BY <1>1 DEF Request, Answers
  <2> HIDE DEF q
  <2>2. call[c].tool = SaveAndLink /\ call[c].at = "wait" /\ call[c].step >= 2
          => r.content = call[c].content
    BY HandlerKnows
  <2> QED
    BY <1>1, <1>2, <2>1, <2>2, StoredStep, FaultsKept
<1>3. CASE linked' = linked /\ Answer(c, "missing")
  <2>1. UNCHANGED store
    BY <1>1, <1>3 DEF store
  <2> QED
    BY <1>1, <1>3, <2>1, AnswerStep, FaultsKept DEF Answers
<1>4. \/ /\ r.content = HubHome /\ HubHome \in saved /\ linked' = linked \cup {HubHome}
         /\ request' = [request EXCEPT ![c] = q]
      \/ linked' = linked /\ Answer(c, "missing")
  BY DEF LinkContent, Answer, AInv, TypeOK
<1> QED
  BY <1>2, <1>3, <1>4

LEMMA OtherHandlerStep ==
  ASSUME AInv, NEW c \in Calls, request[c].at = "handler", OtherHandler(c),
         UNCHANGED <<deployment, rights, since, call, changes, faults>>
  PROVE  AInv'
<1> DEFINE r == request[c]
<1>1. /\ r \in Request /\ Active(r) /\ UNCHANGED store
      /\ Endpoint(call[c]) \notin {"create_content", "set_quick_summary", "link_content"}
      /\ saved \subseteq Workspaces /\ summarised \subseteq saved /\ linked \subseteq saved
  BY HandlerKnows DEF OtherHandler
<1>2. PICK answer \in {"ok", "missing"} : Answer(c, answer)
  BY DEF OtherHandler
<1> DEFINE q == [r EXCEPT !.at = "answered", !.answer = answer]
<1>3. request' = [request EXCEPT ![c] = q]
  BY <1>2 DEF Answer, AInv, TypeOK
<1>4. /\ q \in Request /\ q.at = "answered" /\ q.token = r.token /\ q.header = r.header
      /\ q.content = r.content
  BY <1>1 DEF Request, Answers
<1> HIDE DEF q
<1>5. saved' = saved /\ summarised' = summarised /\ linked' = linked
  BY <1>1 DEF store
<1>6. ~ (call[c].tool = SaveAndLink /\ call[c].at = "wait")
  BY <1>1, HandlerKnows, LinkSteps
<1> QED
  BY <1>1, <1>3, <1>4, <1>5, <1>6, StoredStep, FaultsKept

LEMMA HandleStep ==
  ASSUME AInv, NEW c \in Calls, Handle(c)
  PROVE  AInv'
<1>1. /\ request[c].at = "handler" /\ Active(request[c])
      /\ UNCHANGED <<deployment, rights, since, call, changes, faults>>
  BY DEF Handle, Active
<1>2. CASE deployment.database
  BY <1>1, <1>2, CreateContentStep, SetQuickSummaryStep, LinkContentStep, OtherHandlerStep
     DEF Handle
<1>3. CASE ~deployment.database
  BY <1>1, <1>3, AnswerStep, FaultsKept DEF Handle, Answers
<1> QED
  BY <1>2, <1>3

LEMMA RequestFailsStep ==
  ASSUME AInv, NEW c \in Calls, RequestFails(c)
  PROVE  AInv'
<1> DEFINE r == request[c]
           q == [r EXCEPT !.at = "answered", !.answer = "failed"]
<1>1. /\ r \in Request /\ Active(r) /\ Answer(c, "failed") /\ faults' \in 0 .. MaxFaults
      /\ UNCHANGED <<deployment, rights, summarised, linked, since, call, changes>>
  BY CallTypes, OneMoreFault DEF RequestFails, Active
<1>2. CASE saved' = saved
  <2>1. UNCHANGED store
    BY <1>1, <1>2 DEF store
  <2> QED
    BY <1>1, <2>1, AnswerStep DEF Answers
<1>3. CASE r.at = "handler" /\ deployment.database /\ saved' = saved \cup {r.ws}
  <2>1. /\ r.ws \in Workspaces
        /\ saved \subseteq Workspaces /\ summarised \subseteq saved /\ linked \subseteq saved
    BY <1>3, HandlerKnows
  <2>2. /\ q \in Request /\ q.at = "answered" /\ q.token = r.token /\ q.header = r.header
        /\ q.content = r.content /\ q.answer = "failed"
    BY <1>1 DEF Request, Answers
  <2>3. request' = [request EXCEPT ![c] = q]
    BY <1>1 DEF Answer, AInv, TypeOK
  <2> HIDE DEF q
  <2>4. call[c].tool = SaveAndLink /\ call[c].at = "wait" /\ call[c].step >= 2
          => r.content = call[c].content
    BY <1>3, HandlerKnows
  <2> QED
    BY <1>1, <1>3, <2>1, <2>2, <2>3, <2>4, StoredStep
<1> QED
  BY <1>2, <1>3 DEF RequestFails

-----------------------------------------------------------------------------
(* Back to the caller.                                                     *)

\* The request is forgotten, and the call ends or goes on.
LEMMA ForgetStep ==
  ASSUME AInv, NEW c \in Calls, Forget(c), NEW k \in Call, call' = [call EXCEPT ![c] = k],
         \A q : ~Active(q) => /\ Admitted(k, [NoRequest EXCEPT !.at = "gone"], Nothing)
                              /\ Linking(k, q, saved, summarised, linked),
         UNCHANGED <<deployment, rights, store, changes, faults>>
  PROVE  AInv'
<1>1. /\ saved' = saved /\ summarised' = summarised /\ linked' = linked
      /\ saved \subseteq Workspaces /\ summarised \subseteq saved /\ linked \subseteq saved
  BY DEF store, AInv, TypeOK
<1>2. /\ request' = [request EXCEPT ![c] = [NoRequest EXCEPT !.at = "gone"]]
      /\ since' = [since EXCEPT ![c] = Nothing]
  BY DEF Forget
<1> QED
  BY <1>1, <1>2, RestTypes, OneCall, FaultsKept

LEMMA DeliverStep ==
  ASSUME AInv, NEW c \in Calls, Deliver(c)
  PROVE  AInv'
<1> DEFINE k == call[c]
           r == request[c]
           next == [k EXCEPT !.at = "send", !.step = @ + 1, !.content = r.content]
<1>1. /\ k \in Call /\ r \in Request /\ k.at = "wait" /\ r.at = "answered" /\ Active(r)
      /\ Forget(c) /\ Bound(k) /\ Linking(k, r, saved, summarised, linked)
      /\ UNCHANGED <<deployment, rights, store, changes, faults>>
  BY CallTypes DEF Deliver, Active, Admitted
<1>2. ASSUME NEW a \in Answers, End(c, a),
             a = "ok" /\ k.tool = SaveAndLink =>
               k.content \in saved \cap linked /\ (k.summary => k.content \in summarised)
      PROVE  AInv'
  <2>1. call' = [call EXCEPT ![c] = Answered(k, a)]
    BY <1>2 DEF End, AInv, TypeOK
  <2>2. \A q : ~Active(q) =>
          /\ Admitted(Answered(k, a), [NoRequest EXCEPT !.at = "gone"], Nothing)
          /\ Linking(Answered(k, a), q, saved, summarised, linked)
    BY <1>1, <1>2, RestTypes, Ends
  <2>3. Answered(k, a) \in Call
    BY <1>1, <1>2, RestTypes, Ends
  <2> QED
    BY <1>1, <2>1, <2>2, <2>3, ForgetStep
<1>3. CASE r.answer # "ok"
  <2>1. End(c, IF r.answer = "discarded" THEN "discarded" ELSE "error")
    BY <1>3 DEF Deliver
  <2> QED
    BY <1>2, <2>1 DEF Answers
<1>4. CASE r.answer = "ok" /\ k.step = Len(Plan(k))
  <2>1. End(c, "ok")
    BY <1>4 DEF Deliver
  <2>2. ASSUME k.tool = SaveAndLink
        PROVE  k.content \in saved \cap linked /\ (k.summary => k.content \in summarised)
    <3>1. /\ k.step \in 1 .. Len(Plan(k)) /\ (k.step >= 2 => k.content \in saved)
          /\ k.step = 3 => k.content \in summarised
          /\ k.step >= 2 => r.content = k.content
          /\ Endpoint(k) = "link_content" => r.content \in linked
      BY <1>1, <1>4, <2>2 DEF Linking
    <3>2. Endpoint(k) = "link_content" /\ k.step >= 2 /\ (k.summary => k.step = 3)
      BY <1>4, <2>2, <3>1, LinkSteps
    <3> QED
      BY <3>1, <3>2
  <2> QED
    BY <1>2, <2>1, <2>2 DEF Answers
<1>5. CASE r.answer = "ok" /\ k.step # Len(Plan(k))
  <2>1. call' = [call EXCEPT ![c] = next]
    BY <1>4, <1>5 DEF Deliver, AInv, TypeOK
  <2>2. next \in Call
    <3>1. k.step + 1 \in Nat
      BY <1>1 DEF Call
    <3>2. r.content \in Named \cup {Local}
      BY <1>1 DEF Request
    <3> DEFINE n == k.step + 1
    <3> HIDE DEF n
    <3>3. [k EXCEPT !.at = "send", !.step = n, !.content = r.content] \in Call
      BY <1>1, <3>1, <3>2 DEF Call, n
    <3> QED
      BY <3>3 DEF n
  <2>3. /\ next.at = "send" /\ next.tool = k.tool /\ next.token = k.token
        /\ next.ws = k.ws /\ next.defaultWs = k.defaultWs /\ next.step = k.step + 1
        /\ next.content = r.content /\ next.summary = k.summary
        /\ next.endpoint = k.endpoint /\ next.answer = k.answer
    BY <1>1 DEF Call
  <2> HIDE DEF next
  <2>4. Bound(next)
    BY <1>1, <2>3 DEF Bound
  <2>5. Admitted(next, [NoRequest EXCEPT !.at = "gone"], Nothing)
    BY <2>3, <2>4, RestTypes DEF Admitted
  <2>6. ASSUME k.tool = SaveAndLink
        PROVE  /\ next.step \in 1 .. Len(Plan(next)) /\ next.content \in saved
               /\ next.step = 3 => next.content \in summarised
    <3>1. /\ k.step \in 1 .. Len(Plan(k)) /\ (k.step >= 2 => k.content \in saved)
          /\ k.step >= 2 => r.content = k.content
          /\ Endpoint(k) = "create_content" => r.content \in saved
          /\ Endpoint(k) = "set_quick_summary" => r.content \in summarised
      BY <1>1, <1>5, <2>6 DEF Linking
    <3>2. Plan(next) = Plan(k)
      BY <2>3 DEF Plan
    <3>3. /\ k.step \in 1 .. 3
          /\ k.step = 1 => Endpoint(k) = "create_content"
          /\ k.step # 1 => Endpoint(k) = "set_quick_summary" /\ k.step = 2
      BY <1>5, <2>6, <3>1, LinkSteps
    <3>4. next.step \in 1 .. Len(Plan(next))
      <4>1. Len(Plan(k)) \in Nat
        BY <2>6, LinkPlan
      <4> QED
        BY <1>5, <2>3, <3>1, <3>2, <4>1
    <3>5. next.content \in saved
      BY <2>3, <3>1, <3>3
    <3>6. next.step = 3 => next.content \in summarised
      BY <2>3, <3>1, <3>3
    <3> QED
      BY <3>4, <3>5, <3>6
  <2>7. \A q : ~Active(q) => Linking(next, q, saved, summarised, linked)
    BY <1>1, <2>3, <2>6 DEF Linking
  <2> QED
    BY <1>1, <2>1, <2>2, <2>5, <2>7, ForgetStep
<1> QED
  BY <1>3, <1>4, <1>5

\* The request goes on while nobody waits for it.
LEMMA TimeOutStep ==
  ASSUME AInv, NEW c \in Calls, TimeOut(c)
  PROVE  AInv'
<1> DEFINE k == [call[c] EXCEPT !.at = "done", !.answer = "error"]
<1>1. /\ call[c] \in Call /\ call[c].at = "wait"
      /\ Admitted(call[c], request[c], since[c])
      /\ Linking(call[c], request[c], saved, summarised, linked)
      /\ UNCHANGED <<deployment, rights, store, since, request, changes>>
      /\ faults' \in 0 .. MaxFaults
  BY CallTypes, OneMoreFault DEF TimeOut
<1>2. call' = [call EXCEPT ![c] = k]
  BY DEF TimeOut, AInv, TypeOK
<1>3. /\ k \in Call /\ k.at = "done" /\ k.answer = "error" /\ k.tool = call[c].tool
      /\ k.token = call[c].token /\ k.ws = call[c].ws /\ k.defaultWs = call[c].defaultWs
      /\ k.step = call[c].step /\ k.summary = call[c].summary /\ k.endpoint = call[c].endpoint
  BY <1>1 DEF Call, Answers
<1> HIDE DEF k
<1>4. Endpoint(k) = Endpoint(call[c]) /\ Selected(k) = Selected(call[c])
  BY <1>3 DEF Endpoint, Plan, Selected
<1>5. Bound(call[c]) => Bound(k)
  BY <1>3 DEF Bound
<1>6. Admitted(k, request[c], since[c])
  BY <1>1, <1>3, <1>4, <1>5 DEF Admitted
<1>7. Linking(k, request[c], saved, summarised, linked)
  BY <1>1, <1>3 DEF Linking
<1> QED
  BY <1>1, <1>2, <1>3, <1>6, <1>7, CallStep

LEMMA DropAnswerStep ==
  ASSUME AInv, NEW c \in Calls, DropAnswer(c)
  PROVE  AInv'
<1> DEFINE k == call[c]
           a == call[c].answer
<1>1. /\ k \in Call /\ a \in Answers /\ Forget(c) /\ End(c, a)
      /\ Linking(k, request[c], saved, summarised, linked)
      /\ UNCHANGED <<deployment, rights, store, changes, faults>>
  BY CallTypes DEF DropAnswer, Call
<1>2. a = "ok" /\ k.tool = SaveAndLink =>
        k.content \in saved \cap linked /\ (k.summary => k.content \in summarised)
  BY <1>1 DEF Linking
<1>3. call' = [call EXCEPT ![c] = Answered(k, a)]
  BY <1>1 DEF End, AInv, TypeOK
<1> HIDE DEF k, a
<1>4. \A q : ~Active(q) =>
        /\ Admitted(Answered(k, a), [NoRequest EXCEPT !.at = "gone"], Nothing)
        /\ Linking(Answered(k, a), q, saved, summarised, linked)
  BY <1>1, <1>2, RestTypes, Ends
<1>5. Answered(k, a) \in Call
  BY <1>1, <1>2, RestTypes, Ends
<1> QED
  BY <1>1, <1>3, <1>4, <1>5, ForgetStep

-----------------------------------------------------------------------------
(* Administrators.                                                         *)

LEMMA RightsTyped ==
  ASSUME AInv, Change
  PROVE  /\ key' \in [Subjects -> KeyStates] /\ subject' \in [Subjects -> BOOLEAN]
         /\ member' \in [Subjects \X Workspaces -> Membership]
         /\ open' \in [Workspaces -> BOOLEAN]
<1>1. /\ key \in [Subjects -> KeyStates] /\ subject \in [Subjects -> BOOLEAN]
      /\ member \in [Subjects \X Workspaces -> Membership] /\ open \in [Workspaces -> BOOLEAN]
  BY DEF AInv, TypeOK
<1>2. ASSUME NEW s \in Subjects, ChangeKey(s)
      PROVE  key' \in [Subjects -> KeyStates] /\ UNCHANGED <<subject, member, open>>
  BY <1>1, <1>2 DEF ChangeKey, KeyStates
<1>3. ASSUME NEW s \in Subjects, ChangeSubject(s)
      PROVE  subject' \in [Subjects -> BOOLEAN] /\ UNCHANGED <<key, member, open>>
  BY <1>1, <1>3 DEF ChangeSubject
<1>4. ASSUME NEW s \in Subjects, NEW w \in Workspaces, ChangeMembership(s, w)
      PROVE  /\ member' \in [Subjects \X Workspaces -> Membership]
             /\ UNCHANGED <<key, subject, open>>
  <2>1. PICK m \in {None} \cup {[role |-> r, active |-> TRUE] : r \in Given} :
          member' = [member EXCEPT ![<<s, w>>] = m] /\ UNCHANGED <<key, subject, open>>
    BY <1>4 DEF ChangeMembership
  <2>2. m \in Membership
    <3>1. \A r \in Given : [role |-> r, active |-> TRUE] \in [role : Roles, active : BOOLEAN]
      BY AccessAssumption
    <3> QED
      BY <3>1 DEF Membership
  <2> QED
    BY <1>1, <2>1, <2>2
<1>5. ASSUME NEW w \in Workspaces, ChangeWorkspace(w)
      PROVE  open' \in [Workspaces -> BOOLEAN] /\ UNCHANGED <<key, subject, member>>
  BY <1>1, <1>5 DEF ChangeWorkspace
<1>6. \/ \E s \in Subjects : ChangeKey(s) \/ ChangeSubject(s)
      \/ \E s \in Subjects, w \in Workspaces : ChangeMembership(s, w)
      \/ \E w \in Workspaces : ChangeWorkspace(w)
  BY DEF Change
<1> QED
  BY <1>1, <1>2, <1>3, <1>4, <1>5, <1>6

LEMMA Grows ==
  ASSUME NEW h \in Noted, NEW g \in Noted
  PROVE  Either(h, g) \in Noted /\ Within(h, Either(h, g)) /\ Within(g, Either(h, g))
BY DEF Noted, Either, Within

\* What is noted of a request covers what holds after the change.
LEMMA ChangeNotes ==
  ASSUME AInv, Change, NEW c \in Calls
  PROVE  /\ since'[c] \in Noted /\ Within(since[c], since'[c])
         /\ Active(request[c]) =>
              Within(Holds(Bearer(request[c].token), Current(c))', since'[c])
<1> DEFINE s == Bearer(request[c].token)
           h == Holds(Bearer(request[c].token), Current(c))'
<1>1. since[c] \in Noted /\ request[c] \in Request
  BY CallTypes
<1>2. deployment' = deployment /\ request' = request /\ call' = call
  BY DEF Change
<1>3. s \in Subjects \cup {None} /\ s' = s
  BY <1>1, <1>2 DEF Bearer, Request, Subjects
<1>4. h \in Noted
  BY <1>3, RightsTyped DEF Holds, Noted, Nothing, MemberOf
<1>5. since'[c] = IF request[c].at \in {"none", "gone"} THEN since[c] ELSE Either(since[c], h)
  BY DEF Change
<1> HIDE DEF h
<1>6. CASE Active(request[c])
  BY <1>1, <1>4, <1>5, <1>6, Grows DEF Active, h
<1>7. CASE ~Active(request[c])
  BY <1>1, <1>5, <1>7 DEF Active, Within
<1> QED
  BY <1>6, <1>7

LEMMA ChangeStep ==
  ASSUME AInv, Change
  PROVE  AInv'
<1>1. /\ UNCHANGED <<deployment, store, call, request, faults>> /\ changes' \in 0 .. MaxChanges
      /\ DOMAIN since' = Calls /\ \E f : since' = [c \in Calls |-> f[c]]
  <2>1. changes' \in 0 .. MaxChanges
    BY AccessAssumption DEF Change, AInv, TypeOK
  <2> DEFINE new == [c \in Calls |->
               IF request[c].at \in {"none", "gone"} THEN since[c]
               ELSE Either(since[c], Holds(Bearer(request[c].token), Current(c))')]
  <2>2. since' = new /\ UNCHANGED <<deployment, store, call, request, faults>>
    BY DEF Change
  <2>3. DOMAIN new = Calls /\ new = [c \in Calls |-> new[c]]
    OBVIOUS
  <2> HIDE DEF new
  <2> QED
    BY <2>1, <2>2, <2>3
<1>2. since' \in [Calls -> Noted]
  BY <1>1, ChangeNotes
<1>3. TypeOK'
  BY <1>1, <1>2, RightsTyped DEF AInv, TypeOK, store
<1>4. ASSUME NEW c \in Calls
      PROVE  Admitted(call[c], request[c], since[c])'
  <2> DEFINE k == call[c]
             q == request[c]
  <2>1. /\ Admitted(k, q, since[c]) /\ Within(since[c], since'[c])
        /\ deployment' = deployment /\ k' = k /\ q' = q
    BY <1>1, CallTypes, ChangeNotes
  <2>2. Active(q) => Within(Holds(Bearer(q.token), Endpoint(k)), since[c])'
    BY <2>1, ChangeNotes DEF Current, Endpoint
  <2>3. Bound(k)' <=> Bound(k)
    BY <2>1 DEF Bound
  <2>4. Bearer(q.token)' = Bearer(q.token)
    BY <2>1 DEF Bearer
  <2> QED
    BY <2>1, <2>2, <2>3, <2>4 DEF Admitted, Within
<1>5. ASSUME NEW c \in Calls
      PROVE  Linking(call[c], request[c], saved, summarised, linked)'
  BY <1>1, CallTypes DEF store
<1> QED
  BY <1>3, <1>4, <1>5 DEF AInv

-----------------------------------------------------------------------------
(* The theorems.                                                           *)

LEMMA NextHolds == AInv /\ [Next]_vars => AInv'
<1> SUFFICES ASSUME AInv, [Next]_vars PROVE AInv'
  OBVIOUS
<1>1. ASSUME NEW c \in Calls, Ask(c) \/ AskAgain(c)
      PROVE  AInv'
  BY <1>1, AskStep, AskAgainStep
<1>2. ASSUME NEW c \in Calls, Proceed(c)
      PROVE  AInv'
  <2>1. CASE CheckBearer(c) \/ CheckMembership(c) \/ MakeClient(c) \/ Send(c)
    BY <2>1, CheckBearerStep, CheckMembershipStep, MakeClientStep, SendStep
  <2>2. CASE Serve(c)
    BY <2>2, ResolveWorkspaceStep, UndatabasedStep, ReadKeyStep, ReadMembershipStep,
       WriteAuditStep, HandleStep DEF Serve
  <2>3. CASE Deliver(c) \/ DropAnswer(c)
    BY <2>3, DeliverStep, DropAnswerStep
  <2> QED
    BY <1>2, <2>1, <2>2, <2>3 DEF Proceed
<1>3. ASSUME NEW c \in Calls, BearerFails(c) \/ LoseContext(c) \/ RequestFails(c) \/ TimeOut(c)
      PROVE  AInv'
  BY <1>3, BearerFailsStep, LoseContextStep, RequestFailsStep, TimeOutStep
<1>4. CASE Change
  BY <1>4, ChangeStep
<1>5. CASE UNCHANGED vars
  <2>1. /\ TypeOK'
    BY <1>5 DEF AInv, TypeOK, vars, rights, store
  <2>2. ASSUME NEW c \in Calls
        PROVE  /\ Admitted(call[c], request[c], since[c])'
               /\ Linking(call[c], request[c], saved, summarised, linked)'
    <3>1. /\ Admitted(call[c], request[c], since[c])
          /\ Linking(call[c], request[c], saved, summarised, linked)
      BY CallTypes
    <3>2. Admitted(call[c], request[c], since[c])'
      BY <1>5, <3>1 DEF vars, rights, Admitted, Bound, Holds, Bearer, MemberOf
    <3>3. Linking(call[c], request[c], saved, summarised, linked)'
      BY <1>5, <3>1 DEF vars, store
    <3> QED
      BY <3>2, <3>3
  <2> QED
    BY <2>1, <2>2 DEF AInv
<1> QED
  BY <1>1, <1>2, <1>3, <1>4, <1>5 DEF Next

LEMMA Invariant == Spec => []AInv
<1> QED
  BY InitHolds, NextHolds, PTL DEF Spec

\* Every variable keeps its type: what a call, a request and the notes about it are made
\* of, and that only a stored content is summarised or linked.
THEOREM TypeCorrect == Spec => []TypeOK
<1>1. AInv => TypeOK
  BY DEF AInv
<1> QED
  BY <1>1, Invariant, PTL

\* A handler about to run was admitted as the subject of the caller's key, in the workspace
\* the caller named or the bearer check found: client.py and workspace_context.py, for every
\* configuration in which the caller has a key to be known by.
THEOREM CallerActs == Spec => []ActsAsCaller
<1>1. AInv => ActsAsCaller
  <2> SUFFICES ASSUME AInv, NEW c \in Calls, Entering(c)
               PROVE  /\ call[c].ws # None => request[c].ws = call[c].ws
                      /\ deployment.auth = "api_key"
                           /\ (call[c].tool = "rest" \/ deployment.transport = "api_key")
                           => request[c].who = Caller
                      /\ deployment.transport = "api_key" /\ call[c].ws = None
                           /\ call[c].tool # "rest"
                           => request[c].ws = call[c].defaultWs
    BY DEF ActsAsCaller
  <2> DEFINE k == call[c]
             q == request[c]
  <2>1. q.at = "handler" /\ deployment.database /\ Active(q) /\ Admitted(k, q, since[c])
    BY CallTypes DEF Entering, Active
  <2>2. /\ Bound(k) /\ q.token = k.token /\ q.header = Selected(k)
        /\ q.header # None => q.ws = q.header
        /\ q.who = Bearer(q.token)
    BY <2>1 DEF Admitted
  <2>3. k.ws # None => q.ws = k.ws
    BY <2>2 DEF Selected
  <2>4. deployment.auth = "api_key" /\ (k.tool = "rest" \/ deployment.transport = "api_key")
          => q.who = Caller
    BY <2>2 DEF Bound, Bearer
  <2>5. deployment.transport = "api_key" /\ k.ws = None /\ k.tool # "rest" => q.ws = k.defaultWs
    BY <2>2, AccessAssumption DEF Bound, Selected
  <2> QED
    BY <2>3, <2>4, <2>5
<1> QED
  BY <1>1, Invariant, PTL

\* No handler is entered on a right that was gone before its request was sent, however keys,
\* subjects, memberships and workspaces change between the API's SELECTs.
THEOREM RightsHeld == Spec => []OnlyByRight
<1>1. AInv => OnlyByRight
  <2> SUFFICES ASSUME AInv, NEW c \in Calls, Entering(c)
               PROVE  /\ deployment.auth = "api_key" => since[c].key
                      /\ since[c].subject
                      /\ request[c].ws \in since[c].member
                      /\ request[c].ws \in since[c].open
    BY DEF OnlyByRight
  <2>1. request[c].at = "handler" /\ deployment.database
        /\ Admitted(call[c], request[c], since[c])
    BY CallTypes DEF Entering
  <2> QED
    BY <2>1 DEF Admitted
<1> QED
  BY <1>1, Invariant, PTL

\* What save_and_link_to_hub reports as linked is stored, linked to the hub and summarised
\* as asked, whatever answers were lost and however often it was called before.
THEOREM LinkedIsWhole == Spec => []LinkedMeansWhole
<1>1. AInv => LinkedMeansWhole
  <2> SUFFICES ASSUME AInv, NEW c \in Calls, call[c].tool = SaveAndLink, call[c].answer = "ok"
               PROVE  /\ call[c].content \in saved \cap linked
                      /\ call[c].summary => call[c].content \in summarised
    BY DEF LinkedMeansWhole, SaveAndLink
  <2> QED
    BY CallTypes DEF Linking
<1> QED
  BY <1>1, Invariant, PTL

=============================================================================
