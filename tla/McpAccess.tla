------------------------------ MODULE McpAccess ------------------------------
(***************************************************************************)
(* A call of an MCP tool on its way to the memory: the bearer check of the *)
(* HTTP transport (mcp/http_auth.py), the client made for the call         *)
(* (mcp/client.py), the requests it sends one after the other, and the     *)
(* authorization of each of them by the API (api/workspace_context.py,     *)
(* api/dependencies/auth.py).  Every SELECT is a step of its own, so that  *)
(* keys, subjects, memberships and workspaces can change between any two   *)
(* of them; an answer may be lost or come too late, and the request it     *)
(* belongs to goes on without its caller.                                  *)
(*                                                                         *)
(* A call with tool "rest" is a request of an API client, with its own key *)
(* and without the tools.  One text and one hub stand for the data: a      *)
(* content is known by its workspace, and the hub is in HubHome.           *)
(***************************************************************************)
EXTENDS McpTools, Naturals

CONSTANTS
  Calls,        \* a call of one caller and its repetitions
  Caller,       \* the subject of the key the caller presents
  Service,      \* the subject of MEMORY_LAB_API_TOKEN and of the bypass
  Workspaces,   \* the workspaces there are
  Local,        \* the workspace of an API without a database
  DefaultWs,    \* the one row of cb_workspaces with is_default
  HubHome,      \* the workspace of the hub
  None,         \* no value
  Deployments,  \* the configurations of the two servers
  Memberships,  \* the initial memberships: functions of <<subject, workspace>>
  Tried,        \* the tools the caller tries
  TriedDirectly, \* the endpoints the caller tries without a tool
  Given,        \* the roles administrators give
  MaxChanges,   \* bound on what administrators change
  MaxFaults     \* bound on failures and late answers

ASSUME AccessAssumption ==
  /\ DefaultWs \in Workspaces
  /\ HubHome \in Workspaces /\ Local \notin Workspaces
  /\ Caller # Service /\ None \notin Workspaces \cup {Caller, Service} /\ None # "ok"
  /\ Given \subseteq Roles /\ Tried \subseteq ApprovedTools /\ TriedDirectly \subseteq Endpoints
  /\ MaxChanges \in Nat /\ MaxFaults \in Nat

VARIABLES
  deployment,   \* the configuration, which never changes
  key,          \* the state of each subject's api_keys row
  subject,      \* auth_subjects: is the subject active?
  member,       \* workspace_memberships: [role, active] or None
  open,         \* cb_workspaces: is the workspace active?
  call,         \* each call, as its caller and the MCP server see it
  request,      \* the last request of each call, as the API sees it
  saved,        \* the workspaces that hold the text
  summarised,   \* ... whose content has the quick summary
  linked,       \* ... whose content is linked to the hub
  since,        \* history: what has held at some time since a request was sent
  changes, faults

vars == <<deployment, key, subject, member, open, call, request, saved, summarised,
          linked, since, changes, faults>>
rights == <<key, subject, member, open>>
store == <<saved, summarised, linked>>
Subjects == {Caller, Service}

(* "spent" stands for revoked, expired and disabled, as a status or by revoked_at and expires_at. *)
KeyStates == {"active", "spent"}

Membership == [role : Roles, active : BOOLEAN] \cup {None}

(* The MCP server speaks HTTP with keys or without, or stdio; the API uses  *)
(* keys, the local bypass, or has no database at all.                       *)
Deployment ==
  [transport : {"api_key", "none", "stdio"}, auth : {"api_key", "local_dev_bypass"},
   database : BOOLEAN, toolWs : Workspaces \cup {None}, apiWs : Workspaces \cup {None}]

ASSUME DeploymentsAssumption ==
  Deployments \subseteq Deployment /\ Memberships \subseteq [Subjects \X Workspaces -> Membership]

Answers == {"ok", "error", "unavailable", "unauthenticated", "discarded", "denied", "missing",
            "failed", None}
Named == Workspaces \cup {None}

Call ==
  [at : {"idle", "bearer", "membership", "client", "send", "wait", "done"},
   tool : ApprovedTools \cup {"rest", None}, ws : Named, endpoint : Endpoints \cup {None},
   ctx : [token : {Caller}, ws : Workspaces] \cup {None},
   token : Subjects \cup {None}, defaultWs : Named, step : Nat,
   content : Named \cup {Local}, summary : BOOLEAN, answer : Answers]

Request ==
  [at : {"none", "workspace", "key", "member", "audit", "handler", "answered", "gone"},
   token : Subjects \cup {None}, header : Named, ws : Named \cup {Local},
   who : Subjects \cup {None}, content : Named \cup {Local}, answer : Answers]

Noted == [key : BOOLEAN, subject : BOOLEAN, member : SUBSET Workspaces, open : SUBSET Workspaces]

(* A call: its place, what was asked, the caller's context and the client. *)
Idle == [at |-> "idle", tool |-> None, ws |-> None, endpoint |-> None, ctx |-> None,
         token |-> None, defaultWs |-> None, step |-> 0, content |-> None,
         summary |-> FALSE, answer |-> None]

(* A request: its place in the API, the workspace and the identity found so far. *)
NoRequest == [at |-> "none", token |-> None, header |-> None, ws |-> None, who |-> None,
              content |-> None, answer |-> None]

Nothing == [key |-> FALSE, subject |-> FALSE, member |-> {}, open |-> {}]

Init ==
  /\ deployment \in Deployments
  /\ key = [s \in Subjects |-> "active"]
  /\ subject = [s \in Subjects |-> TRUE]
  /\ member \in Memberships
  /\ open = [w \in Workspaces |-> TRUE]
  /\ call = [c \in Calls |-> Idle]
  /\ request = [c \in Calls |-> NoRequest]
  /\ saved = {} /\ summarised = {} /\ linked = {}
  /\ since = [c \in Calls |-> Nothing]
  /\ changes = 0 /\ faults = 0

-----------------------------------------------------------------------------
(* What a call sends. *)

(* The requests of a call; save_and_link_to_hub sets a quick summary only if it has one. *)
Plan(k) ==
  IF k.tool = "rest" THEN <<k.endpoint>>
  ELSE IF k.tool = "save_and_link_to_hub" /\ ~k.summary THEN <<"create_content", "link_content">>
  ELSE Requests[Method[k.tool]]

Current(c) == Plan(call[c])[call[c].step]

MemberOf(s) == {w \in Workspaces : member[<<s, w>>] # None /\ member[<<s, w>>].active}

(* What holds now of the rights that endpoint e needs, for the subject of a token. *)
Holds(s, e) ==
  IF s = None THEN Nothing
  ELSE [key |-> key[s] = "active", subject |-> subject[s],
        member |-> {w \in MemberOf(s) : member[<<s, w>>].role \in AllowedRoles(Permission[e])},
        open |-> {w \in Workspaces : open[w]}]

Either(h, g) == [key |-> h.key \/ g.key, subject |-> h.subject \/ g.subject,
                 member |-> h.member \cup g.member, open |-> h.open \cup g.open]

(* The identity a request acts under: the bearer's, or the service subject of the bypass. *)
Bearer(token) == IF deployment.auth = "local_dev_bypass" THEN Service ELSE token

Move(c, place) == call' = [call EXCEPT ![c].at = place]

(* A call that was answered, as it is remembered. *)
Answered(k, answer) == [Idle EXCEPT !.at = "done", !.tool = k.tool, !.endpoint = k.endpoint,
                                    !.ws = k.ws, !.content = k.content, !.summary = k.summary,
                                    !.answer = answer]

End(c, answer) == call' = [call EXCEPT ![c] = Answered(@, answer)]

(* The request is over, and with it what was noted about it. *)
Forget(c) ==
  /\ request' = [request EXCEPT ![c] = [NoRequest EXCEPT !.at = "gone"]]
  /\ since' = [since EXCEPT ![c] = Nothing]

-----------------------------------------------------------------------------
(* The MCP server. *)

Start(c, asked) ==
  call' = [call EXCEPT ![c] =
    IF asked.tool = "rest" THEN [asked EXCEPT !.token = Caller, !.step = 1, !.at = "send"]
    ELSE [asked EXCEPT !.at = IF deployment.transport = "api_key" THEN "bearer" ELSE "client"]]

(* The caller asks for a tool, or calls the API itself, naming a workspace or not. *)
Ask(c) ==
  /\ \A d \in Calls : call[d].at = "idle"
  /\ \E ws \in Workspaces \cup {None}, summary \in BOOLEAN :
       \/ \E t \in Tried :
            /\ summary => t = "save_and_link_to_hub"
            /\ Start(c, [Idle EXCEPT !.tool = t, !.ws = ws, !.summary = summary])
       \/ \E e \in TriedDirectly :
            /\ ~summary
            /\ Start(c, [Idle EXCEPT !.tool = "rest", !.endpoint = e, !.ws = ws])
  /\ UNCHANGED <<deployment, rights, store, since, request, changes, faults>>

(* After an error the caller may ask for the same again; what it asked before may still be running. *)
AskAgain(c) ==
  /\ call[c].at = "idle"
  /\ \E d \in Calls :
       /\ call[d].answer \in {"error", "unavailable"}
       /\ Start(c, [Idle EXCEPT !.tool = call[d].tool, !.ws = call[d].ws,
                                !.endpoint = call[d].endpoint, !.summary = call[d].summary])
  /\ UNCHANGED <<deployment, rights, store, since, request, changes, faults>>

(* _resolve_workspace_api_key: the key and its subject. *)
CheckBearer(c) ==
  /\ call[c].at = "bearer"
  /\ IF deployment.database /\ key[Caller] = "active" /\ subject[Caller]
     THEN Move(c, "membership")
     ELSE End(c, "unauthenticated")
  /\ UNCHANGED <<deployment, rights, store, since, request, changes, faults>>

(* ... and the workspace of the subject's oldest membership, whatever the workspace's status;   *)
(* created_at is left out, so that any of them may be the oldest.                                *)
CheckMembership(c) ==
  /\ call[c].at = "membership"
  /\ \/ \E w \in MemberOf(Caller) :
          call' = [call EXCEPT ![c].at = "client", ![c].ctx = [token |-> Caller, ws |-> w]]
     \/ MemberOf(Caller) = {} /\ End(c, "unauthenticated")
  /\ UNCHANGED <<deployment, rights, store, since, request, changes, faults>>

(* The lookup raises: 503. *)
BearerFails(c) ==
  /\ call[c].at \in {"bearer", "membership"} /\ faults < MaxFaults
  /\ End(c, "unavailable")
  /\ faults' = faults + 1
  /\ UNCHANGED <<deployment, rights, store, since, request, changes>>

(* The context variable does not reach the tool. *)
LoseContext(c) ==
  /\ call[c].at = "client" /\ call[c].ctx # None /\ faults < MaxFaults
  /\ call' = [call EXCEPT ![c].ctx = None]
  /\ faults' = faults + 1
  /\ UNCHANGED <<deployment, rights, store, since, request, changes>>

MakeClient_StaticToken(c) ==   \* Defect: without a context the service's token is used.
  /\ call[c].at = "client"
  /\ call' = [call EXCEPT ![c].at = "send", ![c].step = 1,
                ![c].token = IF call[c].ctx # None THEN call[c].ctx.token ELSE Service,
                ![c].defaultWs = IF call[c].ctx # None THEN call[c].ctx.ws ELSE deployment.toolWs]
  /\ UNCHANGED <<deployment, rights, store, since, request, changes, faults>>

(* from_env: the caller's own key; else, under the authenticated transport, a client *)
(* that refuses; else the service's token and the configured workspace.              *)
MakeClient(c) ==
  /\ call[c].at = "client"
  /\ \/ /\ call[c].ctx # None
        /\ call' = [call EXCEPT ![c].at = "send", ![c].step = 1,
                      ![c].token = call[c].ctx.token, ![c].defaultWs = call[c].ctx.ws]
     \/ /\ call[c].ctx = None /\ deployment.transport = "api_key"
        /\ End(c, "error")
     \/ /\ call[c].ctx = None /\ deployment.transport # "api_key"
        /\ call' = [call EXCEPT ![c].at = "send", ![c].step = 1,
                      ![c].token = Service, ![c].defaultWs = deployment.toolWs]
  /\ UNCHANGED <<deployment, rights, store, since, request, changes, faults>>

(* _selected_workspace_id: the argument before the default. *)
Selected(k) == IF k.ws # None THEN k.ws ELSE k.defaultWs

(* _request: the next request leaves, with the bearer token and X-Workspace-ID. *)
Send(c) ==
  /\ call[c].at = "send"
  /\ Move(c, "wait")
  /\ request' = [request EXCEPT ![c] =
       [NoRequest EXCEPT !.at = "workspace", !.token = call[c].token,
                         !.header = Selected(call[c]), !.content = call[c].content]]
  /\ since' = [since EXCEPT ![c] = Holds(Bearer(call[c].token), Current(c))]
  /\ UNCHANGED <<deployment, rights, store, changes, faults>>

-----------------------------------------------------------------------------
(* The API. *)

Answer(c, answer) == request' = [request EXCEPT ![c].at = "answered", ![c].answer = answer]

(* resolve_workspace_context: the header, else the configured workspace, else the default one. *)
ResolveWorkspace(c) ==
  /\ request[c].at = "workspace"
  /\ LET w == IF request[c].header # None THEN request[c].header
              ELSE IF deployment.apiWs # None THEN deployment.apiWs ELSE DefaultWs
     IN  IF ~deployment.database
         THEN request' = [request EXCEPT ![c].at = "key", ![c].ws = Local]
         ELSE IF open[w] THEN request' = [request EXCEPT ![c].at = "key", ![c].ws = w]
         ELSE Answer(c, "denied")
  /\ UNCHANGED <<deployment, rights, store, since, call, changes, faults>>

Asks(c) == Permission[Current(c)]

(* Without a database only reading is let through. *)
Undatabased(c) ==
  /\ request[c].at = "key" /\ ~deployment.database
  /\ IF Asks(c) \in ReadPermissions
     THEN request' = [request EXCEPT ![c].at = "handler"]
     ELSE Answer(c, "denied")
  /\ UNCHANGED <<deployment, rights, store, since, call, changes, faults>>

ReadKey_AnySubject(c) ==   \* Defect: the subject's status is not looked at.
  /\ request[c].at = "key" /\ deployment.database
  /\ LET who == Bearer(request[c].token)
     IN  IF who # None /\ (deployment.auth = "api_key" => key[who] = "active")
         THEN request' = [request EXCEPT ![c].at = "member", ![c].who = who]
         ELSE Answer(c, "denied")
  /\ UNCHANGED <<deployment, rights, store, since, call, changes, faults>>

(* The key's row joined with its subject; under the bypass the subject alone. *)
ReadKey(c) ==
  /\ request[c].at = "key" /\ deployment.database
  /\ LET who == Bearer(request[c].token)
     IN  IF who # None /\ subject[who] /\ (deployment.auth = "api_key" => key[who] = "active")
         THEN request' = [request EXCEPT ![c].at = "member", ![c].who = who]
         ELSE Answer(c, "denied")
  /\ UNCHANGED <<deployment, rights, store, since, call, changes, faults>>

(* The membership in the selected workspace; its role must hold the permission. *)
ReadMembership(c) ==
  /\ request[c].at = "member"
  /\ LET m == member[<<request[c].who, request[c].ws>>]
     IN  IF m # None /\ m.active /\ m.role \in AllowedRoles(Asks(c))
         THEN request' = [request EXCEPT ![c].at = IF Asks(c) \in AdminPermissions
                                                   THEN "audit" ELSE "handler"]
         ELSE Answer(c, "denied")
  /\ UNCHANGED <<deployment, rights, store, since, call, changes, faults>>

(* _write_audit_event, in a transaction of its own before the handler; its failure is ignored. *)
WriteAudit(c) ==
  /\ request[c].at = "audit"
  /\ request' = [request EXCEPT ![c].at = "handler"]
  /\ UNCHANGED <<deployment, rights, store, since, call, changes, faults>>

(* create_content_minimal: a known text is answered with its content, a new one saved or discarded. *)
CreateContent(c) ==
  /\ Current(c) = "create_content"
  /\ UNCHANGED <<summarised, linked>>
  /\ \/ /\ saved' = saved \cup {request[c].ws}
        /\ request' = [request EXCEPT ![c].at = "answered", ![c].answer = "ok",
                                      ![c].content = request[c].ws]
     \/ request[c].ws \notin saved /\ saved' = saved /\ Answer(c, "discarded")

(* set_quick_summary: a content of the workspace, or 404. *)
SetQuickSummary(c) ==
  /\ Current(c) = "set_quick_summary"
  /\ UNCHANGED <<saved, linked>>
  /\ IF request[c].content = request[c].ws /\ request[c].ws \in saved
     THEN summarised' = summarised \cup {request[c].ws} /\ Answer(c, "ok")
     ELSE summarised' = summarised /\ Answer(c, "missing")

(* link_content: a hub and a content of the workspace, or 404; a link that exists is left. *)
LinkContent(c) ==
  /\ Current(c) = "link_content"
  /\ UNCHANGED <<saved, summarised>>
  /\ IF request[c].ws = HubHome /\ request[c].content = HubHome /\ HubHome \in saved
     THEN linked' = linked \cup {HubHome} /\ Answer(c, "ok")
     ELSE linked' = linked /\ Answer(c, "missing")

(* Every other handler: nothing this module keeps. *)
OtherHandler(c) ==
  /\ Current(c) \notin {"create_content", "set_quick_summary", "link_content"}
  /\ UNCHANGED store
  /\ \E answer \in {"ok", "missing"} : Answer(c, answer)

Handle(c) ==
  /\ request[c].at = "handler"
  /\ IF deployment.database
     THEN CreateContent(c) \/ SetQuickSummary(c) \/ LinkContent(c) \/ OtherHandler(c)
     ELSE Answer(c, "failed") /\ UNCHANGED store
  /\ UNCHANGED <<deployment, rights, since, call, changes, faults>>

(* An exception, a lost connection or a restart of the API, at any place; a save may have *)
(* committed its first transaction.                                                        *)
RequestFails(c) ==
  /\ request[c].at \notin {"none", "answered", "gone"} /\ faults < MaxFaults
  /\ \/ saved' = saved
     \/ /\ request[c].at = "handler" /\ Current(c) = "create_content" /\ deployment.database
        /\ saved' = saved \cup {request[c].ws}
  /\ Answer(c, "failed")
  /\ faults' = faults + 1
  /\ UNCHANGED <<deployment, rights, summarised, linked, since, call, changes>>

-----------------------------------------------------------------------------
(* Back to the caller. *)

Deliver_LateIsDone(c) ==   \* Defect: an answer that did not come counts as one that did.
  /\ call[c].at = "wait" /\ request[c].at = "answered"
  /\ Forget(c)
  /\ IF request[c].answer \notin {"ok", "failed"}
     THEN End(c, IF request[c].answer = "discarded" THEN "discarded" ELSE "error")
     ELSE IF call[c].step = Len(Plan(call[c]))
     THEN End(c, "ok")
     ELSE call' = [call EXCEPT ![c].at = "send", ![c].step = @ + 1,
                     ![c].content = request[c].content]
  /\ UNCHANGED <<deployment, rights, store, changes, faults>>

(* _request, _call_api, save_and_link_to_hub: an error ends the tool, and so does a text *)
(* that was not kept; else the next request is sent, or the tool is done.                 *)
Deliver(c) ==
  /\ call[c].at = "wait" /\ request[c].at = "answered"
  /\ Forget(c)
  /\ IF request[c].answer # "ok"
     THEN End(c, IF request[c].answer = "discarded" THEN "discarded" ELSE "error")
     ELSE IF call[c].step = Len(Plan(call[c]))
     THEN End(c, "ok")
     ELSE call' = [call EXCEPT ![c].at = "send", ![c].step = @ + 1,
                     ![c].content = request[c].content]
  /\ UNCHANGED <<deployment, rights, store, changes, faults>>

(* No answer within timeout_s, or the connection breaks: the request goes on alone. *)
TimeOut(c) ==
  /\ call[c].at = "wait" /\ faults < MaxFaults
  /\ call' = [call EXCEPT ![c].at = "done", ![c].answer = "error"]
  /\ faults' = faults + 1
  /\ UNCHANGED <<deployment, rights, store, since, request, changes>>

(* The answer nobody waits for any more. *)
DropAnswer(c) ==
  /\ call[c].at = "done" /\ request[c].at = "answered"
  /\ Forget(c)
  /\ End(c, call[c].answer)
  /\ UNCHANGED <<deployment, rights, store, changes, faults>>

-----------------------------------------------------------------------------
(* Administrators change keys, subjects, memberships and workspaces. *)

ChangeKey(s) ==
  /\ key' = [key EXCEPT ![s] = IF @ = "active" THEN "spent" ELSE "active"]
  /\ UNCHANGED <<subject, member, open>>

ChangeSubject(s) ==
  /\ subject' = [subject EXCEPT ![s] = ~@]
  /\ UNCHANGED <<key, member, open>>

ChangeMembership(s, w) ==
  \E m \in {None} \cup {[role |-> r, active |-> TRUE] : r \in Given} :
    /\ m # member[<<s, w>>]
    /\ member' = [member EXCEPT ![<<s, w>>] = m]
    /\ UNCHANGED <<key, subject, open>>

ChangeWorkspace(w) ==
  /\ open' = [open EXCEPT ![w] = ~@]
  /\ UNCHANGED <<key, subject, member>>

Change ==
  /\ changes < MaxChanges
  /\ changes' = changes + 1
  /\ UNCHANGED <<deployment, store, call, request, faults>>
  /\ \/ \E s \in Subjects : ChangeKey(s) \/ ChangeSubject(s)
     \/ \E s \in Subjects, w \in Workspaces : ChangeMembership(s, w)
     \/ \E w \in Workspaces : ChangeWorkspace(w)
  /\ since' = [c \in Calls |->
       IF request[c].at \in {"none", "gone"} THEN since[c]
       ELSE Either(since[c], Holds(Bearer(request[c].token), Current(c))')]

Serve(c) ==
  ResolveWorkspace(c) \/ Undatabased(c) \/ ReadKey(c) \/ ReadMembership(c) \/ WriteAudit(c) \/ Handle(c)

Proceed(c) ==
  \/ CheckBearer(c) \/ CheckMembership(c) \/ MakeClient(c) \/ Send(c)
  \/ Serve(c) \/ Deliver(c) \/ DropAnswer(c)

Next ==
  \/ \E c \in Calls : Ask(c) \/ AskAgain(c) \/ Proceed(c)
  \/ \E c \in Calls : BearerFails(c) \/ LoseContext(c) \/ RequestFails(c) \/ TimeOut(c)
  \/ Change

Spec == Init /\ [][Next]_vars
-----------------------------------------------------------------------------
TypeOK ==
  /\ deployment \in Deployments
  /\ key \in [Subjects -> KeyStates] /\ subject \in [Subjects -> BOOLEAN]
  /\ member \in [Subjects \X Workspaces -> Membership]
  /\ open \in [Workspaces -> BOOLEAN]
  /\ call \in [Calls -> Call] /\ request \in [Calls -> Request]
  /\ saved \subseteq Workspaces /\ summarised \subseteq saved /\ linked \subseteq saved
  /\ since \in [Calls -> Noted]
  /\ changes \in 0 .. MaxChanges /\ faults \in 0 .. MaxFaults

Entering(c) == request[c].at = "handler" /\ deployment.database

(* Whoever calls a tool over HTTP, or the API directly, acts as nobody else: a handler that is   *)
(* about to run was admitted as the subject of the caller's key, in the workspace the caller     *)
(* named, else in the one the bearer check found (client.py's fix of the shared service token).  *)
ActsAsCaller ==
  \A c \in Calls : Entering(c) =>
    /\ call[c].ws # None => request[c].ws = call[c].ws
    /\ deployment.auth = "api_key" /\ (call[c].tool = "rest" \/ deployment.transport = "api_key")
         => request[c].who = Caller
    /\ deployment.transport = "api_key" /\ call[c].ws = None /\ call[c].tool # "rest"
         => request[c].ws = call[c].defaultWs

(* No entry on a right that was gone before the request was sent: the key, the subject, the      *)
(* membership with a role for the endpoint and the workspace have each held at some time since.  *)
OnlyByRight ==
  \A c \in Calls : Entering(c) =>
    /\ deployment.auth = "api_key" => since[c].key
    /\ since[c].subject
    /\ request[c].ws \in since[c].member
    /\ request[c].ws \in since[c].open

(* save_and_link_to_hub says linked only of a content that is stored, linked to the hub and, if  *)
(* a quick summary was given, summarised, whatever was lost on the way and however often it was  *)
(* called before.                                                                                *)
LinkedMeansWhole ==
  \A c \in Calls : call[c].tool = "save_and_link_to_hub" /\ call[c].answer = "ok" =>
    /\ call[c].content \in saved \cap linked
    /\ call[c].summary => call[c].content \in summarised

=============================================================================
