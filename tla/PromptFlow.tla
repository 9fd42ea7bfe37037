----------------------------- MODULE PromptFlow -----------------------------
(***************************************************************************)
(* From a supplied text to a prompt: the ingestion contract                *)
(* (ingestion/pipeline_contract.py) stores the text if it is asked to, the *)
(* flow (reasoning/ingestion_prompt_flow.py) takes its own record or lists *)
(* those of the workspace, the two hand-offs rank and pack them            *)
(* (retrieval/persistence_handoff.py, reasoning/persistence_prompt_        *)
(* handoff.py), each translating the errors of the one before.             *)
(*                                                                         *)
(* A flow is a client of the backend like any other: what it stored may be *)
(* replaced, or moved to another workspace, before it lists.  A text has a *)
(* score for the query (retrieval/search_by_purpose.py) and a length; what *)
(* scoring, chunking and classification make of it is left out.            *)
(***************************************************************************)
EXTENDS PostgresRecords, Integers

CONSTANTS
  Flows,         \* the clients that are flows
  FlowRequests,  \* what they are asked
  Malformed,     \* an id that is not blank, and no UUID
  Score,         \* the score of each text, for the query and purpose
  Size,          \* the length of the block of each text in the context
  Limit, MaxCandidates, MaxContext  \* limit, max_candidates, max_context_chars

ASSUME FlowAssumption ==
  /\ Flows \subseteq Clients /\ Contents \subseteq Nat
  /\ \A r \in FlowRequests : r.text # Unset
  /\ Limit \in Int /\ MaxCandidates \in Int /\ MaxContext \in Int

ASSUME ScoresAssumption ==
  \A t \in {r.value : r \in {q \in Requests : q.op = "put_content"}}
             \cup {r.text : r \in FlowRequests} \cup {ApiText, ""} :
    Score[t] \in Int /\ Size[t] \in Nat

VARIABLE flow   \* the flows' local variables

flowVars == <<vars, flow>>

(* listed: the records the prompt is to be made of; evidence: the ids in the prompt. *)
NoFlow == [at |-> "idle", request |-> Unset, listed |-> {}, evidence |-> <<>>, status |-> Unset]

FlowInit == Init /\ flow = [f \in Flows |-> NoFlow]

Finish(f, status) == flow' = [flow EXCEPT ![f].at = "done", ![f].status = status]

Submit(f) ==
  /\ flow[f].at = "idle"
  /\ \E r \in FlowRequests : flow' = [flow EXCEPT ![f].at = "ingest", ![f].request = r]
  /\ UNCHANGED vars

(* The calls of a flow are made like those of any client. *)
Make(f, request) ==
  /\ call' = [call EXCEPT ![f] = request] /\ answer' = [answer EXCEPT ![f] = Abstract!NoAnswer]
  /\ UNCHANGED <<tables, txn, clock, calls, saves, faults>>

-----------------------------------------------------------------------------
(* The ingestion pipeline. *)

(* _validate_request, _error_from_ingestion: the first thing that is missing. *)
Missing(r) ==
  CASE r.ws = Unset -> "invalid_workspace"
    [] r.ws # Unset /\ r.id = Unset -> "missing_content_id"
    [] r.ws # Unset /\ r.id # Unset /\ r.text = "" -> "missing_text"
    [] OTHER -> "nothing"

(* PublicSafeIngestionPipeline.run: check, and store if asked to. *)
Ingest(f) ==
  /\ flow[f].at = "ingest"
  /\ LET r == flow[f].request
     IN  \/ /\ Missing(r) # "nothing"
            /\ Finish(f, Missing(r)) /\ UNCHANGED vars
         \/ /\ Missing(r) = "nothing" /\ r.persist /\ ~r.given
            /\ Finish(f, "persistence_backend_required") /\ UNCHANGED vars
         \/ /\ Missing(r) = "nothing" /\ r.persist /\ r.given
            /\ Make(f, [op |-> "put_content", ws |-> r.ws, id |-> r.id, value |-> r.text])
            /\ flow' = [flow EXCEPT ![f].at = "put"]
         \/ /\ Missing(r) = "nothing" /\ ~r.persist
            /\ flow' = [flow EXCEPT ![f].at = "record"] /\ UNCHANGED vars

(* _persistence_error, _error_from_ingestion: the code of a refused workspace is kept. *)
PutAnswered(f) ==
  /\ flow[f].at = "put" /\ ~Waiting(f)
  /\ IF answer[f].code = "ok" THEN flow' = [flow EXCEPT ![f].at = "record"]
     ELSE Finish(f, IF answer[f].code = "invalid" /\ call[f].ws \notin Workspaces
                    THEN "invalid_workspace" ELSE "persistence_backend_failed")
  /\ UNCHANGED vars

-----------------------------------------------------------------------------
(* The records: the flow's own, or those of the workspace. *)

Record(f) ==
  /\ flow[f].at = "record"
  /\ LET r == flow[f].request
     IN  \/ /\ r.use /\ ~r.given
            /\ Finish(f, "persistence_backend_required") /\ UNCHANGED vars
         \/ /\ r.use /\ r.given
            /\ Make(f, [op |-> "list_content", ws |-> r.ws, id |-> Unset, value |-> Unset])
            /\ flow' = [flow EXCEPT ![f].at = "list"]
         \/ /\ ~r.use
            /\ flow' = [flow EXCEPT ![f].at = "pack", ![f].listed = {<<r.id, r.text>>}]
            /\ UNCHANGED vars

(* _records_from_request, and the two tables that translate its errors. *)
ListAnswered(f) ==
  /\ flow[f].at = "list" /\ ~Waiting(f)
  /\ IF answer[f].code # "ok" THEN Finish(f, "persistence_backend_failed")
     ELSE IF answer[f].value = {} THEN Finish(f, "context_package_failed")
     ELSE flow' = [flow EXCEPT ![f].at = "pack", ![f].listed = answer[f].value]
  /\ UNCHANGED vars

-----------------------------------------------------------------------------
(* The prompt. *)

Cut(s, n) == SubSeq(s, 1, IF n < 0 THEN 0 ELSE IF n < Len(s) THEN n ELSE Len(s))

Ranked_ByIdOnly(S) ==   \* Defect: the limit is applied to the listing, not to the ranking.
  [n \in 1 .. Cardinality(S) |-> CHOOSE x \in S : Cardinality({y \in S : y[1] < x[1]}) = n - 1]

(* rank_context_candidates_by_purpose: by score, then by id; n - 1 come before the n-th. *)
Better(x, y) == Score[x[2]] > Score[y[2]] \/ (Score[x[2]] = Score[y[2]] /\ x[1] < y[1])
Ranked(S) ==
  [n \in 1 .. Cardinality(S) |-> CHOOSE x \in S : Cardinality({y \in S : Better(y, x)}) = n - 1]

(* The blocks of the records, character by character. *)
Length(S) == Cardinality(UNION {{x} \X (1 .. Size[x[2]]) : x \in S})

(* build_context_candidates: blocks are taken in order until one does not fit; the first is *)
(* cut to the budget instead.                                                               *)
Taken(s) ==
  LET fits == {n \in 1 .. Len(s) : n = 1 \/ Length({s[m] : m \in 1 .. n}) <= MaxContext}
      sole == Len(s) > 0 /\ Size[s[1][2]] > MaxContext
  IN  IF s = <<>> THEN <<>>
      ELSE IF sole THEN SubSeq(s, 1, 1)
      ELSE SubSeq(s, 1, CHOOSE n \in fits : \A m \in fits : m <= n)

Evidence(S) == LET s == Taken(Cut(Cut(Ranked(S), Limit), MaxCandidates)) IN [n \in DOMAIN s |-> s[n][1]]

(* build_context_package, build_prompt_package; with a shape, the request counts the evidence. *)
Pack(f) ==
  /\ flow[f].at = "pack"
  /\ flow' = [flow EXCEPT ![f].at = "done", ![f].evidence = Evidence(flow[f].listed),
               ![f].status = IF flow[f].request.shape
                             THEN "completed_with_prompt_package_and_llm_request_shape"
                             ELSE "completed_with_prompt_package"]
  /\ UNCHANGED vars

FlowStep(f) ==
  Ingest(f) \/ PutAnswered(f) \/ Record(f) \/ ListAnswered(f) \/ Pack(f)

(* Clients that are not flows make the calls of PostgresRecords. *)
FlowNext ==
  \/ \E f \in Flows : Submit(f) \/ FlowStep(f)
  \/ /\ \/ \E c \in Clients \ Flows : Ask(c)
        \/ \E c \in Clients : Step(c) \/ Abort(c)
        \/ \E i \in Contents : ApiChunks(i) \/ \E w \in Workspaces : ApiSave(i, w)
     /\ UNCHANGED flow

FlowSpec ==
  /\ FlowInit /\ [][FlowNext]_flowVars
  /\ \A c \in Clients : WF_flowVars(Step(c) /\ UNCHANGED flow)
  /\ \A f \in Flows : WF_flowVars(FlowStep(f))

-----------------------------------------------------------------------------
Completed(f) ==
  /\ flow[f].at = "done"
  /\ flow[f].status \in {"completed_with_prompt_package",
                         "completed_with_prompt_package_and_llm_request_shape"}

(* A flow that stored its text and made a prompt from the workspace has its text in the prompt,  *)
(* unless records with a better rank fill it, or somebody has replaced or moved the record since *)
(* (the round trip the flow is for: ingestion_prompt_flow.py, "persist_to_supplied_backend").    *)
OwnTextIsOffered ==
  \A f \in Flows : Completed(f) /\ flow[f].request.persist /\ flow[f].request.use =>
    LET r == flow[f].request
        own == <<r.id, r.text>>
        before == {x \in flow[f].listed : \/ Score[x[2]] > Score[r.text]
                                          \/ Score[x[2]] = Score[r.text] /\ x[1] < r.id}
    IN  \/ r.id \in {flow[f].evidence[n] : n \in DOMAIN flow[f].evidence}
        \/ own \notin flow[f].listed
        \/ Cardinality(before) >= Limit \/ Cardinality(before) >= MaxCandidates
        \/ before # {} /\ Length(before \cup {own}) > MaxContext

=============================================================================
