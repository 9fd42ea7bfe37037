--------------------------- MODULE PostgresRecords ---------------------------
(***************************************************************************)
(* persistence/postgres_backend.py: a persistence backend in the tables    *)
(* of PostgreSQL.  A call opens a connection, runs its statements in one   *)
(* transaction and is answered after its COMMIT; a failure anywhere rolls  *)
(* back and is answered as one, also where only the answer of the COMMIT   *)
(* was lost.                                                               *)
(*                                                                         *)
(* The variables hold the committed rows; the rows of a transaction are    *)
(* known from its call and from how far it has come.  A statement that     *)
(* meets the uncommitted row of another transaction waits for its end.     *)
(* The API (api/services/api_adapter.py) writes the same tables: it        *)
(* stores a content first and the chunks of its body in a second           *)
(* transaction, which may come at any later time.                          *)
(***************************************************************************)
EXTENDS Naturals, FiniteSets, Sequences, SequencesExt

CONSTANTS
  Clients, Workspaces, Contents, Records, Unset,
  Statuses, Tiers,
  Requests,     \* the calls clients make
  Vectors,      \* MEMORY_LAB_VECTOR_EMBEDDINGS_ENABLED
  ApiText,      \* the first chunk of a body of several chunks, stored by the API
  MaxCalls,     \* bound on calls
  MaxSaves,     \* bound on contents stored by the API
  MaxFaults     \* bound on failures

ASSUME RecordsAssumption ==
  /\ Unset \notin Workspaces \cup Contents \cup Records
  /\ Vectors \in BOOLEAN /\ MaxCalls \in Nat /\ MaxSaves \in Nat /\ MaxFaults \in Nat

(* A call says what is done, where, to what, and with what; a text and an event are always given. *)
ASSUME RequestsAssumption ==
  /\ "" # Unset
  /\ \A r \in Requests :
       /\ r = [op |-> r.op, ws |-> r.ws, id |-> r.id, value |-> r.value] /\ r.op # "none"
       /\ r.op = "put_content" => r.value # Unset
       /\ r.op = "append_event" =>
            r.value = [status |-> r.value.status, complete |-> r.value.complete, of |-> r.value.of,
                       nr |-> r.value.nr]

VARIABLES
  registered,  \* cb_workspaces
  home,        \* content_items.workspace_id of each content id, or Unset
  body,        \* chunk_text of chunk 0, or Unset
  rest,        \* the chunks after chunk 0: "none", "due" from the API, or "stored"
  vector,      \* the text the embedding of chunk 0 was made of, or Unset
  state,       \* cb_governance_states
  events,      \* cb_governance_events: created_at is the start of the transaction, and until
               \* (history) the number of the last call when it was committed
  txn,         \* the transaction of each client
  call, answer,
  clock,       \* transactions started so far: NOW() is when one starts
  calls, saves, faults

tables == <<registered, home, body, rest, vector, state, events>>
vars == <<tables, txn, call, answer, clock, calls, saves, faults>>

(* fresh: inserted its workspace; cleared: deleted a chunk 0; made: the embedding it got. *)
NoTxn == [at |-> "none", began |-> 0, fresh |-> FALSE, cleared |-> FALSE, made |-> Unset]

Abstract == INSTANCE RecordStore WITH
  OneHome <- TRUE, GetsLost <- TRUE,
  content <- [k \in Workspaces \X Contents |->
                IF home[k[2]] # k[1] THEN Unset
                ELSE IF body[k[2]] = Unset THEN "" ELSE body[k[2]]],
  events <- {[ws |-> e.ws, record |-> e.record, event |-> e.event] : e \in events}

Reads == {"get_content", "list_content", "get_state", "list_events"}

Waiting(c) == Abstract!Waiting(c)
Tell(c, code, value) == answer' = [answer EXCEPT ![c] = [code |-> code, value |-> value]]

(* _run: the connection is closed, and what was not committed is rolled back. *)
Close(c) == txn' = [txn EXCEPT ![c] = NoTxn]
Goto(c, place) == txn' = [txn EXCEPT ![c].at = place]

Init ==
  /\ registered = {}
  /\ home = [i \in Contents |-> Unset] /\ body = home /\ vector = home
  /\ rest = [i \in Contents |-> "none"]
  /\ state = [k \in Workspaces \X Records |-> Unset]
  /\ events = {}
  /\ txn = [c \in Clients |-> NoTxn]
  /\ call = [c \in Clients |-> Abstract!NoCall] /\ answer = [c \in Clients |-> Abstract!NoAnswer]
  /\ clock = 0 /\ calls = 0 /\ saves = 0 /\ faults = 0

-----------------------------------------------------------------------------
(* A call. *)

(* Events are told apart by the number of their call. *)
Ask(c) ==
  /\ ~Waiting(c) /\ calls < MaxCalls
  /\ calls' = calls + 1
  /\ answer' = [answer EXCEPT ![c] = Abstract!NoAnswer]
  /\ \E r \in Requests :
       call' = [call EXCEPT ![c] =
         IF r.op = "append_event" THEN [r EXCEPT !.value.nr = calls'] ELSE r]
  /\ UNCHANGED <<tables, txn, clock, saves, faults>>

(* The checks before _run. *)
Refuse(c) ==
  /\ Waiting(c) /\ txn[c].at = "none" /\ ~Abstract!WellFormed(call[c])
  /\ Tell(c, "invalid", Unset)
  /\ UNCHANGED <<tables, txn, call, clock, calls, saves, faults>>

(* _connect, and the first statement: created_at is the start of the transaction. *)
Begin(c) ==
  /\ Waiting(c) /\ txn[c].at = "none" /\ Abstract!WellFormed(call[c])
  /\ clock' = clock + 1
  /\ txn' = [txn EXCEPT ![c] = [at |-> IF call[c].op \in Reads THEN "read" ELSE "workspace",
                                 began |-> clock', fresh |-> FALSE, cleared |-> FALSE, made |-> Unset]]
  /\ UNCHANGED <<tables, call, answer, calls, saves, faults>>

(* _ensure_workspace: ON CONFLICT DO NOTHING waits for whoever inserts the same row. *)
EnsureWorkspace(c) ==
  /\ txn[c].at = "workspace"
  /\ \A d \in Clients \ {c} : ~(txn[d].fresh /\ call[d].ws = call[c].ws)
  /\ txn' = [txn EXCEPT ![c].at = "row", ![c].fresh = call[c].ws \notin registered]
  /\ UNCHANGED <<tables, call, answer, clock, calls, saves, faults>>

(* The row that another transaction has written and not committed. *)
RowTaken(c) ==
  \E d \in Clients \ {c} :
    /\ txn[d].at \in {"clear", "insert", "commit"} /\ call[d].op = call[c].op
    /\ call[d].id = call[c].id /\ (call[c].op = "put_state" => call[d].ws = call[c].ws)

(* The upsert of the content: the id alone is the key, the workspace is a column. *)
WriteContent(c) ==
  /\ txn[c].at = "row" /\ call[c].op = "put_content" /\ ~RowTaken(c)
  /\ Goto(c, "clear")
  /\ UNCHANGED <<tables, call, answer, clock, calls, saves, faults>>

(* The upsert of the state, with a foreign key to the content it is about. *)
WriteState(c) ==
  /\ txn[c].at = "row" /\ call[c].op = "put_state" /\ ~RowTaken(c)
  /\ IF call[c].value.about # Unset /\ home[call[c].value.about] = Unset
     THEN Close(c) /\ Tell(c, "failed", Unset)
     ELSE Goto(c, "commit") /\ UNCHANGED answer
  /\ UNCHANGED <<tables, call, clock, calls, saves, faults>>

(* The INSERT of the event, under a fresh id. *)
WriteEvent(c) ==
  /\ txn[c].at = "row" /\ call[c].op = "append_event"
  /\ Goto(c, "commit")
  /\ UNCHANGED <<tables, call, answer, clock, calls, saves, faults>>

(* persist_body_chunks: chunk 0, and only chunk 0, is deleted. *)
ClearChunk(c) ==
  /\ txn[c].at = "clear"
  /\ txn' = [txn EXCEPT ![c].cleared = body[call[c].id] # Unset,
                        ![c].at = IF call[c].value = "" THEN "commit" ELSE "insert"]
  /\ UNCHANGED <<tables, call, answer, clock, calls, saves, faults>>

InsertChunk_KeepsVector(c) ==   \* Defect: chunk 0 is updated in place, with the embedding it had.
  /\ txn[c].at = "insert"
  /\ IF body[call[c].id] # Unset /\ ~txn[c].cleared
     THEN Close(c) /\ Tell(c, "failed", Unset)
     ELSE /\ \E v \in {vector[call[c].id], call[c].value} :
               txn' = [txn EXCEPT ![c].at = "commit", ![c].made = v]
          /\ UNCHANGED answer
  /\ UNCHANGED <<tables, call, clock, calls, saves, faults>>

(* The INSERT of chunk 0, refused if somebody stored one since the DELETE; then its embedding, *)
(* if there is a provider and it answers as it should.                                         *)
InsertChunk(c) ==
  /\ txn[c].at = "insert"
  /\ IF body[call[c].id] # Unset /\ ~txn[c].cleared
     THEN Close(c) /\ Tell(c, "failed", Unset)
     ELSE /\ \E v \in {Unset} \cup (IF Vectors THEN {call[c].value} ELSE {}) :
               txn' = [txn EXCEPT ![c].at = "commit", ![c].made = v]
          /\ UNCHANGED answer
  /\ UNCHANGED <<tables, call, clock, calls, saves, faults>>

Stored(c) ==
  /\ registered' = registered \cup {call[c].ws}
  /\ \/ /\ call[c].op = "put_content"
        /\ home' = [home EXCEPT ![call[c].id] = call[c].ws]
        /\ body' = [body EXCEPT ![call[c].id] = IF call[c].value = "" THEN Unset ELSE call[c].value]
        /\ vector' = [vector EXCEPT ![call[c].id] = txn[c].made]
        /\ UNCHANGED <<state, events>>
     \/ /\ call[c].op = "put_state"
        /\ state' = [state EXCEPT ![<<call[c].ws, call[c].id>>] = call[c].value]
        /\ UNCHANGED <<home, body, vector, events>>
     \/ /\ call[c].op = "append_event"
        /\ events' = events \cup {[ws |-> call[c].ws, record |-> call[c].id,
                                   event |-> call[c].value, created |-> txn[c].began,
                                   until |-> calls]}
        /\ UNCHANGED <<home, body, vector, state>>
  /\ UNCHANGED rest

Commit_AnswersFirst(c) ==   \* Defect: the answer is given before the COMMIT, which may fail.
  /\ txn[c].at = "commit"
  /\ Tell(c, "ok", call[c].value)
  /\ Stored(c) \/ UNCHANGED tables
  /\ Close(c)
  /\ UNCHANGED <<call, clock, calls, saves, faults>>

(* conn.commit(); the answer to it may be lost. *)
Commit(c) ==
  /\ txn[c].at = "commit"
  /\ Stored(c)
  /\ \/ Tell(c, "ok", call[c].value) /\ faults' = faults
     \/ faults < MaxFaults /\ faults' = faults + 1 /\ Tell(c, "failed", Unset)
  /\ Close(c)
  /\ UNCHANGED <<call, clock, calls, saves>>

(* A failed statement or a lost connection. *)
Abort(c) ==
  /\ Waiting(c) /\ Abstract!WellFormed(call[c]) /\ faults < MaxFaults
  /\ faults' = faults + 1
  /\ Tell(c, "failed", Unset) /\ Close(c)
  /\ UNCHANGED <<tables, call, clock, calls, saves>>

-----------------------------------------------------------------------------
(* The reads: one SELECT each. *)

Text(i) == IF body[i] = Unset THEN "" ELSE body[i]

Found(c, found, value) ==
  IF found THEN Tell(c, "ok", value) ELSE Tell(c, "not_found", Unset)

(* ORDER BY created_at: rows of one moment may come in any order. *)
InOrder(S) ==
  {s \in [1 .. Cardinality(S) -> S] :
     IsInjective(s) /\ \A m, n \in DOMAIN s : m < n => s[m].created <= s[n].created}

GetContent(c) ==
  call[c].op = "get_content" /\ Found(c, home[call[c].id] = call[c].ws, Text(call[c].id))

ListContent(c) ==
  /\ call[c].op = "list_content"
  /\ Tell(c, "ok", {<<i, Text(i)>> : i \in {j \in Contents : home[j] = call[c].ws}})

GetState(c) ==
  /\ call[c].op = "get_state"
  /\ Found(c, state[<<call[c].ws, call[c].id>>] # Unset, state[<<call[c].ws, call[c].id>>])

ListEvents(c) ==
  /\ call[c].op = "list_events"
  /\ \E s \in InOrder({e \in events : e.ws = call[c].ws /\ call[c].id \in {e.record, Unset}}) :
       Tell(c, "ok", [n \in DOMAIN s |-> s[n].event])

Read(c) ==
  /\ txn[c].at = "read"
  /\ GetContent(c) \/ ListContent(c) \/ GetState(c) \/ ListEvents(c)
  /\ Close(c)
  /\ UNCHANGED <<tables, call, clock, calls, saves, faults>>

-----------------------------------------------------------------------------
(* The API stores a content with a body of several chunks. *)

ApiSave(i, w) ==
  /\ saves < MaxSaves /\ home[i] = Unset
  /\ \A c \in Clients : ~(txn[c].at \in {"clear", "insert", "commit"} /\ call[c].op = "put_content"
                          /\ call[c].id = i)
  /\ saves' = saves + 1
  /\ home' = [home EXCEPT ![i] = w] /\ rest' = [rest EXCEPT ![i] = "due"]
  /\ UNCHANGED <<registered, body, vector, state, events, txn, call, answer, clock, calls, faults>>

(* persist_multi_chunks replaces all chunks; it waits for a chunk 0 that somebody else wrote. *)
ApiChunks(i) ==
  /\ rest[i] = "due"
  /\ \A c \in Clients : call[c].op = "put_content" /\ call[c].id = i =>
       txn[c].at # "commit" /\ ~txn[c].cleared
  /\ body' = [body EXCEPT ![i] = ApiText] /\ rest' = [rest EXCEPT ![i] = "stored"]
  /\ vector' = [vector EXCEPT ![i] = Unset]
  /\ UNCHANGED <<registered, home, state, events, txn, call, answer, clock, calls, saves, faults>>

Step(c) ==
  \/ Refuse(c) \/ Begin(c) \/ EnsureWorkspace(c)
  \/ WriteContent(c) \/ WriteState(c) \/ WriteEvent(c) \/ ClearChunk(c)
  \/ InsertChunk(c) \/ Commit(c) \/ Read(c)

Next ==
  \/ \E c \in Clients : Ask(c) \/ Step(c) \/ Abort(c)
  \/ \E i \in Contents : ApiChunks(i) \/ \E w \in Workspaces : ApiSave(i, w)

Spec == Init /\ [][Next]_vars

-----------------------------------------------------------------------------
(* The backend keeps the contract of persistence/contracts.py: each answer is what was stored at *)
(* one moment of the call, all of it or nothing, and "ok" is only said of what is stored.        *)
KeepsContract == Abstract!Spec

(* The embedding of chunk 0 was made of its text, whichever of two writers of one content comes  *)
(* last.                                                                                         *)
VectorOfItsText == \A i \in Contents : vector[i] \in {Unset, body[i]}

=============================================================================
