----------------------------- MODULE RecordStore -----------------------------
(***************************************************************************)
(* What a persistence backend promises (persistence/contracts.py), as      *)
(* persistence/memory_backend.py keeps it in the memory of a process: a    *)
(* call is answered with what is stored at one moment between its start    *)
(* and its answer, and what it stores is there from then on.               *)
(*                                                                         *)
(* A content record is its text, an event has an identity of its own, and  *)
(* a listing of events gives each of them once.  The memory of a process   *)
(* keeps a content for each workspace and id, and never fails; a table     *)
(* with the id as its key keeps one (OneHome), and the answer to what was  *)
(* stored may be lost.                                                     *)
(***************************************************************************)
EXTENDS Sequences

CONSTANTS
  Clients, Workspaces, Contents, Records, Unset,
  OneHome,       \* a content id stands for one record in all workspaces
  GetsLost,      \* a call may fail, before or after it has stored
  Statuses, Tiers \* GOVERNANCE_STATUSES, GOVERNANCE_TIERS

VARIABLES
  content,   \* the text of <<workspace, content>>, or Unset
  state,     \* the governance state of <<workspace, record>>, or Unset
  events,    \* the governance events: [ws, record, event]
  call,      \* the call each client waits for, or made last
  answer     \* its answer

vars == <<content, state, events, call, answer>>

NoCall == [op |-> "none", ws |-> Unset, id |-> Unset, value |-> Unset]
NoAnswer == [code |-> "none", value |-> Unset]

Tell(c, code, value) ==
  answer' = [answer EXCEPT ![c] = [code |-> code, value |-> value]]

(* validate_governance_state: the reference and the provenance are complete. *)
ValidState(v) == v.status \in Statuses /\ v.tier \in Tiers /\ v.complete

(* validate_governance_state_event_contract: what is given is allowed, and the event is of *)
(* the workspace of its record.                                                            *)
ValidEvent(r) ==
  /\ r.value.complete /\ r.value.of = r.ws
  /\ r.value.status = Unset \/ r.value.status \in Statuses

(* A call that is refused before anything is looked at. *)
WellFormed(r) ==
  /\ r.ws \in Workspaces
  /\ r.op \in {"put_content", "get_content"} => r.id \in Contents
  /\ r.op \in {"put_state", "get_state", "append_event"} => r.id \in Records
  /\ r.op = "put_state" => ValidState(r.value)
  /\ r.op = "append_event" => ValidEvent(r)

Waiting(c) == call[c].op # "none" /\ answer[c] = NoAnswer

Ask(c) ==
  /\ ~Waiting(c)
  /\ answer' = [answer EXCEPT ![c] = NoAnswer]
  /\ \A d \in Clients \ {c} : call'[d] = call[d]
  /\ call'[c].op # "none"
  /\ UNCHANGED <<content, state, events>>

Refuse(c) ==
  /\ Waiting(c) /\ ~WellFormed(call[c])
  /\ Tell(c, "invalid", Unset)
  /\ UNCHANGED <<content, state, events, call>>

Told(c) == IF GetsLost THEN {"ok", "failed"} ELSE {"ok"}

PutContent(c) ==
  /\ call[c].op = "put_content"
  /\ content' = [k \in Workspaces \X Contents |->
       IF k = <<call[c].ws, call[c].id>> THEN call[c].value
       ELSE IF OneHome /\ k[2] = call[c].id THEN Unset
       ELSE content[k]]
  /\ \E code \in Told(c) : Tell(c, code, IF code = "ok" THEN call[c].value ELSE Unset)
  /\ UNCHANGED <<state, events>>

PutState(c) ==
  /\ call[c].op = "put_state"
  /\ state' = [state EXCEPT ![<<call[c].ws, call[c].id>>] = call[c].value]
  /\ \E code \in Told(c) : Tell(c, code, IF code = "ok" THEN call[c].value ELSE Unset)
  /\ UNCHANGED <<content, events>>

AppendEvent(c) ==
  /\ call[c].op = "append_event"
  /\ events' = events \cup {[ws |-> call[c].ws, record |-> call[c].id, event |-> call[c].value]}
  /\ \E code \in Told(c) : Tell(c, code, IF code = "ok" THEN call[c].value ELSE Unset)
  /\ UNCHANGED <<content, state>>

Found(c, value) ==
  IF value = Unset THEN Tell(c, "not_found", Unset) ELSE Tell(c, "ok", value)

(* seq lists S: each element once. *)
Listing(S, seq) ==
  /\ seq \in Seq(S) /\ {seq[n] : n \in DOMAIN seq} = S
  /\ \A m, n \in DOMAIN seq : seq[m] = seq[n] => m = n

Read(c) ==
  /\ UNCHANGED <<content, state, events>>
  /\ \/ call[c].op = "get_content" /\ Found(c, content[<<call[c].ws, call[c].id>>])
     \/ call[c].op = "get_state" /\ Found(c, state[<<call[c].ws, call[c].id>>])
     \/ /\ call[c].op = "list_content"
        /\ Tell(c, "ok", {<<i, content[<<call[c].ws, i>>]>> :
                           i \in {j \in Contents : content[<<call[c].ws, j>>] # Unset}})
     \/ /\ call[c].op = "list_events"
        /\ answer'[c].code = "ok"
        /\ Listing({e.event : e \in {f \in events : f.ws = call[c].ws
                                       /\ call[c].id \in {f.record, Unset}}}, answer'[c].value)
        /\ \A d \in Clients \ {c} : answer'[d] = answer[d]

Serve(c) ==
  /\ Waiting(c) /\ WellFormed(call[c])
  /\ PutContent(c) \/ PutState(c) \/ AppendEvent(c) \/ Read(c)
  /\ UNCHANGED call

Fail(c) ==
  /\ GetsLost /\ Waiting(c) /\ WellFormed(call[c])
  /\ Tell(c, "failed", Unset)
  /\ UNCHANGED <<content, state, events, call>>

(* Others who write the same tables store contents too. *)
StoredElsewhere ==
  /\ OneHome
  /\ \E i \in Contents : \A k \in Workspaces \X Contents :
       k[2] # i => content'[k] = content[k]
  /\ DOMAIN content' = DOMAIN content
  /\ UNCHANGED <<state, events, call, answer>>

Init ==
  /\ content = [k \in Workspaces \X Contents |-> Unset]
  /\ state = [k \in Workspaces \X Records |-> Unset]
  /\ events = {}
  /\ call = [c \in Clients |-> NoCall] /\ answer = [c \in Clients |-> NoAnswer]

Next ==
  \/ \E c \in Clients : Ask(c) \/ Refuse(c) \/ Serve(c) \/ Fail(c)
  \/ StoredElsewhere

Spec == Init /\ [][Next]_vars
=============================================================================
