---------------------------- MODULE MCPromptFlow ----------------------------
(***************************************************************************)
(* Instance of PromptFlow for TLC: a client and a flow over two contents   *)
(* and two workspaces.  The flow's text ranks between those of the client; *)
(* the better text leaves room for it, the body of the API does not.       *)
(***************************************************************************)
EXTENDS PromptFlow

CONSTANTS w1, w2

State(status, complete, about) ==
  [status |-> status, tier |-> "persistent", complete |-> complete, about |-> about]
Event(w) == [status |-> "active", complete |-> TRUE, of |-> w, nr |-> 0]
Call(op, w, id, value) == [op |-> op, ws |-> w, id |-> id, value |-> value]

SomeRequests ==
  {Call("put_content", w1, 1, "better"), Call("put_content", w2, 2, "worse"),
   Call("put_content", w1, 2, ""), Call("get_content", w1, 2, Unset),
   Call("put_state", w1, 3, State("active", TRUE, 2)), Call("get_state", w1, 3, Unset),
   Call("append_event", w1, 3, Event(w1)), Call("append_event", w1, 3, Event(w2)),
   Call("list_events", w1, Unset, Unset)}

Supplied(persist, use) ==
  [ws |-> w1, id |-> 2, text |-> "own", persist |-> persist, use |-> use, given |-> TRUE, shape |-> FALSE]

SomeFlowRequests ==
  LET both == Supplied(TRUE, TRUE)
  IN  {both, [Supplied(FALSE, FALSE) EXCEPT !.shape = TRUE],
       [Supplied(TRUE, FALSE) EXCEPT !.given = FALSE], [Supplied(FALSE, TRUE) EXCEPT !.given = FALSE],
       [both EXCEPT !.ws = Malformed], [both EXCEPT !.ws = Unset],
       [both EXCEPT !.text = ""], [both EXCEPT !.id = Unset]}

Scores == [t \in {"", "first", "worse", "own", "better"} |->
             CASE t = "better" -> 5 [] t = "own" -> 3 [] t \in {"worse", "first"} -> 2 [] OTHER -> 0]
Sizes == [t \in DOMAIN Scores |-> CASE t = "first" -> 6 [] t = "better" -> 4 [] OTHER -> 2]
=============================================================================
