----------------------------- MODULE MCHubEdges -----------------------------
(***************************************************************************)
(* Instance of HubEdges for TLC.  Items 1 and 2 link hubs 1 and 2, item 3  *)
(* links 2 and 3; the tags of item 1 name 1 and 3, those of 2 and 3 name   *)
(* 2 and 3, so the two signals disagree about which pair is the strongest. *)
(***************************************************************************)
EXTENDS HubEdges

CONSTANTS r1, r2

SomeMentions == [c \in Items |-> IF c = 1 THEN {1, 3} ELSE {2, 3}]
SomeLinks == {<<1, 1>>, <<1, 2>>, <<2, 1>>, <<2, 2>>, <<2, 3>>, <<3, 3>>}
=============================================================================
