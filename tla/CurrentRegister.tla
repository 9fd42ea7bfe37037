-------------------------- MODULE CurrentRegister ---------------------------
(***************************************************************************)
(* What the current-state resolver promises: one item, or none yet, is     *)
(* current for each identity; a promotion replaces the item of exactly one *)
(* identity, and never takes the place of a current item away without      *)
(* putting another in it.                                                  *)
(***************************************************************************)
CONSTANTS Content, Identities, NoItem

VARIABLE now

Init == now = [i \in Identities |-> NoItem]

\* An item stands for one identity at a time.
Replace(i, c) ==
  /\ \A j \in Identities \ {i} : now[j] # c
  /\ now' = [now EXCEPT ![i] = c]

Next == \E i \in Identities, c \in Content : Replace(i, c)

Spec == Init /\ [][Next]_now
=============================================================================
