------------------------------ MODULE WorkPool ------------------------------
(***************************************************************************)
(* What a pool of processes that write the variables of one file promises: *)
(* every variable is written exactly once, and the file is published       *)
(* afterwards, and eventually.                                             *)
(***************************************************************************)
CONSTANT Item

VARIABLES
  todo,      \* items not written yet
  published  \* the result is visible

Init == todo = Item /\ published = FALSE

Write(i) == ~published /\ i \in todo /\ todo' = todo \ {i} /\ UNCHANGED published
Publish == ~published /\ todo = {} /\ published' = TRUE /\ UNCHANGED todo

Next == Publish \/ \E i \in Item : Write(i)

Spec == Init /\ [][Next]_<<todo, published>>
FairSpec == Spec /\ WF_<<todo, published>>(Next)
=============================================================================
