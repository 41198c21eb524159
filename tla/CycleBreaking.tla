---------------------------- MODULE CycleBreaking ----------------------------
(***************************************************************************)
(* What the cycle-broken view of a taxonomy field promises, with the search  *)
(* left out: records are taken out of the graph one at a time, only such as  *)
(* lead into a cycle, until there is no cycle.                               *)
(***************************************************************************)
EXTENDS Provenance

CONSTANT Edge   \* the enrichments of the field

VARIABLES active,  \* records in the view
          pc       \* "done" when the view is complete

Init == active \in SUBSET Edge /\ pc = "busy"

\* A walk that starts with r over the edges in R never has to end.
Endless(R, r) == \E C \in SUBSET R : /\ r \in C
                                     /\ \A q \in C : \E s \in C : Body[q].entry = Body[s].about

Exclude(r) ==
  /\ pc = "busy"
  /\ Endless(active, r)
  /\ active' = active \ {r}
  /\ UNCHANGED pc

Finish ==
  /\ pc = "busy"
  /\ ~IsCyclic(active)
  /\ pc' = "done"
  /\ UNCHANGED active

Next == Finish \/ \E r \in Edge : Exclude(r)

Spec == Init /\ [][Next]_<<active, pc>>
=============================================================================
