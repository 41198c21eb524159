---------------------------- MODULE MCLightClient ----------------------------
(***************************************************************************)
(* Assertions about one object at two nodes, their retractions, successions. *)
(***************************************************************************)
EXTENDS LightClient, TLC

CONSTANTS occ,                \* a content object
          a1, aBad,           \* assertions about it
          rHeir, rEve,        \* retractions of a1
          s12, s23,           \* successions between keys
          k1, k2, k3, kE      \* keys

AssertionOf(k)     == [type |-> "assertion", source |-> k, about |-> occ]
RetractionOf(k, x) == [type |-> "retraction", source |-> k, retracts |-> x]
SuccessionOf(k, l) == [type |-> "succession", predecessor |-> k, successor |-> l]

Universe ==
  occ :> [type |-> "content", token |-> FALSE] @@
  a1 :> AssertionOf(k1) @@ aBad :> AssertionOf(k2) @@
  rHeir :> RetractionOf(k3, a1) @@ rEve :> RetractionOf(kE, a1) @@
  s12 :> SuccessionOf(k1, k2) @@ s23 :> SuccessionOf(k2, k3)

\* The key that retracts is two successions away from the source; a stranger
\* retracts as well, and one assertion does not verify.
HeirItems    == {occ, a1, aBad, rHeir, rEve, s12, s23}
HeirKeys     == {k1, k2, k3, kE}
HeirBody     == [i \in HeirItems |-> Universe[i]]
HeirArrivals == {<<1, a1>>, <<1, aBad>>, <<1, rEve>>, <<1, s12>>,
                 <<2, rHeir>>, <<2, s23>>}
HeirVerified == HeirItems \ {aBad}
=============================================================================
