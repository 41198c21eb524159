------------------------------- MODULE MCStore -------------------------------
(***************************************************************************)
(* Small universes of items for model checking Store.                        *)
(***************************************************************************)
EXTENDS Store, TLC

CONSTANTS cA, cB,                \* content objects
          eAB, eBA,              \* subsumes enrichments, about -> entry
          rAB, rrAB, rBA,        \* retractions
          s12, s21,              \* successions between keys
          k1, k2                 \* keys

ContentOf(t)           == [type |-> "content", token |-> t]
EnrichmentOf(k, x, y)  == [type |-> "enrichment", source |-> k, field |-> "subsumes",
                           about |-> x, entry |-> y]
RetractionOf(k, x)     == [type |-> "retraction", source |-> k, retracts |-> x]
SuccessionOf(k, l)     == [type |-> "succession", predecessor |-> k, successor |-> l]

Universe ==
  cA :> ContentOf(FALSE) @@ cB :> ContentOf(FALSE) @@
  eAB :> EnrichmentOf(k1, cA, cB) @@ eBA :> EnrichmentOf(k2, cB, cA) @@
  rAB :> RetractionOf(k1, eAB) @@     \* by eAB's own source
  rrAB :> RetractionOf(k1, rAB) @@    \* a retraction of that retraction
  rBA :> RetractionOf(k1, eBA) @@     \* by the predecessor of eBA's source
  s12 :> SuccessionOf(k1, k2) @@ s21 :> SuccessionOf(k2, k1)

BodyOf(S) == [i \in S |-> Universe[i]]

Keys == {k1, k2}

\* Posted: two enrichments that close a cycle together, a retraction and the
\* retraction of that.  Merged: a retraction by the predecessor of a source, and
\* successions by which two keys succeed each other.
GateItems   == {cA, cB, eAB, eBA, rAB, rrAB, rBA, s12, s21}
GateBody    == BodyOf(GateItems)
GatePost    == {cA, eAB, eBA, rAB, rrAB}
GateMerge   == {rBA, s12, s21}
GateAltered == {eAB, rBA}

\* The same items raced by posts and merges.
ThreadItems == {cA, cB, eAB, eBA, rAB, rrAB}
ThreadBody  == BodyOf(ThreadItems)
ThreadPost  == {cA, eAB, eBA, rrAB}
ThreadMerge == {cA, eAB, rAB}
ThreadAltered == {eAB, rAB}

\* The two halves of a cycle.
RaceItems == {cA, cB, eAB, eBA, rAB}
RaceBody  == BodyOf(RaceItems)
RacePost  == {eAB, eBA, rAB}

\* Two keys, each the other's successor.
LoopItems == {cA, cB, eAB, rAB, s12, s21}
LoopBody  == BodyOf(LoopItems)
=============================================================================
