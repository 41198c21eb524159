---------------------------- MODULE MCTaxonomyView ----------------------------
(***************************************************************************)
(* Four enrichments over three or four concepts, inserted in any order.      *)
(***************************************************************************)
EXTENDS TaxonomyView, TLC

CONSTANTS cA, cB, cC, cD,
          eAB, eBA, eBC, eCA, eDA, eAA,
          k

EdgeOf(x, y) == [type |-> "enrichment", source |-> k, field |-> "subsumes",
                 about |-> x, entry |-> y]

Universe ==
  eAB :> EdgeOf(cA, cB) @@ eBA :> EdgeOf(cB, cA) @@ eBC :> EdgeOf(cB, cC) @@
  eCA :> EdgeOf(cC, cA) @@ eDA :> EdgeOf(cD, cA) @@ eAA :> EdgeOf(cA, cA)

Concepts == {cA, cB, cC, cD}
Items    == Concepts \cup Edge
BodyOf   == [i \in Items |-> IF i \in Edge THEN Universe[i] ELSE [type |-> "content", token |-> FALSE]]
Keys     == {k}

\* Two cycles that share eAB and a concept that points to itself; and a record
\* that leads to a cycle and is the latest of all.
WebEdges  == {eAB, eBA, eBC, eCA, eAA}
TailEdges == {eAB, eBA, eDA}

Stamps    == eAB :> 2 @@ eBA :> 1 @@ eBC :> 2 @@ eCA :> 1 @@ eAA :> 1 @@ eDA :> 3
StampOf   == [r \in Edge |-> Stamps[r]]
Order     == <<cA, cB, cC, cD, eAA, eAB, eBA, eBC, eCA, eDA>>
RankOf    == [i \in Items |-> CHOOSE n \in 1 .. Len(Order) : Order[n] = i]

AllOrders == {f \in [Edge -> 1 .. Cardinality(Edge)] : \A q, r \in Edge : f[q] = f[r] => q = r}
=============================================================================
