----------------------------- MODULE StoreProofs -----------------------------
(***************************************************************************)
(* Proofs about Store, for every universe of items and every set of handlers.*)
(***************************************************************************)
EXTENDS Store, TLAPS

Row == Record \cap Verified \cap Valid

\* Appending a row adds it to the set of held records, and to nothing else.
LEMMA HeldAfterAppend ==
  ASSUME records \in Seq(Row), NEW i \in Row, records' = Append(records, i)
  PROVE  Held' = Held \cup {i}
<1>1. /\ DOMAIN records' = 1 .. Len(records) + 1
      /\ DOMAIN records = 1 .. Len(records)
      /\ Len(records) \in Nat
      /\ \A n \in 1 .. Len(records) : records'[n] = records[n]
      /\ records'[Len(records) + 1] = i
  OBVIOUS
<1>2. Held' \subseteq Held \cup {i}
  BY <1>1 DEF Held
<1>3. Held \cup {i} \subseteq Held'
  <2>1. i \in Held'
    BY <1>1 DEF Held
  <2>2. Held \subseteq Held'
    BY <1>1 DEF Held
  <2> QED BY <2>1, <2>2
<1> QED BY <1>2, <1>3

\* What one step does to the provenance table: nothing, or one new row.
LEMMA StepAppends ==
  ASSUME TypeOK, [Next]_vars
  PROVE  \/ records' = records
         \/ \E h \in Handler : \E i \in pending[h] :
              i \notin Held /\ records' = Append(records, i)
<1>1. CASE UNCHANGED vars
  BY <1>1 DEF vars
<1>2. ASSUME NEW h \in Handler, Post(h) \/ Merge(h)
      PROVE  records' = records
  BY <1>2 DEF Post, Merge, Put, Quarantine, Diverge, Admit
<1>3. ASSUME NEW h \in Handler, Insert(h)
      PROVE  \/ records' = records
             \/ \E i \in pending[h] : i \notin Held /\ records' = Append(records, i)
  BY <1>3 DEF Insert
<1> QED BY <1>1, <1>2, <1>3 DEF Next

-----------------------------------------------------------------------------
(* Type correctness. *)

LEMMA TypeInvariant == TypeOK /\ [Next]_vars => TypeOK'
<1> SUFFICES ASSUME TypeOK, [Next]_vars PROVE TypeOK'
  OBVIOUS
<1> USE DEF TypeOK
<1>1. CASE UNCHANGED vars
  BY <1>1 DEF vars
<1>2. ASSUME NEW h \in Handler, NEW i \in Item, Put(h, i) PROVE TypeOK'
  BY <1>2 DEF Put
<1>3. ASSUME NEW h \in Handler, NEW i \in Item, Quarantine(h, i) PROVE TypeOK'
  BY <1>3, StoreAssumption DEF Quarantine
<1>4. ASSUME NEW h \in Handler, NEW i \in Item, Diverge(h, i) PROVE TypeOK'
  BY <1>4 DEF Diverge
<1>5. ASSUME NEW h \in Handler, NEW i \in Item, NEW f \in BOOLEAN, Admit(h, i, f)
      PROVE  TypeOK'
  BY <1>5 DEF Admit, Gated
<1>6. ASSUME NEW h \in Handler, Insert(h) PROVE TypeOK'
  <2> PICK i \in pending[h] :
        /\ records' = IF i \in Held THEN records ELSE Append(records, i)
        /\ pending' = [pending EXCEPT ![h] = {}]
        /\ UNCHANGED <<objects, quarantine, walking>>
    BY <1>6 DEF Insert
  <2>1. CASE i \in Held
    BY <2>1
  <2>2. CASE i \notin Held
    <3>1. i \in Row /\ records' = Append(records, i) /\ records \in Seq(Row)
      BY <2>2 DEF Row
    <3>2. records' \in Seq(Record \cap Verified \cap Valid)
      BY <3>1 DEF Row
    <3>3. ASSUME NEW m \in DOMAIN records', NEW n \in DOMAIN records',
                 records'[m] = records'[n]
          PROVE  m = n
      BY <2>2, <3>1, <3>3 DEF Held
    <3> QED BY <3>2, <3>3
  <2> QED BY <2>1, <2>2
<1> QED
  BY <1>1, <1>2, <1>3, <1>4, <1>5, <1>6, StoreAssumption DEF Next, Post, Merge

\* The tables keep their types and the provenance table never has two rows with
\* one identifier, however many handlers race (TypeOK; put and put_record).
THEOREM TypeCorrect == Spec => []TypeOK
<1>1. Init => TypeOK
  BY DEF Init, TypeOK
<1> QED BY <1>1, TypeInvariant, PTL DEF Spec

\* Retractions are final: the withdrawn identifiers only grow (_retracted_ids).
THEOREM RetractionsStand == Spec => RetractionStands
<1>1. TypeOK /\ [Next]_vars => RetractedIds(Held) \subseteq RetractedIds(Held')
  <2> SUFFICES ASSUME TypeOK, [Next]_vars
               PROVE  Held \subseteq Held'
    BY DEF RetractedIds
  <2>1. CASE records' = records
    BY <2>1 DEF Held
  <2>2. ASSUME NEW h \in Handler, NEW i \in pending[h], records' = Append(records, i)
        PROVE  Held \subseteq Held'
    <3>1. records \in Seq(Row) /\ i \in Row
      BY DEF TypeOK, Row
    <3> QED BY <2>2, <3>1, HeldAfterAppend
  <2> QED BY <2>1, <2>2, StepAppends
<1> QED BY <1>1, TypeCorrect, PTL DEF Spec, RetractionStands

-----------------------------------------------------------------------------
(***************************************************************************)
(* The gates with one handler.  What a gate found is still true when the     *)
(* record it admitted is stored, because nobody else wrote in between; the   *)
(* inductive invariant says so for both gates.  With two handlers it is      *)
(* false, and the run MCStore_race shows a cycle that slips in.              *)
(***************************************************************************)
OneHandler == \A g, h \in Handler : g = h

NoMergedEnrichment == Merged \cap Enrichment = {}

GateStillHolds ==
  \A h \in Handler : \A i \in pending[h] :
    /\ i \in Retraction => RetractionSourceOk(Held, FollowedForward, FollowedBackward, i)
    /\ i \in Enrichment /\ Enforcing /\ Body[i].field \in CheckedField
         /\ NoMergedEnrichment => ~WouldCycle(Held, i)

\* A handler that stores nothing leaves every gate's finding true, and admits
\* only what its own gates let pass.
LEMMA GatesAfterStep ==
  ASSUME OneHandler, TypeOK, GateStillHolds, [Next]_vars
  PROVE  GateStillHolds'
<1>1. CASE UNCHANGED vars
  BY <1>1 DEF vars, GateStillHolds, Held, FollowedForward, FollowedBackward
<1>2. ASSUME NEW h \in Handler, NEW i \in Item,
             Put(h, i) \/ Quarantine(h, i) \/ Diverge(h, i)
      PROVE  GateStillHolds'
  <2>1. UNCHANGED <<records, pending>>
    BY <1>2 DEF Put, Quarantine, Diverge
  <2> QED BY <2>1 DEF GateStillHolds, Held, FollowedForward, FollowedBackward
<1>3. ASSUME NEW h \in Handler, NEW i \in Item, NEW f \in BOOLEAN, Admit(h, i, f),
             f => i \in Merged
      PROVE  GateStillHolds'
  <2>1. /\ records' = records
        /\ pending' = [pending EXCEPT ![h] = {i}]
        /\ PassesRetractionGate(i)
        /\ PassesCycleGate(i, f)
    BY <1>3 DEF Admit
  <2>2. /\ Held' = Held
        /\ FollowedForward' = FollowedForward
        /\ FollowedBackward' = FollowedBackward
    BY <2>1 DEF Held, FollowedForward, FollowedBackward
  <2>3. \A g \in Handler : g = h /\ pending'[g] = {i}
    BY <2>1 DEF OneHandler, TypeOK
  <2>4. i \in Retraction => RetractionSourceOk(Held, FollowedForward, FollowedBackward, i)
    BY <2>1 DEF PassesRetractionGate
  <2>5. i \in Enrichment /\ Enforcing /\ Body[i].field \in CheckedField
          /\ NoMergedEnrichment => ~WouldCycle(Held, i)
    BY <2>1, <1>3 DEF PassesCycleGate, NoMergedEnrichment
  <2> QED BY <2>2, <2>3, <2>4, <2>5 DEF GateStillHolds
<1>4. ASSUME NEW h \in Handler, Insert(h) PROVE GateStillHolds'
  <2>1. \A g \in Handler : pending'[g] = {}
    BY <1>4 DEF Insert, OneHandler, TypeOK
  <2> QED BY <2>1 DEF GateStillHolds
<1>5. ASSUME NEW h \in Handler, Post(h) PROVE GateStillHolds'
  <2>1. PICK i \in Posted : \/ Put(h, i) \/ Quarantine(h, i) \/ Diverge(h, i)
                           \/ Admit(h, i, FALSE)
    BY <1>5 DEF Post
  <2> QED BY <2>1, <1>2, <1>3, StoreAssumption
<1>6. ASSUME NEW h \in Handler, Merge(h) PROVE GateStillHolds'
  <2>1. PICK i \in Merged : \/ Put(h, i) \/ Quarantine(h, i) \/ Diverge(h, i)
                           \/ Admit(h, i, TRUE)
    BY <1>6 DEF Merge
  <2> QED BY <2>1, <1>2, <1>3, StoreAssumption
<1> QED BY <1>1, <1>4, <1>5, <1>6 DEF Next

\* A retraction removes edges and an enrichment adds its own: no row adds an
\* edge other than itself.
LEMMA EdgesAfterInsert ==
  ASSUME NEW H, NEW i, NEW f
  PROVE  /\ ActiveEdges(H \cup {i}, f) \subseteq ActiveEdges(H, f) \cup {i}
         /\ i \notin Enrichment \/ Body[i].field # f
              => ActiveEdges(H \cup {i}, f) \subseteq ActiveEdges(H, f)
BY DEF ActiveEdges, RetractedIds

LEMMA CyclicMonotone ==
  ASSUME NEW R, NEW S, R \subseteq S, IsCyclic(R)
  PROVE  IsCyclic(S)
BY DEF IsCyclic

\* The taxonomy of an enforcing tier with one handler and no merged enrichments
\* stays acyclic (put_record's cycle gate, TaxonomyAcyclic).
THEOREM TaxonomyStaysAcyclic ==
  ASSUME OneHandler, NoMergedEnrichment
  PROVE  Spec => []TaxonomyAcyclic
<1> DEFINE IInv == GateStillHolds /\ TaxonomyAcyclic
<1>1. Init => IInv
  BY DEF Init, GateStillHolds, TaxonomyAcyclic, IsCyclic, ActiveEdges, Held
<1>2. TypeOK /\ IInv /\ [Next]_vars => IInv'
  <2> SUFFICES ASSUME TypeOK, IInv, [Next]_vars, Enforcing, NEW f \in CheckedField,
                      IsCyclic(ActiveEdges(Held', f))
               PROVE  FALSE
    BY GatesAfterStep DEF TaxonomyAcyclic
  <2>1. ~IsCyclic(ActiveEdges(Held, f))
    BY DEF TaxonomyAcyclic
  <2>2. CASE records' = records
    BY <2>1, <2>2 DEF Held
  <2>3. ASSUME NEW h \in Handler, NEW i \in pending[h], records' = Append(records, i)
        PROVE  FALSE
    <3>1. records \in Seq(Row) /\ i \in Row
      BY DEF TypeOK, Row
    <3>2. Held' = Held \cup {i}
      BY <2>3, <3>1, HeldAfterAppend
    <3>3. CASE i \notin Enrichment \/ Body[i].field # f
      BY <2>1, <3>2, <3>3, EdgesAfterInsert, CyclicMonotone
    <3>4. CASE i \in Enrichment /\ Body[i].field = f
      <4>1. ~IsCyclic(ActiveEdges(Held, f) \cup {i})
        BY <3>4 DEF GateStillHolds, WouldCycle
      <4> QED BY <3>2, <4>1, EdgesAfterInsert, CyclicMonotone
    <3> QED BY <3>3, <3>4
  <2> QED BY <2>2, <2>3, StepAppends
<1>3. IInv => TaxonomyAcyclic
  OBVIOUS
<1> QED BY <1>1, <1>2, <1>3, TypeCorrect, PTL DEF Spec

\* A cycle that an edge closes runs through that edge: if every set that is
\* closed under the other edges and has its entry did not also have its object,
\* the records of the cycle inside such a set would be a cycle without it.
LEMMA OwnCycle ==
  ASSUME NEW E, NEW i, ~IsCyclic(E), IsCyclic(E \cup {i})
  PROVE  Reaches(E, Body[i].entry, Body[i].about)
<1> SUFFICES ASSUME NEW S \in SUBSET Item, Body[i].entry \in S,
                    \A r \in E : Body[r].about \in S => Body[r].entry \in S,
                    Body[i].about \notin S
             PROVE  FALSE
  BY DEF Reaches
<1>1. PICK C \in SUBSET (E \cup {i}) :
        /\ C # {}
        /\ \A r \in C : \E s \in C : Body[r].entry = Body[s].about
  BY DEF IsCyclic
<1> DEFINE D == {r \in C : Body[r].about \in S}
<1>2. D \subseteq E
  BY <1>1
<1>3. \A r \in D : \E s \in D : Body[r].entry = Body[s].about
  BY <1>1, <1>2
<1>4. D # {}
  <2>1. i \in C
    BY <1>1 DEF IsCyclic
  <2>2. PICK s \in C : Body[i].entry = Body[s].about
    BY <1>1, <2>1
  <2> QED BY <2>2
<1> HIDE DEF D
<1> QED BY <1>2, <1>3, <1>4 DEF IsCyclic

\* An enforcing tier with one handler and no merged enrichments refuses an
\* enrichment only for a cycle that the enrichment itself closes: the cycle test
\* of put_record runs over the whole graph, and blames the new record because
\* that graph is acyclic (_would_cycle, RefusedOnlyForOwnCycle).
THEOREM RefusalsAreOwnCycles ==
  ASSUME OneHandler, NoMergedEnrichment
  PROVE  Spec => []RefusedOnlyForOwnCycle
<1>1. TaxonomyAcyclic => RefusedOnlyForOwnCycle
  <2> SUFFICES ASSUME TaxonomyAcyclic, NEW i \in Enrichment, ~PassesCycleGate(i, FALSE)
               PROVE  Reaches(ActiveEdges(Held, Body[i].field), Body[i].entry, Body[i].about)
    BY DEF RefusedOnlyForOwnCycle
  <2>1. /\ Enforcing
        /\ Body[i].field \in CheckedField
        /\ WouldCycle(Held, i)
    BY DEF PassesCycleGate
  <2>2. ~IsCyclic(ActiveEdges(Held, Body[i].field))
    BY <2>1 DEF TaxonomyAcyclic
  <2> QED BY <2>1, <2>2, OwnCycle DEF WouldCycle
<1> QED BY <1>1, TaxonomyStaysAcyclic, PTL

\* Successions only lengthen a lineage.
LEMMA LineageMonotone ==
  ASSUME NEW F, NEW F2, NEW B, NEW B2, NEW k, F \subseteq F2, B \subseteq B2
  PROVE  LineageVia(F, B, k) \subseteq LineageVia(F2, B2, k)
BY DEF LineageVia, Ancestors, Descendants, ForwardClosed, BackwardClosed

\* With one handler, a retraction stored after its target is signed by the
\* target's source or its lineage (put_record's retraction gate, rule 10).
THEOREM KnownTargetsAuthorised ==
  ASSUME OneHandler
  PROVE  Spec => []KnownTargetAuthorised
<1> DEFINE IInv == GateStillHolds /\ KnownTargetAuthorised
<1>1. Init => IInv
  BY DEF Init, GateStillHolds, KnownTargetAuthorised
<1>2. TypeOK /\ IInv /\ [Next]_vars => IInv'
  <2> SUFFICES ASSUME TypeOK, IInv, [Next]_vars PROVE KnownTargetAuthorised'
    BY GatesAfterStep
  <2>1. CASE records' = records
    BY <2>1 DEF KnownTargetAuthorised, Held
  <2>2. ASSUME NEW h \in Handler, NEW i \in pending[h], records' = Append(records, i)
        PROVE  KnownTargetAuthorised'
    <3>1. records \in Seq(Row) /\ i \in Row
      BY DEF TypeOK, Row
    <3>2. Held' = Held \cup {i}
      BY <2>2, <3>1, HeldAfterAppend
    <3> DEFINE S == Held \cap Succession
    <3>3. S \subseteq S'
      BY <3>2
    <3> SUFFICES ASSUME NEW m \in DOMAIN records', NEW n \in DOMAIN records', m < n,
                        records'[n] \in Retraction,
                        Body[records'[n]].retracts = records'[m]
                 PROVE  /\ records'[m] \notin Succession
                        /\ Body[records'[n]].source \in
                             LineageVia(S', S', Body[records'[m]].source)
      BY DEF KnownTargetAuthorised
    <3>4. m \in DOMAIN records /\ records'[m] = records[m]
      BY <2>2, <3>1
    <3>5. CASE n \in DOMAIN records
      <4>1. records'[n] = records[n]
        BY <2>2, <3>1, <3>5
      <4>2. /\ records[m] \notin Succession
            /\ Body[records[n]].source \in LineageVia(S, S, Body[records[m]].source)
        BY <3>4, <3>5, <4>1 DEF KnownTargetAuthorised
      <4> QED BY <3>3, <3>4, <4>1, <4>2, LineageMonotone
    <3>6. CASE n \notin DOMAIN records
      <4>1. records'[n] = i
        BY <2>2, <3>1, <3>6
      <4>2. RetractionSourceOk(Held, FollowedForward, FollowedBackward, i)
        BY <4>1 DEF GateStillHolds
      <4>3. TargetHeld(Held, i) /\ Body[i].retracts = records[m]
        BY <3>1, <3>4, <4>1 DEF TargetHeld, Held, Row
      <4>4. FollowedForward \subseteq S /\ FollowedBackward \subseteq S
        BY DEF FollowedForward, FollowedBackward, Held
      <4>5. /\ records[m] \notin Succession
            /\ Body[i].source \in
                 LineageVia(FollowedForward, FollowedBackward, Body[records[m]].source)
        BY <4>2, <4>3 DEF RetractionSourceOk
      <4>6. FollowedForward \subseteq S' /\ FollowedBackward \subseteq S'
        BY <3>3, <4>4
      <4> HIDE DEF S
      <4> QED BY <3>4, <4>1, <4>5, <4>6, LineageMonotone
    <3> QED BY <3>5, <3>6
  <2> QED BY <2>1, <2>2, StepAppends
<1>3. IInv => KnownTargetAuthorised
  OBVIOUS
<1> QED BY <1>1, <1>2, <1>3, TypeCorrect, PTL DEF Spec
=============================================================================
