---------------------------- MODULE SemanticsProofs ----------------------------
(***************************************************************************)
(* What holds of the semantic rules for any documents: rivalry and           *)
(* refinement of claims, graphs, and verdicts over maps that only grow.      *)
(***************************************************************************)
EXTENDS Semantics, FiniteSetTheorems, WellFoundedInduction, TLAPS

-----------------------------------------------------------------------------
(* Rivals and refinements. *)

\* Windows overlap and contexts are compatible whichever claim is named first.
LEMMA OverlapIsMutual ==
  ASSUME NEW a, NEW b
  PROVE  WindowOverlap(a, b) <=> WindowOverlap(b, a)
BY DEF WindowOverlap

LEMMA ContextsAreMutual ==
  ASSUME NEW a, NEW b
  PROVE  ContextsCompatible(a, b) <=> ContextsCompatible(b, a)
BY DEF ContextsCompatible

\* Conflicts of semantics.go asks one question of a pair of claims, not of an order
\* of the two.
THEOREM ConflictsAreMutual ==
  ASSUME NEW a, NEW b
  PROVE  Conflicts(a, b) <=> Conflicts(b, a)
BY OverlapIsMutual, ContextsAreMutual DEF Conflicts, SameEnds

LEMMA PreventiveIsNotPositive == "preventive" \notin PositiveModalities
BY DEF PositiveModalities

\* RefinementValid lets no child contradict the modality of its parent, so the two
\* are no rivals, whatever their windows and contexts.
THEOREM RefinementsAreNoRivals ==
  ASSUME NEW child, NEW parent, RefinementValid(child, parent)
  PROVE  ~Conflicts(child, parent)
<1>1. Has(parent, "modality") => child.modality = parent.modality
  BY DEF RefinementValid, CROOptionalFields, Has
<1>2. QED
  BY <1>1, PreventiveIsNotPositive DEF Conflicts, Opposes, Has

\* The optional fields that a claim specifies.
Specified(cro) == CROOptionalFields \cap DOMAIN cro

Detail(cro) == Cardinality(Specified(cro))

LEMMA OptionalFieldsCounted ==
  IsFiniteSet(CROOptionalFields) /\ Cardinality(CROOptionalFields) = 4
<1> DEFINE F1 == {} \cup {"mechanism"}
           F2 == F1 \cup {"temporal"}
           F3 == F2 \cup {"modality"}
           F4 == F3 \cup {"context"}
<1>1. IsFiniteSet(F1) /\ Cardinality(F1) = 1
  <2>1. F1 = {"mechanism"}
    OBVIOUS
  <2>2. QED
    BY <2>1, FS_Singleton
<1>2. IsFiniteSet(F2) /\ Cardinality(F2) = 2
  <2>1. "temporal" \notin F1
    OBVIOUS
  <2> HIDE DEF F1
  <2>2. QED
    BY <1>1, <2>1, FS_AddElement
<1>3. IsFiniteSet(F3) /\ Cardinality(F3) = 3
  <2>1. "modality" \notin F2
    OBVIOUS
  <2> HIDE DEF F2
  <2>2. QED
    BY <1>2, <2>1, FS_AddElement
<1>4. IsFiniteSet(F4) /\ Cardinality(F4) = 4
  <2>1. "context" \notin F3
    OBVIOUS
  <2> HIDE DEF F3
  <2>2. QED
    BY <1>3, <2>1, FS_AddElement
<1>5. CROOptionalFields = F4
  BY DEF CROOptionalFields
<1>6. QED
  BY <1>4, <1>5

LEMMA DetailType ==
  ASSUME NEW cro
  PROVE  Detail(cro) \in 0 .. 4
<1>1. /\ IsFiniteSet(Specified(cro))
      /\ Cardinality(Specified(cro)) <= 4
  BY OptionalFieldsCounted, FS_Subset DEF Specified
<1>2. Cardinality(Specified(cro)) \in Nat
  BY <1>1, FS_CardinalityType
<1>3. QED
  BY <1>1, <1>2 DEF Detail

\* A valid refinement specifies more than its parent: a chain of refinements ends
\* after as many steps as there are optional fields, and no claims refine each
\* other, whatever identifiers they were given.
THEOREM RefinementsGainDetail ==
  ASSUME NEW child, NEW parent, RefinementValid(child, parent)
  PROVE  Detail(parent) < Detail(child)
<1>1. Specified(parent) \subseteq Specified(child)
  BY DEF RefinementValid, Specified, Has
<1>2. Specified(parent) # Specified(child)
  BY DEF RefinementValid, Specified, Has
<1>3. IsFiniteSet(Specified(child))
  BY OptionalFieldsCounted, FS_Subset DEF Specified
<1>4. Cardinality(Specified(parent)) <= Cardinality(Specified(child))
  BY <1>1, <1>3, FS_Subset
<1>5. Cardinality(Specified(parent)) # Cardinality(Specified(child))
  BY <1>1, <1>2, <1>3, FS_Subset
<1>6. QED
  BY <1>4, <1>5, DetailType DEF Detail

-----------------------------------------------------------------------------
(* Graphs. *)

\* What is reachable contains where it begins and is closed under the edges.
LEMMA ReachableContains ==
  ASSUME NEW E, NEW S
  PROVE  S \subseteq Reachable(E, S)
BY DEF Reachable

LEMMA ReachableClosed ==
  ASSUME NEW E, NEW S, NEW n \in Reachable(E, S), NEW k, <<n, k>> \in E
  PROVE  k \in Reachable(E, S)
<1>1. k \in Ends(E)
  <2>1. k = <<n, k>>[2]
    OBVIOUS
  <2>2. QED
    BY <2>1 DEF Ends
<1>2. ASSUME NEW C \in SUBSET (S \cup Ends(E)), S \subseteq C, ClosedUnder(E, C)
      PROVE  k \in C
  <2>1. n \in C
    BY <1>2 DEF Reachable
  <2>2. <<n, k>>[1] \in C => <<n, k>>[2] \in C
    BY <1>2 DEF ClosedUnder
  <2>3. QED
    BY <2>1, <2>2
<1>3. QED
  BY <1>1, <1>2 DEF Reachable

\* More edges and more beginnings reach more.
LEMMA ReachableGrows ==
  ASSUME NEW E, NEW F, E \subseteq F, NEW S, NEW T, S \subseteq T
  PROVE  Reachable(E, S) \subseteq Reachable(F, T)
<1>1. Ends(E) \subseteq Ends(F)
  BY DEF Ends
<1> SUFFICES ASSUME NEW n \in Reachable(E, S)
             PROVE  n \in Reachable(F, T)
  OBVIOUS
<1>2. ASSUME NEW C \in SUBSET (T \cup Ends(F)), T \subseteq C, ClosedUnder(F, C)
      PROVE  n \in C
  <2> DEFINE D == C \cap (S \cup Ends(E))
  <2>1. S \subseteq D
    BY <1>2
  <2>2. ClosedUnder(E, D)
    <3>1. ASSUME NEW e \in E, e[1] \in D
          PROVE  e[2] \in D
      <4>1. e[2] \in C
        BY <1>2, <3>1 DEF ClosedUnder
      <4>2. e[2] \in Ends(E)
        BY DEF Ends
      <4>3. QED
        BY <4>1, <4>2
    <3>2. QED
      BY <3>1 DEF ClosedUnder
  <2>3. n \in D
    BY <2>1, <2>2 DEF Reachable
  <2>4. QED
    BY <2>3
<1>3. n \in T \cup Ends(F)
  BY <1>1 DEF Reachable
<1>4. QED
  BY <1>2, <1>3 DEF Reachable

\* Of a set of claims one specifies the most fields.
LEMMA SomeMostDetailed ==
  ASSUME NEW R \in SUBSET (0 .. 4), R # {}
  PROVE  \E m \in R : \A j \in R : j <= m
<1>1. CASE 4 \in R
  BY <1>1
<1>2. CASE 4 \notin R /\ 3 \in R
  BY <1>2
<1>3. CASE 4 \notin R /\ 3 \notin R /\ 2 \in R
  BY <1>3
<1>4. CASE 4 \notin R /\ 3 \notin R /\ 2 \notin R
  <2>1. \A j \in R : j \in {0, 1}
    BY <1>4
  <2>2. CASE 1 \in R
    BY <2>1, <2>2
  <2>3. CASE 1 \notin R
    <3>1. R = {0}
      BY <2>1, <2>3
    <3>2. QED
      BY <3>1
  <2>4. QED
    BY <2>2, <2>3
<1>5. QED
  BY <1>1, <1>2, <1>3, <1>4
-----------------------------------------------------------------------------
(* The natural numbers, and descent in a graph. *)

LEMMA SomeLeast ==
  ASSUME NEW S \in SUBSET Nat, S # {}
  PROVE  \E m \in S : \A k \in S : m <= k
<1>1. PICK m \in S : \A k \in S : ~ (<<k, m>> \in OpToRel(<, Nat))
  BY NatLessThanWellFounded, WFMin
<1>2. \A k \in S : ~ (k < m)
  BY <1>1 DEF OpToRel
<1>3. QED
  BY <1>2

\* A graph whose edges lead from a finite set of nodes and always to a lower one
\* has no cycle: of the nodes on one, some have the fewest others below them.
LEMMA DescentIsAcyclic ==
  ASSUME NEW E, NEW D, IsFiniteSet(D), NEW height \in [D -> Int],
         \A n, m : <<n, m>> \in E => n \in D /\ (m \in D => height[m] < height[n])
  PROVE  ~HasCycle(E)
<1> SUFFICES ASSUME NEW C, C # {}, \A n \in C : \E m \in C : <<n, m>> \in E
             PROVE  FALSE
  BY DEF HasCycle
<1>1. \A n \in C : n \in D /\ \E m \in C : m \in D /\ height[m] < height[n]
  OBVIOUS
<1> DEFINE Below(n) == {x \in C : height[x] < height[n]}
           counts == {Cardinality(Below(n)) : n \in C}
<1>2. ASSUME NEW n \in C
      PROVE  IsFiniteSet(Below(n)) /\ Cardinality(Below(n)) \in Nat
  <2>1. Below(n) \subseteq D
    BY <1>1
  <2>2. QED
    BY <2>1, FS_Subset, FS_CardinalityType
<1> HIDE DEF Below
<1>3. counts \in SUBSET Nat /\ counts # {}
  BY <1>2
<1>4. PICK n \in C : \A k \in C : Cardinality(Below(n)) <= Cardinality(Below(k))
  <2>1. PICK least \in counts : \A k \in counts : least <= k
    BY <1>3, SomeLeast
  <2>2. QED
    BY <2>1
<1>5. PICK m \in C : m \in D /\ n \in D /\ height[m] < height[n]
  BY <1>1
<1>6. Below(m) \subseteq Below(n) /\ m \in Below(n) /\ m \notin Below(m)
  <2>1. \A x \in C : height[x] \in Int
    BY <1>1
  <2>2. QED
    BY <1>5, <2>1 DEF Below
<1>7. Cardinality(Below(m)) < Cardinality(Below(n))
  BY <1>2, <1>6, FS_Subset
<1>8. QED
  BY <1>2, <1>4, <1>7

\* What can be reached from what can be reached can be reached.
LEMMA ReachableIsTransitive ==
  ASSUME NEW E, NEW S, NEW T, S \subseteq Reachable(E, T)
  PROVE  Reachable(E, S) \subseteq Reachable(E, T)
<1> SUFFICES ASSUME NEW n \in Reachable(E, S)
             PROVE  n \in Reachable(E, T)
  OBVIOUS
<1>1. n \in T \cup Ends(E)
  BY DEF Reachable
<1>2. ASSUME NEW C \in SUBSET (T \cup Ends(E)), T \subseteq C, ClosedUnder(E, C)
      PROVE  n \in C
  <2> DEFINE D == C \cap (S \cup Ends(E))
  <2>1. S \subseteq D
    BY <1>2 DEF Reachable
  <2>2. ClosedUnder(E, D)
    <3>1. ASSUME NEW e \in E, e[1] \in D
          PROVE  e[2] \in D
      BY <1>2, <3>1 DEF ClosedUnder, Ends
    <3>2. QED
      BY <3>1 DEF ClosedUnder
  <2>3. n \in D
    BY <2>1, <2>2 DEF Reachable
  <2>4. QED
    BY <2>3
<1>3. QED
  BY <1>1, <1>2 DEF Reachable

\* An edge closes a cycle in a graph that has none exactly when its end leads back to
\* where it begins.
THEOREM OneEdgeMore ==
  ASSUME NEW E, \A e \in E : e = <<e[1], e[2]>>, ~HasCycle(E), NEW a, NEW b
  PROVE  HasCycle(E \cup {<<a, b>>}) <=> a \in Reachable(E, {b})
<1> DEFINE F == E \cup {<<a, b>>}
           R == Reachable(E, {b})
<1>1. b \in R /\ \A n \in R : \A k : <<n, k>> \in E => k \in R
  BY ReachableContains, ReachableClosed
<1>2. ASSUME HasCycle(F), a \notin R
      PROVE  FALSE
  <2>1. PICK C \in SUBSET Ends(F) : C # {} /\ \A n \in C : \E m \in C : <<n, m>> \in F
    BY <1>2 DEF HasCycle
  <2>2. ASSUME NEW D \in SUBSET C, D # {}, \A n \in D : \E m \in D : <<n, m>> \in E
        PROVE  FALSE
    <3>1. \A n \in D : n \in Ends(E)
      <4> SUFFICES ASSUME NEW n \in D
                   PROVE  n \in Ends(E)
        OBVIOUS
      <4>1. PICK m \in D : <<n, m>> \in E
        BY <2>2
      <4>2. n = <<n, m>>[1]
        OBVIOUS
      <4>3. QED
        BY <4>1, <4>2 DEF Ends
    <3>2. QED
      BY <2>2, <3>1 DEF HasCycle
  <2>3. CASE b \in C
    <3> DEFINE D == C \cap R
    <3>1. \A n \in D : \E m \in D : <<n, m>> \in E
      <4> HIDE DEF R
      <4> SUFFICES ASSUME NEW n \in D
                   PROVE  \E m \in D : <<n, m>> \in E
        OBVIOUS
      <4>1. PICK m \in C : <<n, m>> \in F
        BY <2>1
      <4>2. <<n, m>> \in E
        BY <1>2, <4>1
      <4>3. QED
        BY <1>1, <4>1, <4>2
    <3>2. QED
      BY <1>1, <2>2, <2>3, <3>1
  <2>4. CASE b \notin C
    <3>1. \A n \in C : \E m \in C : <<n, m>> \in E
      BY <2>1, <2>4
    <3>2. QED
      BY <2>1, <2>2, <3>1
  <2>5. QED
    BY <2>3, <2>4
<1>3. ASSUME a \in R
      PROVE  HasCycle(F)
  <2> DEFINE Leads(k) == a \in Reachable(E, {k})
             C == {n \in R : Leads(n)}
  <2>1. ASSUME NEW n \in C, n # a, \A m \in C : <<n, m>> \notin E
        PROVE  FALSE
    <3> DEFINE X == {k \in {n} \cup Ends(E) : k = n \/ ~Leads(k)}
    <3>1. ClosedUnder(E, X)
      <4>1. ASSUME NEW e \in E, e[1] \in X
            PROVE  e[2] \in X
        <5>1. <<e[1], e[2]>> \in E /\ e[2] \in Ends(E)
          BY DEF Ends
        <5>2. CASE e[1] = n
          <6>1. e[2] \in R
            BY <1>1, <5>1, <5>2
          <6>2. e[2] \notin C
            BY <2>1, <5>1, <5>2
          <6>3. QED
            BY <5>1, <6>1, <6>2
        <5>3. CASE e[1] # n
          <6>1. ~Leads(e[1])
            BY <4>1, <5>3
          <6>2. e[2] \in Reachable(E, {e[1]})
            BY <5>1, ReachableContains, ReachableClosed
          <6>3. Reachable(E, {e[2]}) \subseteq Reachable(E, {e[1]})
            BY <6>2, ReachableIsTransitive
          <6>4. QED
            BY <5>1, <6>1, <6>3
        <5>4. QED
          BY <5>2, <5>3
      <4>2. QED
        BY <4>1 DEF ClosedUnder
    <3>2. X \in SUBSET ({n} \cup Ends(E)) /\ {n} \subseteq X
      OBVIOUS
    <3>3. a \in X
      <4>1. a \in Reachable(E, {n})
        BY <2>1
      <4> HIDE DEF X
      <4>2. QED
        BY <3>1, <3>2, <4>1 DEF Reachable
    <3>4. a \in Reachable(E, {a})
      BY ReachableContains
    <3>5. QED
      BY <2>1, <3>3, <3>4
  <2>2. b \in C
    BY <1>1, <1>3
  <2>3. \A n \in C : \E m \in C : <<n, m>> \in F
    <3> HIDE DEF C
    <3>1. QED
      BY <2>1, <2>2
  <2>4. C \in SUBSET Ends(F)
    <3>1. R \subseteq {b} \cup Ends(E)
      BY DEF Reachable
    <3>2. b \in Ends(F) /\ Ends(E) \subseteq Ends(F)
      <4>1. b = <<a, b>>[2]
        OBVIOUS
      <4>2. QED
        BY <4>1 DEF Ends
    <3> HIDE DEF R, F
    <3>3. QED
      BY <3>1, <3>2
  <2>5. QED
    BY <2>2, <2>3, <2>4 DEF HasCycle
<1>4. QED
  BY <1>2, <1>3
=============================================================================
