------------------------------ MODULE Semantics ------------------------------
(***************************************************************************)
(* The semantic rules of the Go SDK beyond the schemas (semantics.go), as    *)
(* operators on documents.  Where the code takes a map from identifiers to   *)
(* documents, so do they: occs, strata, ports, laws, tokens.  A rule that    *)
(* reports reasons or gaps gives the set of their names; delays and instants *)
(* are whole numbers, instants in the order of their RFC 3339 texts, with 0  *)
(* for the empty text.                                                       *)
(***************************************************************************)
EXTENDS Identity

UnitSeconds == [instant |-> 0, seconds |-> 1, minutes |-> 60, hours |-> 3600,
                days |-> 86400, weeks |-> 604800, months |-> 2629746, years |-> 31556952]

OrdinalUnits == {"ticks"}

DimensionOf(unit) == IF unit \in OrdinalUnits THEN "ordinal" ELSE "wallclock"

MagnitudeOf(value, unit) == IF unit \in OrdinalUnits THEN value ELSE value * UnitSeconds[unit]

\* A tick has no length in seconds: the conversion refuses it.
Refused == -1
ToSeconds(duration, unit) ==
  IF unit \in OrdinalUnits THEN Refused ELSE duration * UnitSeconds[unit]

EnrichmentFields == [
  aliases            |-> [legal |-> {"occurrent", "continuant"}, shape |-> "alias"],
  participants       |-> [legal |-> {"occurrent"},  shape |-> "continuant"],
  subsumes           |-> [legal |-> {"continuant"}, shape |-> "continuant"],
  part_of            |-> [legal |-> {"continuant"}, shape |-> "continuant"],
  realized_in        |-> [legal |-> {"realizable"}, shape |-> "occurrent"],
  occurrent_subsumes |-> [legal |-> {"occurrent"},  shape |-> "occurrent"],
  occurrent_part_of  |-> [legal |-> {"occurrent"},  shape |-> "occurrent"]]

CROOptionalFields == {"mechanism", "temporal", "modality", "context"}

PositiveModalities == {"necessary", "sufficient", "contributory", "enabling"}

MechanismPresent(doc) == Members(doc, "mechanism") # {}

Skips(cro) == Has(cro, "skips") /\ cro.skips

-----------------------------------------------------------------------------
(* The rules that need nothing but the document (ValidateSemantics). *)

ClaimFaults(cro) ==
  {w \in {"inverted_window", "cyclic_mechanism", "cyclic_refinement", "contradictory_skip"} :
     CASE w = "inverted_window"    -> /\ Has(cro, "temporal")
                                      /\ cro.temporal.minimum_delay > cro.temporal.maximum_delay
       [] w = "cyclic_mechanism"   -> Has(cro, "id") /\ cro.id \in Members(cro, "mechanism")
       [] w = "cyclic_refinement"  -> Has(cro, "id") /\ Has(cro, "refines") /\ cro.refines = cro.id
       [] w = "contradictory_skip" -> Skips(cro) /\ MechanismPresent(cro)}

IsAlias(entry) == {"lang", "text"} \subseteq DOMAIN entry

EntryFits(entry, shape) ==
  IF shape = "alias" THEN IsAlias(entry) ELSE Has(entry, "scheme") /\ entry.scheme = shape

EnrichmentFaults(rec) ==
  IF rec.field \notin DOMAIN EnrichmentFields THEN {}
  ELSE LET rule == EnrichmentFields[rec.field] IN
       {w \in {"illegal_field", "illegal_entry"} :
          \/ w = "illegal_field" /\ KindOfID(rec.about) \notin rule.legal \cup {""}
          \/ w = "illegal_entry" /\ ~EntryFits(rec.entry, rule.shape)}

SeamFaults(seam) ==
  {w \in {"contradictory_seam"} :
     Has(seam, "chain") /\ Has(seam, "mechanism_status") /\ seam.mechanism_status = "absent"}

PredictionFaults(doc) ==
  {w \in {"dimension_conflict", "missing_dimension"} :
     IF w = "dimension_conflict"
       THEN {"start", "start_tick"} \subseteq DOMAIN doc.interval
       ELSE {"start", "start_tick"} \cap DOMAIN doc.interval = {}}

SemanticFaults(doc, kind) ==
  CASE kind = "causal_relation_object" -> ClaimFaults(doc)
    [] kind = "enrichment"             -> EnrichmentFaults(doc)
    [] kind = "cross_stratal_seam"     -> SeamFaults(doc)
    [] kind = "predicted_occurrence"   -> PredictionFaults(doc)
    [] OTHER                           -> {}

MissingFields(cro) == CROOptionalFields \ DOMAIN cro

-----------------------------------------------------------------------------
(* Time: rules 4 and 20. *)

Earliest(t) == MagnitudeOf(t.minimum_delay, t.unit)
Latest(t)   == MagnitudeOf(t.maximum_delay, t.unit)

Admissible(cro, elapsed) ==
  Has(cro, "temporal") =>
    Earliest(cro.temporal) <= elapsed /\ elapsed <= Latest(cro.temporal)

\* Variant: magnitudes are compared whatever their dimension.
WindowOverlapAnyDimension(a, b) ==
  Has(a, "temporal") /\ Has(b, "temporal") =>
    /\ Earliest(a.temporal) <= Latest(b.temporal)
    /\ Earliest(b.temporal) <= Latest(a.temporal)

WindowOverlap(a, b) ==
  Has(a, "temporal") /\ Has(b, "temporal") =>
    /\ DimensionOf(a.temporal.unit) = DimensionOf(b.temporal.unit)
    /\ Earliest(a.temporal) <= Latest(b.temporal)
    /\ Earliest(b.temporal) <= Latest(a.temporal)

\* A delay is a duration and a unit; both arguments may be absent in the code.
DelayWithinWindow(delay, temporal) ==
  /\ DimensionOf(delay.unit) = DimensionOf(temporal.unit)
  /\ Earliest(temporal) <= MagnitudeOf(delay.duration, delay.unit)
  /\ MagnitudeOf(delay.duration, delay.unit) <= Latest(temporal)

-----------------------------------------------------------------------------
(* Rival claims and refinements: rules 3 and 6. *)

ContextsCompatible(a, b) ==
  LET A == Members(a, "context")
      B == Members(b, "context")
  IN A = {} \/ B = {} \/ A \subseteq B \/ B \subseteq A

Opposes(a, b) ==
  /\ Has(a, "modality") /\ Has(b, "modality")
  /\ a.modality = "preventive" /\ b.modality \in PositiveModalities

SameEnds(a, b) ==
  /\ Members(a, "causes") = Members(b, "causes")
  /\ Members(a, "effects") = Members(b, "effects")

\* Variant: one side only may be preventive.
ConflictsOneWay(a, b) ==
  SameEnds(a, b) /\ ContextsCompatible(a, b) /\ WindowOverlap(a, b) /\ Opposes(a, b)

Conflicts(a, b) ==
  /\ SameEnds(a, b)
  /\ ContextsCompatible(a, b)
  /\ WindowOverlap(a, b)
  /\ Opposes(a, b) \/ Opposes(b, a)

\* Variants: fields that the parent specified may change; none has to be added.
RefinementByName(child, parent) ==
  /\ Has(child, "refines") /\ child.refines = parent.id
  /\ SameEnds(child, parent)
  /\ \E f \in CROOptionalFields : Has(child, f) /\ ~Has(parent, f)

RefinementWithoutGain(child, parent) ==
  /\ Has(child, "refines") /\ child.refines = parent.id
  /\ SameEnds(child, parent)
  /\ \A f \in CROOptionalFields \cap DOMAIN parent : Has(child, f) /\ child[f] = parent[f]

RefinementValid(child, parent) ==
  /\ Has(child, "refines") /\ child.refines = parent.id
  /\ SameEnds(child, parent)
  /\ \A f \in CROOptionalFields \cap DOMAIN parent : Has(child, f) /\ child[f] = parent[f]
  /\ \E f \in CROOptionalFields : Has(child, f) /\ ~Has(parent, f)

-----------------------------------------------------------------------------
(* Graphs, as sets of edges <<from, to>>. *)

Ends(E) == {e[1] : e \in E} \cup {e[2] : e \in E}

\* What can be reached from the nodes in S, themselves included.
ClosedUnder(E, C) == \A e \in E : e[1] \in C => e[2] \in C

Reachable(E, S) ==
  {n \in S \cup Ends(E) : \A C \in SUBSET (S \cup Ends(E)) : S \subseteq C /\ ClosedUnder(E, C) => n \in C}

HasCycle(E) == \E C \in SUBSET Ends(E) : C # {} /\ \A n \in C : \E m \in C : <<n, m>> \in E

-----------------------------------------------------------------------------
(* Strata: rules 7, 14, 15, 16 and 22. *)

BridgeEdges(bridges) == UNION {{<<b.coarse, f>> : f \in Members(b, "fine")} : b \in bridges}

BridgeClosure(occ, bridges) == Reachable(BridgeEdges(bridges), {occ})

\* What the claims of a mechanism lead from and to.
MechanismEdges(parent, claims) ==
  UNION {Members(claims[m], "causes") \X Members(claims[m], "effects") :
           m \in Members(parent, "mechanism")}

\* Some finer form of c leads to some finer form of e.
Connected(E, c, e, bridges) ==
  Reachable(E, BridgeClosure(c, bridges)) \cap BridgeClosure(e, bridges) # {}

HierarchyConsistent(parent, claims, bridges) ==
  CASE ~MechanismPresent(parent) -> "consistent"
    [] MechanismPresent(parent) /\ ~(Members(parent, "mechanism") \subseteq DOMAIN claims)
       -> "indeterminate"
    [] OTHER ->
       IF \A c \in Members(parent, "causes"), e \in Members(parent, "effects") :
            Connected(MechanismEdges(parent, claims), c, e, bridges)
       THEN "consistent" ELSE "inconsistent"

Stratified(occs, o) == o \in DOMAIN occs /\ Has(occs[o], "stratum")

\* An absent stratum reads as the scheme "" and the ordinal 0.
SchemeOf(strata, s)  == IF s \in DOMAIN strata THEN strata[s].scheme ELSE ""
OrdinalOf(strata, s) == IF s \in DOMAIN strata THEN strata[s].ordinal ELSE 0

Distance(i, j) == IF i < j THEN j - i ELSE i - j

StrataOf(cro, f, occs) == {occs[o].stratum : o \in Members(cro, f)}

OrdinalsOf(cro, f, occs, strata) == {OrdinalOf(strata, s) : s \in StrataOf(cro, f, occs)}

AllStratified(cro, occs) ==
  \A o \in Members(cro, "causes") \cup Members(cro, "effects") : Stratified(occs, o)

OneScheme(cro, occs, strata) ==
  \A s, t \in StrataOf(cro, "causes", occs) \cup StrataOf(cro, "effects", occs) :
    SchemeOf(strata, s) = SchemeOf(strata, t)

\* The class of a claim all of whose ends are stratified in one scheme, by the
\* distances between the ordinals of its causes (C) and of its effects (E).
ClassByOrdinals(C, E) ==
  CASE \A i, j \in C \cup E : i = j -> "intra_stratal"
    [] /\ \E i, j \in C \cup E : i # j
       /\ \A i \in C, j \in E : Distance(i, j) <= 1
       /\ \E i \in C, j \in E : Distance(i, j) = 1 -> "adjacent_stratal"
    [] \A i \in C, j \in E : Distance(i, j) > 1 -> "skipping"
    [] OTHER -> "mixed"

ClassifyCRO(cro, occs, strata) ==
  CASE ~AllStratified(cro, occs) -> "unclassifiable"
    [] AllStratified(cro, occs) /\ ~OneScheme(cro, occs, strata) -> "scheme_mismatch"
    [] OTHER -> ClassByOrdinals(OrdinalsOf(cro, "causes", occs, strata),
                                OrdinalsOf(cro, "effects", occs, strata))

EndpointsMixed(cro, occs) ==
  /\ AllStratified(cro, occs)
  /\ \E f \in {"causes", "effects"} : \E s, t \in StrataOf(cro, f, occs) : s # t

SkipGaps(cro, class) ==
  IF Skips(cro) /\ MechanismPresent(cro) THEN {"contradictory_skip"}
  ELSE {g \in {"vacuous_skip", "incomplete_mechanism"} :
          IF g = "vacuous_skip"
            THEN Skips(cro) /\ class \notin {"skipping", "unclassifiable"}
            ELSE class = "skipping" /\ ~MechanismPresent(cro) /\ ~Skips(cro)}

\* Variant: the coarse end may be at the ordinal of the fine ones.
BridgeFaultsLevel(bridge, occs, strata) ==
  LET fine  == Members(bridge, "fine")
      under == {occs[f].stratum : f \in fine}
      over  == occs[bridge.coarse].stratum
  IN CASE ~Stratified(occs, bridge.coarse) -> {"a"}
       [] Stratified(occs, bridge.coarse) /\ \E f \in fine : ~Stratified(occs, f) -> {"b"}
       [] OTHER ->
          {w \in {"c", "d", "e"} :
             \/ w = "c" /\ Cardinality(under) # 1
             \/ w = "d" /\ \E s \in under : SchemeOf(strata, s) # SchemeOf(strata, over)
             \/ w = "e" /\ \E s \in under : OrdinalOf(strata, over) < OrdinalOf(strata, s)}

BridgeFaults(bridge, occs, strata) ==
  LET fine  == Members(bridge, "fine")
      under == {occs[f].stratum : f \in fine}
      over  == occs[bridge.coarse].stratum
  IN CASE ~Stratified(occs, bridge.coarse) -> {"a"}
       [] Stratified(occs, bridge.coarse) /\ \E f \in fine : ~Stratified(occs, f) -> {"b"}
       [] OTHER ->
          {w \in {"c", "d", "e"} :
             \/ w = "c" /\ Cardinality(under) # 1
             \/ w = "d" /\ \E s \in under : SchemeOf(strata, s) # SchemeOf(strata, over)
             \/ w = "e" /\ \E s \in under : OrdinalOf(strata, over) <= OrdinalOf(strata, s)}

BridgeWellformed(bridge, occs, strata) == BridgeFaults(bridge, occs, strata) = {}

\* The faults (a) to (g) of a seam; a chain is judged against the ordinals of the
\* two ends, its order only against itself.
SeamOrdinals(chain, occs, strata) == [i \in DOMAIN chain |-> OrdinalOf(strata, occs[chain[i]].stratum)]

StrictlyMonotone(ords) ==
  \/ \A i, j \in DOMAIN ords : i < j => ords[i] < ords[j]
  \/ \A i, j \in DOMAIN ords : i < j => ords[i] > ords[j]

Between(i, j, k) == (i < k /\ k < j) \/ (j < k /\ k < i)

ChainFaults(seam, occs, strata) ==
  LET from == occs[seam.source].stratum
      to   == occs[seam.target].stratum
      ords == SeamOrdinals(seam.chain, occs, strata)
  IN CASE seam.mechanism_status = "absent" -> {"d"}
       [] /\ seam.mechanism_status # "absent"
          /\ \E o \in Members(seam, "chain") :
               ~Stratified(occs, o) \/ SchemeOf(strata, occs[o].stratum) # SchemeOf(strata, from) -> {"e"}
       [] OTHER ->
          {w \in {"f", "g"} :
             IF w = "f"
               THEN \E i \in DOMAIN ords :
                      ~Between(OrdinalOf(strata, from), OrdinalOf(strata, to), ords[i])
               ELSE ~StrictlyMonotone(ords)}

SeamWellformedFaults(seam, occs, strata) ==
  LET from == occs[seam.source].stratum
      to   == occs[seam.target].stratum
  IN CASE ~Stratified(occs, seam.source) \/ ~Stratified(occs, seam.target) -> {"a"}
       [] /\ Stratified(occs, seam.source) /\ Stratified(occs, seam.target)
          /\ SchemeOf(strata, from) # SchemeOf(strata, to) -> {"b"}
       [] OTHER ->
          {w \in {"c"} : Distance(OrdinalOf(strata, from), OrdinalOf(strata, to)) <= 1}
          \cup (IF Has(seam, "chain") THEN ChainFaults(seam, occs, strata) ELSE {})

SeamWellformed(seam, occs, strata) == SeamWellformedFaults(seam, occs, strata) = {}

NoStratum == [scheme |-> "", digest |-> [name |-> ""]]

\* The coarser of the two ends' strata.
SeamHome(seam, occs, strata) ==
  LET from == occs[seam.source].stratum
      to   == occs[seam.target].stratum
  IN IF ~(Stratified(occs, seam.source) /\ Stratified(occs, seam.target)) THEN NoStratum
     ELSE IF OrdinalOf(strata, from) >= OrdinalOf(strata, to) THEN from ELSE to

-----------------------------------------------------------------------------
(* Conduits: rule 17. *)

\* What a conduit delivers: what it carries, or the effects of its transform.
Delivered(conduit, laws) ==
  CASE ~Has(conduit, "transform") -> Members(conduit, "carries")
    [] Has(conduit, "transform") /\ conduit.transform \in DOMAIN laws
         -> Members(laws[conduit.transform], "effects")
    [] OTHER -> {}

ConduitFaults(conduit, ports, laws) ==
  IF ~({conduit.from, conduit.to} \subseteq DOMAIN ports) THEN {"dangling"}
  ELSE LET from == ports[conduit.from]
           to   == ports[conduit.to]
       IN {w \in {"a", "b", "c", "d"} :
             CASE w = "a" -> from.direction \notin {"out", "bidirectional"}
               [] w = "b" -> to.direction \notin {"in", "bidirectional"}
               [] w = "c" -> ~(Members(conduit, "carries") \subseteq Members(from, "accepts"))
               [] w = "d" -> ~(Delivered(conduit, laws) \subseteq Members(to, "accepts"))}

ConduitWellformed(conduit, ports, laws) == ConduitFaults(conduit, ports, laws) = {}

-----------------------------------------------------------------------------
(* Tokens: rules 19, 20, 21 and 24. *)

\* The shape of a value, the first of the three that it has.
ShapeOf(value) ==
  CASE Has(value, "quantity") -> "quantity"
    [] ~Has(value, "quantity") /\ Has(value, "categorical") -> "categorical"
    [] OTHER -> IF Has(value, "boolean") THEN "boolean" ELSE ""

UnitOf(doc) == IF Has(doc, "unit") THEN doc.unit ELSE ""

StateGaps(state, quality) ==
  CASE ShapeOf(state.value) # quality.datatype -> {"value_type_mismatch"}
    [] /\ ShapeOf(state.value) = quality.datatype
       /\ quality.datatype = "quantity"
       /\ UnitOf(state.value) # UnitOf(quality) -> {"unit_mismatch"}
    [] OTHER -> {}

Instantiates(tokens, t, S) == t \in DOMAIN tokens /\ tokens[t].instantiates \in S

\* The law is known; without one there is no mismatch.
CoveringLawMismatch(claim, tokens, law) ==
  \E f \in {"causes", "effects"} : \E t \in Members(claim, f) :
    ~Instantiates(tokens, t, Members(law, f))

StartOf(tokens, t) ==
  IF t \in DOMAIN tokens /\ Has(tokens[t].interval, "start") THEN tokens[t].interval.start ELSE 0

Retrocausal(claim, tokens) ==
  \E c \in Members(claim, "causes"), e \in Members(claim, "effects") :
    StartOf(tokens, c) > StartOf(tokens, e)

\* The observed token, when one answered the prediction.
PredictionPairingMismatch(err, predicted, observed) ==
  Has(err, "observed") /\ observed.instantiates # predicted.instantiates
=============================================================================
