------------------------------ MODULE VectorsCore ------------------------------
(***************************************************************************)
(* The conformance vectors V01 to V38, the suite of 1.0.0 (conformance/      *)
(* main.go), each as what it asserts of the operators that model the SDK.    *)
(* Documents that a vector reads from a file are written out.                *)
(***************************************************************************)
EXTENDS Fixtures

A == sym("occurrent", "A")
B == sym("occurrent", "B")

ClaimAB(extra) == Merge([causes |-> <<A>>, effects |-> <<B>>], extra)

Numbered(extra) == ClaimAB(Merge([id |-> sym("causal_relation_object", "x")], extra))

\* A document of a kind, with an identifier of that kind.
Given(kind, doc) == Merge([id |-> sym(kind, "x")], doc)

PressButton == [type |-> "occurrent", label |-> "press_button", category |-> "action"]

Lit(digits, exponent, integer) ==
  [negative |-> FALSE, digits |-> digits, exponent |-> exponent, integer |-> integer]

\* Numbers, units and identifiers that the runner checks before the vectors.
internalChecks ==
  LET cellular == [type |-> "stratum", label |-> "cellular", scheme |-> "neuroendocrine",
                   ordinal |-> 6]
      ltp      == [type |-> "realizable", kind |-> "disposition",
                   bearer |-> sym("continuant", "0"), label |-> "ltp"]
      onset    == [type |-> "token_occurrence", instantiates |-> sym("occurrent", "0"),
                   interval |-> [start |-> 1, open |-> TRUE]]
  IN /\ \A pair \in {<<Lit(10, -1, FALSE), Lit(1, 0, TRUE)>>, <<Lit(6000, -3, FALSE), Lit(6, 0, TRUE)>>} :
          JcsNumber(pair[1]) = JcsNumber(pair[2])
     /\ JcsNumber(Lit(7, -1, FALSE)).notation = "small"
     /\ ToSeconds(1, "months") = 2629746 /\ ToSeconds(1, "years") = 31556952
     /\ \A doc \in {cellular, ltp, onset} :
          Identify(doc, InferKind(doc)) = [scheme |-> doc.type, digest |-> doc]

v01 ==
  LET doc == Numbered([type |-> "causal_relation_object", mechanism |-> <<>>, context |-> <<>>,
                       modality |-> "sufficient",
                       temporal |-> [minimum_delay |-> 0, maximum_delay |-> 0, unit |-> "instant"]])
  IN Valid(doc) /\ Sound(doc)

v02 ==
  /\ Valid(Numbered(<<>>)) /\ Sound(Numbered(<<>>))
  /\ MissingFields(Numbered(<<>>)) = {"mechanism", "temporal", "modality", "context"}

v03 == Invalid(Without(Numbered(<<>>), "effects"), "effects")
v04 == Invalid(Numbered([causes |-> <<>>]), "causes")
v05 == Invalid(Numbered([modality |-> "maybe"]), "modality")
v06 == Invalid(Numbered([colour |-> "red"]), "colour")
v07 == Invalid(Numbered([causes |-> <<FreeText("pressing the button")>>]), "causes")
v08 == Valid(Given("occurrent", PressButton))
v09 == Invalid(Given("occurrent", [category |-> "action"]), "label")
v10 == Invalid(Given("occurrent", [label |-> "charge", category |-> "act"]), "category")

Assertion(evidence, confidence) ==
  Given("assertion", [about |-> sym("causal_relation_object", "x"), source |-> key("lab"),
                      evidence_type |-> evidence, confidence |-> confidence, timestamp |-> 0])

v11 == Valid(Merge(Assertion("intervention", 90), [strength |-> 70, signature |-> "8b67"]))
v12 == Invalid(Assertion("observation", 140), "confidence")

Enrichment(about, field, entry) ==
  Given("enrichment", [about |-> about, field |-> field, entry |-> entry, source |-> key("bob"),
                       timestamp |-> 0])

v13 ==
  LET doc == Enrichment(A, "aliases", [lang |-> "ja", text |-> "botan wo osu"])
  IN Valid(doc) /\ Sound(doc)

v14 ==
  LET doc == Numbered([temporal |-> [minimum_delay |-> 6, maximum_delay |-> 1, unit |-> "hours"]])
  IN Valid(doc) /\ Unsound(doc, "inverted_window")

v15 == Unsound(Numbered([mechanism |-> <<Numbered(<<>>).id>>]), "cyclic_mechanism")
v16 == Unsound(Numbered([refines |-> Numbered(<<>>).id]), "cyclic_refinement")

v17 ==
  LET parent == Numbered([modality |-> "sufficient"])
      child  == ClaimAB([id |-> sym("causal_relation_object", "y"), modality |-> "preventive",
                       refines |-> parent.id])
  IN ~RefinementValid(child, parent)

v18 == Unsound(Enrichment(sym("continuant", "c"), "participants", sym("continuant", "d")),
               "illegal_field")
v19 == Unsound(Enrichment(A, "aliases", sym("continuant", "d")), "illegal_entry")

v20 ==
  LET enrich(from, to, hour) ==
        signed("enrichment", [about |-> sym("continuant", from), field |-> "subsumes",
                              entry |-> sym("continuant", to)], "taxo", hour)
      bad    == enrich("animal", "dog", 3)
      recs   == Recorded(<<enrich("dog", "mammal", 1), enrich("mammal", "animal", 2)>>)
      forced == Write(recs, bad, "enrichment", FALSE)
  IN /\ WriteRefusal(recs, bad, "enrichment", TRUE) = "cycle"
     /\ ExcludedEdges(forced, "subsumes") = {bad.id}
     /\ bad.id \in gapIDs(<<>>, forced, "inconsistent_hierarchy")

admissibleFor(min, max, unit, elapsed) ==
  Admissible(ClaimAB([temporal |-> [minimum_delay |-> min, maximum_delay |-> max, unit |-> unit]]),
             elapsed)

v21 == admissibleFor(1, 6, "hours", 10800)
v22 == ~admissibleFor(1, 6, "hours", 28800)
v23 == admissibleFor(12, 14, "months", 34560000)

identityMatch(a, b) == Identify(a, InferKind(a)) = Identify(b, InferKind(b))

\* The order of the fields of a record says nothing.
v24 == identityMatch(ClaimAB([modality |-> "sufficient"]),
                     [modality |-> "sufficient", effects |-> <<B>>, causes |-> <<A>>])

v25 ==
  LET window(min, max) == ClaimAB([temporal |-> [minimum_delay |-> JcsNumber(min),
                                               maximum_delay |-> JcsNumber(max), unit |-> "hours"]])
  IN identityMatch(window(Lit(10, -1, FALSE), Lit(6, 0, TRUE)),
                   window(Lit(1, 0, TRUE), Lit(60, -1, FALSE)))

v26 == Cardinality(DOMAIN Stored(<<PressButton, PressButton>>)) = 1

PressId == Identify(PressButton, "occurrent")

Alias(lang, text, who, hour) ==
  signed("enrichment", [about |-> PressId, field |-> "aliases",
                        entry |-> [lang |-> lang, text |-> text]], who, hour)

AliasesIn(recs, view) ==
  enrichmentEntries(Get(Stored(<<PressButton>>), recs, PressId, view), "aliases")

v27 ==
  LET r1 == Alias("en", "press the button", "alice", 1)
      r2 == Alias("en", "press the button", "bob", 2)
      aliases == AliasesIn(Recorded(<<r1, r2>>), "default")
  IN /\ r1.id # r2.id
     /\ Cardinality(aliases) = 1
     /\ \A a \in aliases : Cardinality(a.contributors) = 2

v28 ==
  LET claim == ClaimAB([type |-> "causal_relation_object", modality |-> "sufficient"])
      objs  == Stored(<<claim, claim>>)
      about(id, who, hour) == signed("assertion", [about |-> id, evidence_type |-> "observation",
                                                   strength |-> 80, confidence |-> 80], who, hour)
  IN /\ Cardinality(DOMAIN objs) = 1
     /\ \A id \in DOMAIN objs :
          Cardinality(AssertionsAbout(Recorded(<<about(id, "lab1", 1), about(id, "lab2", 2)>>),
                                      id, FALSE)) = 2

demoAssertion ==
  signed("assertion", [about |-> sym("causal_relation_object", "demo"),
                       evidence_type |-> "intervention", strength |-> 70, confidence |-> 90],
         "signer", 0)

v29 == VerifyRecord(demoAssertion, "assertion")
v30 == ~VerifyRecord(With(demoAssertion, "confidence", 10), "assertion")

v31 ==
  LET x == Identify(ClaimAB(<<>>), "causal_relation_object")
      a == signed("assertion", [about |-> x, evidence_type |-> "observation", confidence |-> 80],
                  "lab1", 1)
      retract(who, hour) == signed("retraction", [retracts |-> a.id], who, hour)
      recs == Recorded(<<a, retract("lab1", 2)>>)
  IN /\ AssertionsAbout(recs, x, FALSE) = {}
     /\ AssertionsAbout(recs, x, TRUE) = {With(a, "retracted", TRUE)}
     /\ WriteRefusal(recs, retract("mallory", 3), "retraction", TRUE) = "foreign retraction"

v32 ==
  LET e      == Alias("ja", "botan", "bob", 1)
      before == Recorded(<<e>>)
      after  == Recorded(<<e, signed("retraction", [retracts |-> e.id], "bob", 2)>>)
  IN /\ Cardinality(AliasesIn(before, "default")) = 1
     /\ AliasesIn(after, "default") = {}
     /\ Cardinality(AliasesIn(after, "history")) = 1

v33 ==
  LET claim == sym("causal_relation_object", "claim")
      a     == signed("assertion", [about |-> claim, evidence_type |-> "observation",
                                    confidence |-> 90], "K1", 1)
      recs  == Recorded(<<a, signed("succession", [successor |-> key("K2")], "K1", 2),
                          signed("retraction", [retracts |-> a.id], "K2", 3)>>)
  IN /\ key("K1") \in Lineage(recs, key("K2"))
     /\ key("K2") \in Lineage(recs, key("K1"))
     /\ AssertionsAbout(recs, claim, FALSE) = {}

conflictPair(m, n) == Conflicts(ClaimAB([modality |-> m]), ClaimAB([modality |-> n]))

v34 == conflictPair("sufficient", "preventive")
v35 == ~conflictPair("contributory", "sufficient")

v36 ==
  LET C == sym("occurrent", "C")
      D == sym("occurrent", "D")
      m(name, from, to) == [id |-> sym("causal_relation_object", name), causes |-> <<from>>,
                            effects |-> <<to>>]
      m1 == m("m1", A, B)
      m2 == m("m2", B, C)
      m3 == m("m3", D, C)
      parent(by) == [causes |-> <<A>>, effects |-> <<C>>, mechanism |-> <<m1.id, by.id>>]
  IN /\ HierarchyConsistent(parent(m2), omap({m1, m2}), {}) = "consistent"
     /\ HierarchyConsistent(parent(m3), omap({m1, m3}), {}) = "inconsistent"
     /\ HierarchyConsistent(parent(m2), omap({m1}), {}) = "indeterminate"

v37 ==
  LET objs == Stored(<<PressButton>>)
      recs == Recorded(<<Alias("en", "Press the Button", "alice", 1)>>)
  IN /\ Resolve(objs, recs, "Press  The   Button", "en") = [label |-> {}, alias |-> {PressId}]
     /\ PressId \in Resolve(objs, recs, "press_button", "en").label

v38 ==
  LET P == mk(ClaimAB([type |-> "causal_relation_object"]))
      R == mk(ClaimAB([type |-> "causal_relation_object", modality |-> "sufficient",
                     temporal |-> [minimum_delay |-> 0, maximum_delay |-> 1, unit |-> "seconds"],
                     refines |-> P.id]))
      missing(docs) == gapIDs(Stored(docs), <<>>, "missing_field")
  IN /\ P.id \in missing(<<P>>)
     /\ missing(<<P, R>>) \cap {P.id, R.id} = {}
=============================================================================
