------------------------------ MODULE VectorsToken ------------------------------
(***************************************************************************)
(* The conformance vectors V85 to V137: tokens and states, covering laws,    *)
(* evidence, the tick unit, seams, realized conduits, attitudes, predictions *)
(* and their errors.                                                         *)
(***************************************************************************)
EXTENDS Fixtures

patient == cnt("human_patient").id

v85 == Valid(individual(patient, "salted_hash_abc123"))
v86 == Invalid(mk([type |-> "token_individual", designator |-> "x"]), "instantiates")
v87 == individual(patient, "hash_a").id # individual(patient, "hash_b").id
v88 == Valid(token(occ("bilateral_hippocampal_resection", <<>>).id, [start |-> 1, end |-> 1], <<>>))

v89 ==
  LET onset(interval) == token(occ("amnesia_onset", <<>>).id, interval, <<>>).id
  IN Cardinality({onset([start |-> 1, end |-> 2]), onset([start |-> 1]),
                  onset([start |-> 1, open |-> TRUE])}) = 3

v90 ==
  Valid(token(occ("resection", <<>>).id, [start |-> 1],
              [participants |-> <<[role |-> "patient", filler |-> individual(patient, "p").id],
                                  [role |-> "agent", filler |-> individual(patient, "s").id]>>]))

v91 == Valid(quality("cortisol_concentration", "quantity", [unit |-> "ug/dL"]))

Micrograms == [quantity |-> 15, unit |-> "ug/dL"]

Fits(f) == Valid(f.state) /\ StateGaps(f.state, f.quality) = {}

v92 == Fits(stateFixture("quantity", Micrograms, [unit |-> "ug/dL"]))
v93 == Fits(stateFixture("categorical", [categorical |-> "elevated"], <<>>))
v94 == Fits(stateFixture("boolean", [boolean |-> TRUE], <<>>))

v95 ==
  LET f == stateFixture("quantity", [categorical |-> "elevated"], [unit |-> "ug/dL"])
  IN StateGaps(f.state, f.quality) = {"value_type_mismatch"}

v96 ==
  LET f == stateFixture("quantity", [quantity |-> 15, unit |-> "mg/dL"], [unit |-> "ug/dL"])
  IN StateGaps(f.state, f.quality) = {"unit_mismatch"}

claimOf(extra) == tcc(<<lawAndTokens.cause.id>>, <<lawAndTokens.effect.id>>, extra)

v97 == Valid(claimOf([covering_law |-> lawAndTokens.law.id, counterfactual |-> TRUE,
                      actual_delay |-> [duration |-> 0, unit |-> "instant"]]))
v98 == Valid(claimOf(<<>>)) /\ ~Has(claimOf(<<>>), "covering_law")

v99 == DelayWithinWindow([duration |-> 0, unit |-> "instant"], lawAndTokens.law.temporal)

Hours(min, max) == [minimum_delay |-> min, maximum_delay |-> max, unit |-> "hours"]

v100 == ~DelayWithinWindow([duration |-> 5, unit |-> "days"], Hours(0, 1))

v101 ==
  LET at(start) == token(occ("x", <<>>).id, [start |-> start], <<>>)
  IN Retrocausal(tcc(<<at(2).id>>, <<at(1).id>>, <<>>), omap({at(1), at(2)}))

v102 ==
  LET other == cro(<<sym("occurrent", "foo")>>, <<sym("occurrent", "bar")>>, <<>>)
  IN CoveringLawMismatch(claimOf([covering_law |-> other.id]),
                         omap({lawAndTokens.cause, lawAndTokens.effect}), other)

Says(about, evidence, confidence) ==
  signed("assertion", [about |-> about, evidence_type |-> evidence, confidence |-> confidence],
         "signer", 0)

v103 == Valid(Says(sym("token_occurrence", "t"), "observation", 90))

v104 ==
  LET base == [type |-> "assertion", about |-> sym("causal_relation_object", "law"),
               source |-> key("signer"), evidence_type |-> "intervention", strength |-> 95,
               confidence |-> 99, timestamp |-> 0]
      a == Merge(base, [evidenced_by |-> <<sym("token_occurrence", "t1"),
                                           sym("token_causal_claim", "c1")>>])
  IN Valid(mk(a)) /\ mk(a).id # mk(base).id

v105 == Valid(Says(sym("causal_relation_object", "law"), "simulation", 50))

v106 == mk([type |-> "occurrent", label |-> "press_button", category |-> "action"]).id.scheme = "occurrent"

Zero(kind) == sym(kind, "0")

\* A document is accepted under the scheme of its kind and under no shorter one.
WholeWord(kind, doc, abbreviation) ==
  /\ ~ValidateSchema(With(doc, "id", Zero(abbreviation)), kind)
  /\ ValidateSchema(With(doc, "id", Zero(kind)), kind)

v107 ==
  /\ WholeWord("causal_relation_object",
               [type |-> "causal_relation_object", causes |-> <<Zero("occurrent")>>,
                effects |-> <<Zero("occurrent")>>], "cro")
  /\ WholeWord("stratum", [type |-> "stratum", label |-> "cellular", scheme |-> "neuroendocrine",
                           ordinal |-> 6], "str")

-----------------------------------------------------------------------------
(* Ticks. *)

Window_(min, max, unit) == [minimum_delay |-> min, maximum_delay |-> max, unit |-> unit]

Within(window, modality) ==
  [type |-> "causal_relation_object", causes |-> <<sym("occurrent", "a")>>,
   effects |-> <<sym("occurrent", "b")>>, temporal |-> window, modality |-> modality]

v108 ==
  LET P == mk(Within(Window_(0, 5, "ticks"), "sufficient"))
  IN Valid(P) /\ Sound(P)

v109 ==
  \A elapsed \in 1 .. 6 :
    Admissible(Within(Window_(2, 5, "ticks"), "sufficient"), elapsed) <=> elapsed \in 2 .. 5

v110 ==
  /\ DelayWithinWindow([duration |-> 3, unit |-> "ticks"], Window_(0, 5, "ticks"))
  /\ ~DelayWithinWindow([duration |-> 1, unit |-> "ticks"], Window_(0, 5, "seconds"))
  /\ ~DelayWithinWindow([duration |-> 1, unit |-> "seconds"], Window_(0, 5, "ticks"))
  /\ ~Conflicts(Within(Window_(0, 5, "ticks"), "sufficient"),
                Within(Window_(0, 5, "seconds"), "preventive"))
  /\ ToSeconds(1, "ticks") = Refused

\* The identifier that earlier editions gave to a document without new fields.
Pinned(doc) == mk(doc).id = [scheme |-> doc.type, digest |-> Without(doc, "id")]

seconds == Within(Window_(0, 1, "seconds"), "sufficient")

v111 == mk(Within(Window_(0, 1, "ticks"), "sufficient")).id # mk(seconds).id /\ Pinned(seconds)

-----------------------------------------------------------------------------
(* Seams and realized conduits. *)

WellMade(f) == SeamWellformed(f.seam, f.occs, AllStrata)

unmodeled == makeSeamFixture(14, 4, "unmodeled", <<>>)

v112 == Valid(unmodeled.seam) /\ Sound(unmodeled.seam) /\ WellMade(unmodeled)

v113 ==
  LET absent == makeSeamFixture(14, 4, "absent", <<>>)
  IN Valid(absent.seam) /\ WellMade(absent) /\ absent.seam.id # unmodeled.seam.id

v114 ==
  LET drawn(status) == makeSeamFixture(14, 4, status, <<9, 7, 6, 5>>)
  IN /\ Valid(drawn("unmodeled").seam) /\ WellMade(drawn("unmodeled"))
     /\ Unsound(drawn("absent").seam, "contradictory_seam") /\ ~WellMade(drawn("absent"))

v115 == SeamHome(unmodeled.seam, unmodeled.occs, AllStrata) = neuro[14].id

v116 ==
  /\ ~WellMade(makeSeamFixture(6, 5, "unmodeled", <<>>))
  /\ ~WellMade(makeSeamFixture(6, 6, "unmodeled", <<>>))
  /\ unmodeled.seam.id.scheme = "cross_stratal_seam"

bound   == conduitRealized([realized_by |-> sym("native", "region_stratum_predict")])
unbound == conduitRealized(<<>>)

v117 == Valid(bound) /\ Valid(conduitRealized([realized_by |-> sym("causal_relation_object", "a")]))
v118 == bound.id # unbound.id /\ Pinned(unbound)
v119 ==
  /\ Valid(unbound)
  /\ ~Valid(With(unbound, "realized_by", FreeText("not-a-scheme-qualified-reference")))

-----------------------------------------------------------------------------
(* Predictions and attitudes. *)

rain == occ("rainfall_begins", <<>>).id

forecast(interval, extra) == predictedObj(rain, interval, predictorID, extra)

Accepted(doc) == Valid(doc) /\ Sound(doc)

v120 ==
  LET ticks  == [start_tick |-> 3, end_tick |-> 8]
      report == mk([type |-> "token_occurrence", instantiates |-> rain, interval |-> ticks])
  IN /\ Accepted(forecast(ticks, <<>>))
     /\ forecast(ticks, <<>>).id # report.id
     /\ forecast(ticks, <<>>).id.scheme = "predicted_occurrence"
     /\ report.id.scheme = "token_occurrence"

v121 ==
  LET sure   == forecast([start |-> 1, end |-> 2], [strength |-> 80])
      unsure == forecast([start |-> 1, end |-> 2], <<>>)
  IN Accepted(sure) /\ Accepted(unsure) /\ sure.id # unsure.id

v122 == Invalid(mk([type |-> "predicted_occurrence", instantiates |-> rain,
                    interval |-> [start_tick |-> 3]]), "predictor")

v123 ==
  LET both == forecast([start |-> 1, start_tick |-> 3], <<>>)
  IN Valid(both) /\ Unsound(both, "dimension_conflict")

\* A forecast of rain, and what was observed of an event.
outcome(observed) ==
  LET p == forecast([start |-> 1], <<>>)
      t == token(observed, [start |-> 2], <<>>)
  IN [error |-> predictionErrorObj(p.id, 0, [observed |-> t.id]), predicted |-> p, observed |-> t]

Mismatch(f) == PredictionPairingMismatch(f.error, f.predicted, f.observed)

v124 == Accepted(outcome(rain).error) /\ ~Mismatch(outcome(rain))

v125 ==
  LET missed == predictionErrorObj(forecast([start |-> 1], <<>>).id, -1, <<>>)
  IN Accepted(missed) /\ ~PredictionPairingMismatch(missed, forecast([start |-> 1], <<>>), <<>>)

v126 == Invalid(mk([type |-> "prediction_error",
                    predicted |-> forecast([start_tick |-> 0], <<>>).id]), "discrepancy")

v127 ==
  LET snow == outcome(occ("snowfall_begins", <<>>).id)
  IN Valid(snow.error) /\ Mismatch(snow)

attitudeTo(attitude, content) == attitudeObj(believerID("holder_h"), attitude, content)

v128 == Accepted(attitudeTo("believes", stateFixture("quantity", Micrograms, [unit |-> "ug/dL"]).state.id))

\* To believe a claim is not to make it: no conflict is raised with the claim it rivals.
v129 ==
  LET a == occ("switch_pressed", <<>>)
      b == occ("light_on", <<>>)
      actual   == cro(<<a.id>>, <<b.id>>, [modality |-> "sufficient"])
      believed == cro(<<a.id>>, <<b.id>>, [modality |-> "preventive"])
      att      == attitudeTo("believes", believed.id)
  IN /\ Conflicts(believed, actual)
     /\ Accepted(att)
     /\ ConflictGaps(Stored(<<a, b, actual, att>>)) = {}

v130 == Accepted(attitudeTo("desires", rain))
v131 == Accepted(attitudeTo("intends", occ("press_button", <<>>).id))

v132 ==
  LET inner == attitudeObj(believerID("holder_b"), "believes",
                           stateFixture("boolean", [boolean |-> TRUE], <<>>).state.id)
      outer == attitudeObj(believerID("holder_a"), "believes", inner.id)
  IN Accepted(inner) /\ Accepted(outer) /\ outer.id # inner.id

v133 == Invalid(attitudeTo("suspects", rain), "attitude_type")
v134 == Invalid(mk(With(Without(attitudeTo("believes", rain), "id"), "strength", 90)), "strength")

v135 ==
  LET att == attitudeTo("expects", rain)
      a   == Says(att.id, "observation", 90)
  IN /\ Valid(a) /\ VerifyRecord(a, "assertion")
     /\ att.holder.scheme = "token_individual"
     /\ a.source.scheme = "ed25519"

v136 == Pinned(seconds) /\ Pinned(unbound)

v137 ==
  /\ WholeWord("attitude", [type |-> "attitude", holder |-> Zero("token_individual"),
                            attitude_type |-> "believes", content |-> Zero("state_assertion")], "att")
  /\ WholeWord("predicted_occurrence",
               [type |-> "predicted_occurrence", instantiates |-> Zero("occurrent"),
                interval |-> [start_tick |-> 0], predictor |-> Zero("token_individual")], "prd")
  /\ WholeWord("prediction_error",
               [type |-> "prediction_error", predicted |-> Zero("predicted_occurrence"),
                discrepancy |-> 0], "err")
=============================================================================
