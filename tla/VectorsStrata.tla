----------------------------- MODULE VectorsStrata -----------------------------
(***************************************************************************)
(* The conformance vectors V39 to V84: strata, bridges, skips, enabling      *)
(* claims, ports and conduits, labelled realizables, occurrent taxonomies.   *)
(***************************************************************************)
EXTENDS Fixtures

cellular == stratum("cellular", "neuroendocrine", 6, <<>>)

v39 == Valid(stratum("cellular", "neuroendocrine", 6, [unit |-> "cell", governs |-> <<"cell_biology">>]))
v40 == Invalid(mk([type |-> "stratum", label |-> "cellular", ordinal |-> 6]), "scheme")

v41 ==
  LET neuronal == stratum("neuronal", "neuroendocrine", 6, <<>>)
  IN Valid(cellular) /\ Valid(neuronal) /\ cellular.id # neuronal.id

v42 ==
  LET molecular == stratum("molecular", "physics", 4, <<>>)
      c == occAt("chronic_social_subordination", neuro[14])
      e == occAt("gene_expression", molecular)
  IN ClassifyCRO(cro(<<c.id>>, <<e.id>>, <<>>), omap({c, e}), omap({neuro[14], molecular}))
       = "scheme_mismatch"

v43 == Valid(neuro[4]) /\ Valid(neuro[9])
v44 == Valid(occAt("neuron_fires", cellular)) /\ Sound(occAt("neuron_fires", cellular))

v45 ==
  LET o == occ("press_button", <<>>)
      e == occ("light_on", <<>>)
  IN Valid(o) /\ ClassifyCRO(cro(<<o.id>>, <<e.id>>, <<>>), omap({o, e}), <<>>) = "unclassifiable"

v46 == occAt("depolarization", neuro[5]).id # occAt("depolarization", neuro[6]).id

validBridge(relation) ==
  LET f == bridgeFixture(relation)
  IN Valid(f.bridge) /\ BridgeWellformed(f.bridge, f.occs, AllStrata)

v47 == validBridge("constitutes")
v48 == validBridge("aggregates")
v49 == validBridge("realizes")
v50 == validBridge("supervenes_on")

\* A bridge from a coarse event to fine ones is malformed.
MalformedBridge(coarse, fine, strata) ==
  ~BridgeWellformed(bridge(coarse.id, [i \in DOMAIN fine |-> fine[i].id], "constitutes"),
                    omap({coarse} \cup {fine[i] : i \in DOMAIN fine}), strata)

v51 == MalformedBridge(occAt("x_coarse", neuro[4]), <<occAt("x_fine", neuro[6])>>, AllStrata)
v52 == MalformedBridge(occAt("c", neuro[6]), <<occAt("f1", neuro[4]), occAt("f2", neuro[5])>>, AllStrata)

v53 ==
  LET x == sym("occurrent", "x")
      y == sym("occurrent", "y")
  IN HasCycle(BridgeEdges({bridge(x, <<y>>, "constitutes"), bridge(y, <<x>>, "constitutes")}))

v54 ==
  LET molecular == stratum("molecular", "physics", 4, <<>>)
  IN MalformedBridge(occAt("c", cellular), <<occAt("f", molecular)>>, omap({cellular, molecular}))

v55 ==
  LET coarse == occAt("decision_made", neuro[6])
      b(fine) == bridge(coarse.id, <<occAt(fine, neuro[4]).id>>, "realizes")
  IN b("cascade_a").id # b("cascade_b").id /\ Valid(b("cascade_a")) /\ Valid(b("cascade_b"))

v56 == HierarchyConsistent(reachFixture.parent, reachFixture.claims, reachFixture.bridges) = "consistent"
v57 == HierarchyConsistent(reachFixture.parent, reachFixture.claims, {}) = "inconsistent"

v58 ==
  LET verdict(bridges) == HierarchyConsistent(reachFixture.parent, reachFixture.claims, bridges)
  IN verdict({}) # "consistent" /\ verdict(reachFixture.bridges) = "consistent"

v59 == classify(6, 6) = "intra_stratal"
v60 == classify(6, 5) = "adjacent_stratal"
v61 == classify(14, 4) = "skipping"

GapsOfSkip(f) == SkipGaps(f.claim, f.class)

v62 == GapsOfSkip(skipFixture(14, 4, <<>>)) = {"incomplete_mechanism"}
v63 == GapsOfSkip(skipFixture(14, 4, [skips |-> TRUE])) = {}

v64 ==
  LET f == skipFixture(14, 4, [skips |-> TRUE, mechanism |-> <<sym("causal_relation_object", "m")>>])
  IN GapsOfSkip(f) = {"contradictory_skip"} /\ Unsound(f.claim, "contradictory_skip")

v65 == GapsOfSkip(skipFixture(6, 6, [skips |-> TRUE])) = {"vacuous_skip"}
v66 == skipFixture(14, 4, <<>>).claim.id # skipFixture(14, 4, [skips |-> FALSE]).claim.id

v67 ==
  LET c1 == occAt("c1", neuro[4])
      c2 == occAt("c2", neuro[6])
      e  == occAt("e", neuro[6])
  IN EndpointsMixed(cro(<<c1.id, c2.id>>, <<e.id>>, <<>>), omap({c1, c2, e}))

AB(modality) ==
  cro(<<sym("occurrent", "a")>>, <<sym("occurrent", "b")>>, [modality |-> modality])

v68 == Valid(AB("enabling"))
v69 == ~Conflicts(AB("enabling"), AB("sufficient"))
v70 == Conflicts(AB("enabling"), AB("preventive"))

hippocampus == cnt("hippocampus").id

signalPort(label) == port(hippocampus, label, "in", <<sym("occurrent", "signal")>>)

v71 == Valid(signalPort("perforant_path"))
v72 == signalPort("perforant_path").id # signalPort("fornix").id

Flows(f) == ConduitWellformed(f.conduit, f.ports, f.laws)

v73 == Valid(conduitFixture(FALSE, FALSE, FALSE).conduit) /\ Flows(conduitFixture(FALSE, FALSE, FALSE))
v74 == Valid(conduitFixture(TRUE, FALSE, FALSE).conduit) /\ Flows(conduitFixture(TRUE, FALSE, FALSE))
v75 == ~Flows(conduitFixture(FALSE, TRUE, FALSE))
v76 == ~Flows(conduitFixture(FALSE, FALSE, TRUE))

v77 ==
  LET f == conduitFixture(TRUE, FALSE, FALSE)
  IN Flows(f) /\ Members(f.laws[f.conduit.transform], "effects") \cap Members(f.conduit, "carries") = {}

disposition(extra) == rlz(hippocampus, "disposition", extra)

v78 == disposition([label |-> "long_term_potentiation"]).id # disposition([label |-> "pattern_separation"]).id

v79 ==
  /\ Valid(disposition(<<>>))
  /\ disposition([label |-> "some_function"]).id # disposition(<<>>).id

Relates(field, part, whole) ==
  Sound([type |-> "enrichment", about |-> occ(part, <<>>).id, field |-> field,
         entry |-> occ(whole, <<>>).id])

v80 == Relates("occurrent_subsumes", "fires_action_potential", "fires")

v81 ==
  LET a == sym("occurrent", "a")
      b == sym("occurrent", "b")
  IN HasCycle({<<a, b>>, <<b, a>>})

v82 == Relates("occurrent_part_of", "chew", "eat")

v83 ==
  /\ EnrichmentFields["occurrent_part_of"] = [legal |-> {"occurrent"}, shape |-> "occurrent"]
  /\ Cardinality(DOMAIN Stored(<<occ("eat", <<>>), occ("chew", <<>>)>>)) = 2

v84 == occAt("run", neuro[9]).stratum # occAt("sprint", neuro[6]).stratum
=============================================================================
