------------------------------- MODULE Fixtures -------------------------------
(***************************************************************************)
(* The builders and fixtures of the conformance runner (conformance/main.go): *)
(* documents completed with their identifiers, signed records, and the       *)
(* checks that the vectors make with them.  Optional fields are passed in a  *)
(* record, none of them as <<>>; instants are whole numbers.                 *)
(***************************************************************************)
EXTENDS MemoryStore

LOCAL INSTANCE SequencesExt

\* What e says besides, and against, d.
Merge(d, e) == [f \in DOMAIN d \cup DOMAIN e |-> IF f \in DOMAIN e THEN e[f] ELSE d[f]]

\* A symbolic identifier, and one that no schema accepts.
sym(kind, name) == [scheme |-> kind, digest |-> [name |-> name]]
FreeText(text)  == [scheme |-> "", digest |-> [malformed |-> text]]

\* The public half of a key is its identifier; the secret half stays out of sight.
key(name) == KeyId(name)

mk(doc) == With(doc, "id", Identify(doc, InferKind(doc)))

omap(docs) == [id \in {d.id : d \in docs} |-> CHOOSE d \in docs : d.id = id]

signed(kind, body, who, hour) ==
  LET rec == Merge([type |-> kind, timestamp |-> hour], body)
  IN SignRecord(IF kind = "succession" THEN Merge([predecessor |-> key(who)], rec)
                ELSE With(rec, "source", key(who)),
                key(who), kind)

stratum(label, scheme, ordinal, extra) ==
  mk(Merge([type |-> "stratum", label |-> label, scheme |-> scheme, ordinal |-> ordinal], extra))

occ(label, extra) == mk(Merge([type |-> "occurrent", label |-> label, category |-> "event"], extra))

\* An event at a stratum.
occAt(label, s) == occ(label, [stratum |-> s.id])

cnt(label) == mk([type |-> "continuant", label |-> label, category |-> "object"])

cro(causes, effects, extra) ==
  mk(Merge([type |-> "causal_relation_object", causes |-> causes, effects |-> effects], extra))

bridge(coarse, fine, relation) ==
  mk([type |-> "bridge", coarse |-> coarse, fine |-> fine, relation |-> relation])

port(bearer, label, direction, accepts) ==
  mk([type |-> "port", bearer |-> bearer, label |-> label, direction |-> direction,
      accepts |-> accepts])

conduit(from, to, carries, extra) ==
  mk(Merge([type |-> "conduit", label |-> "conn", from |-> from, to |-> to, carries |-> carries],
           extra))

quality(label, datatype, extra) ==
  mk(Merge([type |-> "quality", label |-> label, datatype |-> datatype], extra))

individual(instantiates, designator) ==
  mk([type |-> "token_individual", instantiates |-> instantiates, designator |-> designator])

token(instantiates, interval, extra) ==
  mk(Merge([type |-> "token_occurrence", instantiates |-> instantiates, interval |-> interval],
           extra))

state(subject, of, value, interval) ==
  mk([type |-> "state_assertion", subject |-> subject, quality |-> of, value |-> value,
      interval |-> interval])

tcc(causes, effects, extra) ==
  mk(Merge([type |-> "token_causal_claim", causes |-> causes, effects |-> effects], extra))

rlz(bearer, kind, extra) ==
  mk(Merge([type |-> "realizable", kind |-> kind, bearer |-> bearer], extra))

seamObj(source, target, status, chain) ==
  mk(Merge([type |-> "cross_stratal_seam", source |-> source, target |-> target,
            mechanism_status |-> status],
           IF chain = <<>> THEN <<>> ELSE [chain |-> chain]))

attitudeObj(holder, attitude, content) ==
  mk([type |-> "attitude", holder |-> holder, attitude_type |-> attitude, content |-> content])

predictedObj(instantiates, interval, predictor, extra) ==
  mk(Merge([type |-> "predicted_occurrence", instantiates |-> instantiates, interval |-> interval,
            predictor |-> predictor], extra))

predictionErrorObj(predicted, discrepancy, extra) ==
  mk(Merge([type |-> "prediction_error", predicted |-> predicted, discrepancy |-> discrepancy],
           extra))

-----------------------------------------------------------------------------
(* Larger fixtures. *)

NeuroLabels == << "", "", "", "macromolecular", "subcellular", "cellular", "synaptic", "", "region",
                  "", "", "", "", "community_and_society">>

\* The neuroendocrine strata, by ordinal.
neuro == [o \in {4, 5, 6, 7, 9, 14} |-> stratum(NeuroLabels[o], "neuroendocrine", o, <<>>)]

AllStrata == omap({neuro[o] : o \in DOMAIN neuro})

bridgeFixture(relation) ==
  LET coarse == occAt("action_potential_fires", neuro[6])
      fine   == <<occAt("sodium_channels_open", neuro[4]), occAt("sodium_influx", neuro[4])>>
  IN [bridge |-> bridge(coarse.id, <<fine[1].id, fine[2].id>>, relation),
      occs   |-> omap({coarse, fine[1], fine[2]})]

\* A claim, the finer claim that is its mechanism, and the bridges between them.
reachFixture ==
  LET ap == occAt("action_potential_fires", neuro[6])
      nt == occAt("neurotransmitter_released", neuro[6])
      fa == occAt("calcium_enters", neuro[4])
      fb == occAt("vesicle_fuses", neuro[4])
      m  == cro(<<fa.id>>, <<fb.id>>, <<>>)
  IN [parent  |-> cro(<<ap.id>>, <<nt.id>>, [mechanism |-> <<m.id>>]),
      claims  |-> omap({m}),
      bridges |-> {bridge(ap.id, <<fa.id>>, "constitutes"), bridge(nt.id, <<fb.id>>, "constitutes")}]

\* A claim between two ordinals, and its class.
skipFixture(causeOrd, effectOrd, extra) ==
  LET c == occAt("c", neuro[causeOrd])
      e == occAt("e", neuro[effectOrd])
      P == cro(<<c.id>>, <<e.id>>, extra)
  IN [claim |-> P, class |-> ClassifyCRO(P, omap({c, e}), AllStrata)]

classify(causeOrd, effectOrd) == skipFixture(causeOrd, effectOrd, <<>>).class

MotorCommand == sym("occurrent", "motor_command")
ErrorSignal  == sym("occurrent", "error_signal")

\* A conduit whose ports accept what it carries, unless it is told otherwise.
conduitFixture(transformed, badCarry, inFrom) ==
  LET law  == cro(<<MotorCommand>>, <<ErrorSignal>>, <<>>)
      from == port(cnt("motor_cortex").id, "out_port", IF inFrom THEN "in" ELSE "out",
                   <<MotorCommand>>)
      to   == port(cnt("spinal_neuron").id, "in_port", "in",
                   <<IF transformed THEN ErrorSignal ELSE MotorCommand>>)
  IN [conduit |-> conduit(from.id, to.id,
                          <<IF badCarry THEN sym("occurrent", "unrelated") ELSE MotorCommand>>,
                          IF transformed THEN [transform |-> law.id] ELSE <<>>),
      ports   |-> omap({from, to}),
      laws    |-> IF transformed THEN omap({law}) ELSE <<>>]

conduitRealized(extra) ==
  conduit(sym("port", "1"), sym("port", "2"), <<sym("occurrent", "3")>>, extra)

stateFixture(datatype, value, extra) ==
  LET q == quality("cortisol_concentration", datatype, extra)
  IN [quality |-> q,
      state   |-> state(individual(cnt("human_patient").id, "p").id, q.id, value,
                        [start |-> 1, end |-> 2])]

lawAndTokens ==
  LET cause  == occ("resection", <<>>)
      effect == occ("amnesia_onset", <<>>)
  IN [law |-> cro(<<cause.id>>, <<effect.id>>,
                  [temporal |-> [minimum_delay |-> 0, maximum_delay |-> 1, unit |-> "days"],
                   modality |-> "sufficient"]),
      cause  |-> token(cause.id, [start |-> 1], <<>>),
      effect |-> token(effect.id, [start |-> 1, open |-> TRUE], <<>>)]

makeSeamFixture(srcOrd, tgtOrd, status, chainOrds) ==
  LET src   == occAt("source_event", neuro[srcOrd])
      tgt   == occAt("target_event", neuro[tgtOrd])
      chain == [i \in DOMAIN chainOrds |-> occAt("chain", neuro[chainOrds[i]])]
  IN [seam |-> seamObj(src.id, tgt.id, status, [i \in DOMAIN chain |-> chain[i].id]),
      occs |-> omap({src, tgt} \cup {chain[i] : i \in DOMAIN chain})]

predictorID == individual(cnt("forecasting_mind").id, "predictor_p").id

believerID(designator) == individual(cnt("believing_mind").id, designator).id

-----------------------------------------------------------------------------
(* What a vector checks of a document. *)

Valid(doc) == ValidateSchema(doc, InferKind(doc))

Sound(doc) == SemanticFaults(doc, InferKind(doc)) = {}

\* Invalid on account of a field.
Invalid(doc, field) == \E f \in SchemaFaults(doc, InferKind(doc)) : f[2][1] = field

Unsound(doc, why) == why \in SemanticFaults(doc, InferKind(doc))

\* What a new enforcing store holds after the writes.
Stored(docs) == FoldLeft(LAMBDA objs, d : Put(objs, d, InferKind(d)), <<>>, docs)

Recorded(written) == FoldLeft(LAMBDA recs, r : Write(recs, r, r.type, TRUE), <<>>, written)

gapIDs(objs, recs, kind) == {g.id : g \in GapsOf(objs, recs, kind)}

enrichmentEntries(view, field) ==
  IF Has(view, "enrichments") /\ Has(view.enrichments, field) THEN view.enrichments[field] ELSE {}
=============================================================================
