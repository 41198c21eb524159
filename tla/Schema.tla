-------------------------------- MODULE Schema --------------------------------
(***************************************************************************)
(* Schema validation (schema.go): a small interpreter of the JSON Schema     *)
(* keywords that the twenty-one schemas use, and the schemas as data.  A     *)
(* schema node is a record with one field per keyword, named as there; "$ref" *)
(* is written out, "pattern" is a set of identifier schemes, or names the    *)
(* pattern of a label or of a reference.  A fault is what is wrong and where. *)
(*                                                                           *)
(* Documents nest at most three deep, so each level has its own operator.    *)
(* Every value has the JSON type its field asks for, except an entry, which  *)
(* is an object or an identifier: what is left of "type" tells those apart.  *)
(***************************************************************************)
EXTENDS Identity

\* Numbers between 0 and 1 are counted in hundredths.
One == 100

\* Texts that no label pattern matches, the empty one among them.
IllFormedTexts == {"", "Press Button"}

AnyValue     == [type |-> "any"]
Text         == [type |-> "string", minLength |-> 0]
NonEmpty     == [type |-> "string", minLength |-> 1]
Label        == [type |-> "string", pattern |-> "label"]
Reference    == [type |-> "string", pattern |-> "reference"]
Boolean      == [type |-> "boolean"]
Number       == [type |-> "number"]
Natural      == [type |-> "number", minimum |-> 0]
UnitInterval == [type |-> "number", minimum |-> 0, maximum |-> One]
Id(schemes)  == [type |-> "identifier", pattern |-> schemes]
Enum(S)      == [enum |-> S]
Array(item, min)    == [type |-> "array", items |-> item, minItems |-> min]
Object(needs, props) == [type |-> "object", required |-> needs, properties |-> props]
OneOf(branches)     == [oneOf |-> branches]

Units == {"instant", "seconds", "minutes", "hours", "days", "weeks", "months", "years", "ticks"}

ContentKinds == Kinds \ {"assertion", "enrichment", "retraction", "succession"}
RecordKinds  == {"assertion", "enrichment", "retraction", "succession"}

Key       == Id({"ed25519"})
Occurrent == Id({"occurrent"})
Claim     == Id({"causal_relation_object"})
Individual == Id({"token_individual"})
Bearer    == Id({"continuant", "token_individual"})
TimeSpan  == Object({"start"}, [start |-> AnyValue, end |-> AnyValue, open |-> Boolean])

Window == Object({"minimum_delay", "maximum_delay", "unit"},
                 [minimum_delay |-> Natural, maximum_delay |-> Natural, unit |-> Enum(Units)])

Delay == Object({"duration", "unit"}, [duration |-> Natural, unit |-> Enum(Units)])

Value == OneOf(<<Object({"quantity", "unit"}, [quantity |-> Number, unit |-> NonEmpty]),
                 Object({"categorical"}, [categorical |-> NonEmpty]),
                 Object({"boolean"}, [boolean |-> Boolean])>>)

Entry == OneOf(<<Object({"lang", "text"}, [lang |-> Text, text |-> NonEmpty]),
                 Id({"occurrent", "continuant"})>>)

RoleFill == Object({"role", "filler"},
  [role |-> Enum({"agent", "patient", "instrument", "recipient", "source", "destination", "medium"}),
   filler |-> Individual])

\* The schema of each kind: its fields but id, type and signature, which all have,
\* and those among them that it does not require.
OccurrentSchema ==
  [fields |-> [label |-> Label, stratum |-> Id({"stratum"}),
              category |-> Enum({"action", "event", "process", "state", "state_change"})],
   optional |-> {"stratum"}]

CausalRelationObjectSchema ==
  [fields |-> [causes |-> Array(Occurrent, 1), effects |-> Array(Occurrent, 1),
              mechanism |-> Array(Claim, 0), temporal |-> Window, context |-> Array(Occurrent, 0),
              modality |-> Enum({"necessary", "sufficient", "contributory", "preventive", "enabling"}),
              refines |-> Claim, skips |-> Boolean],
   optional |-> {"mechanism", "temporal", "modality", "context", "refines", "skips"}]

ContinuantSchema ==
  [fields |-> [label |-> Label,
              category |-> Enum({"object", "agent", "place", "substance", "collection", "information"})],
   optional |-> {}]

RealizableSchema ==
  [fields |-> [kind |-> Enum({"disposition", "function", "role"}),
              bearer |-> Id({"continuant"}), label |-> Label],
   optional |-> {"label"}]

StratumSchema ==
  [fields |-> [label |-> Label, scheme |-> Label, ordinal |-> Number, unit |-> Label,
              governs |-> Array(Label, 0)],
   optional |-> {"unit", "governs"}]

BridgeSchema ==
  [fields |-> [coarse |-> Occurrent, fine |-> Array(Occurrent, 1),
              relation |-> Enum({"constitutes", "aggregates", "realizes", "supervenes_on"})],
   optional |-> {}]

CrossStratalSeamSchema ==
  [fields |-> [source |-> Occurrent, target |-> Occurrent,
              mechanism_status |-> Enum({"unmodeled", "absent"}), chain |-> Array(Occurrent, 1)],
   optional |-> {"chain"}]

PortSchema ==
  [fields |-> [bearer |-> Id({"continuant"}), label |-> Label, accepts |-> Array(Occurrent, 1),
              direction |-> Enum({"in", "out", "bidirectional"}), realizable |-> Id({"realizable"})],
   optional |-> {"realizable"}]

ConduitSchema ==
  [fields |-> [label |-> Label, from |-> Id({"port"}), to |-> Id({"port"}),
              carries |-> Array(Occurrent, 1), transform |-> Claim, realized_by |-> Reference],
   optional |-> {"label", "transform", "realized_by"}]

QualitySchema ==
  [fields |-> [label |-> Label, datatype |-> Enum({"quantity", "categorical", "boolean"}),
              unit |-> Text, stratum |-> Id({"stratum"})],
   optional |-> {"unit", "stratum"}]

TokenIndividualSchema ==
  [fields |-> [instantiates |-> Id({"continuant"}), designator |-> NonEmpty,
              part_of |-> Individual],
   optional |-> {"designator", "part_of"}]

TokenOccurrenceSchema ==
  [fields |-> [instantiates |-> Occurrent, interval |-> TimeSpan,
              participants |-> Array(RoleFill, 0), locus |-> Individual, observer |-> Key],
   optional |-> {"participants", "locus", "observer"}]

StateAssertionSchema ==
  [fields |-> [subject |-> Individual, quality |-> Id({"quality"}), value |-> Value,
              interval |-> TimeSpan],
   optional |-> {}]

TokenCausalClaimSchema ==
  [fields |-> [causes |-> Array(Id({"token_occurrence"}), 1),
              effects |-> Array(Id({"token_occurrence"}), 1), covering_law |-> Claim,
              actual_delay |-> Delay, counterfactual |-> Boolean],
   optional |-> {"covering_law", "actual_delay", "counterfactual"}]

AttitudeSchema ==
  [fields |-> [holder |-> Bearer, content |-> Id(ContentKinds),
              attitude_type |-> Enum({"believes", "desires", "intends", "knows", "expects", "fears"})],
   optional |-> {}]

PredictedOccurrenceSchema ==
  [fields |-> [instantiates |-> Occurrent, predictor |-> Bearer, strength |-> Number,
              interval |-> Object({}, [start |-> AnyValue, end |-> AnyValue, start_tick |-> Natural,
                                     end_tick |-> Natural])],
   optional |-> {"strength"}]

PredictionErrorSchema ==
  [fields |-> [predicted |-> Id({"predicted_occurrence"}),
              observed |-> Id({"token_occurrence"}), discrepancy |-> Number],
   optional |-> {"observed"}]

AssertionSchema ==
  [fields |-> [about |-> Id(ContentKinds), source |-> Key, evidence |-> Text,
              strength |-> UnitInterval, confidence |-> UnitInterval, timestamp |-> AnyValue,
              evidence_type |-> Enum({"intervention", "observation", "simulation", "derivation",
                                      "human_hint", "imported"}),
              evidenced_by |-> Array(Id({"token_occurrence", "token_causal_claim", "state_assertion"}), 0)],
   optional |-> {"evidence", "strength", "evidenced_by"}]

EnrichmentSchema ==
  [fields |-> [about |-> Id({"occurrent", "continuant", "realizable"}),
              field |-> Enum({"aliases", "participants", "subsumes", "part_of", "realized_in",
                              "occurrent_subsumes", "occurrent_part_of"}),
              entry |-> Entry, source |-> Key, timestamp |-> AnyValue],
   optional |-> {}]

RetractionSchema ==
  [fields |-> [retracts |-> Id({"assertion", "enrichment"}), source |-> Key,
              reason |-> Text, timestamp |-> AnyValue],
   optional |-> {"reason"}]

SuccessionSchema ==
  [fields |-> [predecessor |-> Key, successor |-> Key, timestamp |-> AnyValue],
   optional |-> {}]

Schemas == [
  occurrent |-> OccurrentSchema,
  causal_relation_object |-> CausalRelationObjectSchema,
  continuant |-> ContinuantSchema,
  realizable |-> RealizableSchema,
  stratum |-> StratumSchema,
  bridge |-> BridgeSchema,
  cross_stratal_seam |-> CrossStratalSeamSchema,
  port |-> PortSchema,
  conduit |-> ConduitSchema,
  quality |-> QualitySchema,
  token_individual |-> TokenIndividualSchema,
  token_occurrence |-> TokenOccurrenceSchema,
  state_assertion |-> StateAssertionSchema,
  token_causal_claim |-> TokenCausalClaimSchema,
  attitude |-> AttitudeSchema,
  predicted_occurrence |-> PredictedOccurrenceSchema,
  prediction_error |-> PredictionErrorSchema,
  assertion |-> AssertionSchema,
  enrichment |-> EnrichmentSchema,
  retraction |-> RetractionSchema,
  succession |-> SuccessionSchema]

\* The kinds whose schema does not ask for the type.
TypeOptional == {"occurrent", "causal_relation_object", "continuant", "realizable"} \cup RecordKinds

\* The schema of a kind.
SchemaOf(kind) ==
  LET common == IF kind \in RecordKinds THEN {"id", "type", "signature"} ELSE {"id", "type"}
      props  == DOMAIN Schemas[kind].fields
  IN Object({"id"} \cup (props \ Schemas[kind].optional) \cup (IF kind \in TypeOptional THEN {} ELSE {"type"}),
            [f \in props \cup common |->
               CASE f = "id"        -> Id({kind})
                 [] f = "type"      -> Enum({kind})
                 [] f = "signature" -> AnyValue
                 [] OTHER           -> Schemas[kind].fields[f]])

-----------------------------------------------------------------------------
(* The interpreter (checkSchema). *)

IsIdentifier(v) == Has(v, "scheme")

\* A reference is a scheme and a name; a text without a scheme has the scheme "".
\* An identifier is a reference whose scheme the node asks for and whose name is
\* a digest; what is no identifier at all has the wrong type, not a wrong pattern.
Matches(v, s) ==
  CASE s.type = "identifier"     -> IsIdentifier(v) =>
                                      v.scheme \in s.pattern /\ ~Has(v.digest, "malformed")
    [] s.type # "identifier" /\ s.pattern = "reference" -> v.scheme # ""
    [] OTHER                     -> v \notin IllFormedTexts

\* A value that is no object and no array.
ScalarFaults(v, s, path) ==
  {w \in {"type", "enum", "pattern", "minLength", "minimum", "maximum"} :
     CASE w = "type"      -> Has(s, "type") /\ s.type = "identifier" /\ ~IsIdentifier(v)
       [] w = "enum"      -> Has(s, "enum") /\ v \notin s.enum
       [] w = "pattern"   -> Has(s, "pattern") /\ ~Matches(v, s)
       [] w = "minLength" -> Has(s, "minLength") /\ s.minLength > 0 /\ v = ""
       [] w = "minimum"   -> Has(s, "minimum") /\ v < s.minimum
       [] w = "maximum"   -> Has(s, "maximum") /\ v > s.maximum} \X {path}

\* Keys that an object lacks or should not have.
KeyFaults(v, s, path) ==
  {<<"required", path \o <<f>> >> : f \in s.required \ DOMAIN v}
  \cup {<<"additionalProperties", path \o <<f>> >> : f \in DOMAIN v \ DOMAIN s.properties}

IsObjectNode(s) == Has(s, "type") /\ s.type = "object"

FlatFaults(v, s, path) ==
  IF ~IsObjectNode(s) THEN ScalarFaults(v, s, path)
  ELSE IF IsIdentifier(v) THEN {<<"type", path>>}
  ELSE KeyFaults(v, s, path)
       \cup UNION {ScalarFaults(v[f], s.properties[f], path \o <<f>>) : f \in DOMAIN v \cap DOMAIN s.properties}

Branches(v, s) == {i \in DOMAIN s.oneOf : FlatFaults(v, s.oneOf[i], <<>>) = {}}

\* A field of a document.
FieldFaults(v, s, path) ==
  CASE Has(s, "oneOf") -> IF Cardinality(Branches(v, s)) # 1 THEN {<<"oneOf", path>>} ELSE {}
    [] Has(s, "items") ->
         (IF Len(v) < s.minItems THEN {<<"minItems", path>>} ELSE {})
         \cup UNION {FlatFaults(v[i], s.items, path \o <<i>>) : i \in DOMAIN v}
    [] OTHER -> FlatFaults(v, s, path)

SchemaFaults(doc, kind) ==
  LET s == SchemaOf(kind)
  IN KeyFaults(doc, s, <<>>)
     \cup UNION {FieldFaults(doc[f], s.properties[f], <<f>>) : f \in DOMAIN doc \cap DOMAIN s.properties}

ValidateSchema(doc, kind) == SchemaFaults(doc, kind) = {}
=============================================================================
