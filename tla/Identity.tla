------------------------------- MODULE Identity -------------------------------
(***************************************************************************)
(* Documents of the Go SDK and their identity.  A document is a JSON object, *)
(* here a record with the fields that it has; a JSON array of strings is a   *)
(* sequence.  The identifier of a document is its kind and the digest of its *)
(* identity-bearing fields; SHA-256 over the RFC 8785 form is modelled by    *)
(* those fields themselves, so two documents share a digest exactly when     *)
(* they agree on them.  A name in a digest stands for a document of which    *)
(* nothing but the identifier is known, or for a public key.                 *)
(***************************************************************************)
EXTENDS Integers, Sequences, FiniteSets

Has(doc, f) == f \in DOMAIN doc

\* The members of an array field, none when the field is absent.
Members(doc, f) == IF Has(doc, f) THEN {doc[f][i] : i \in DOMAIN doc[f]} ELSE {}

IdentityFields == [
  occurrent              |-> {"label", "category", "stratum"},
  causal_relation_object |-> {"causes", "effects", "mechanism", "temporal", "modality",
                              "context", "refines", "skips"},
  continuant             |-> {"label", "category"},
  realizable             |-> {"kind", "bearer", "label"},
  stratum                |-> {"label", "scheme", "ordinal", "unit", "governs"},
  bridge                 |-> {"coarse", "fine", "relation"},
  cross_stratal_seam     |-> {"source", "target", "mechanism_status", "chain"},
  port                   |-> {"bearer", "label", "direction", "accepts", "realizable"},
  conduit                |-> {"label", "from", "to", "carries", "transform", "realized_by"},
  quality                |-> {"label", "datatype", "unit", "stratum"},
  token_individual       |-> {"instantiates", "designator", "part_of"},
  token_occurrence       |-> {"instantiates", "interval", "participants", "locus", "observer"},
  state_assertion        |-> {"subject", "quality", "value", "interval"},
  token_causal_claim     |-> {"causes", "effects", "covering_law", "actual_delay",
                              "counterfactual"},
  attitude               |-> {"holder", "attitude_type", "content"},
  predicted_occurrence   |-> {"instantiates", "interval", "predictor", "strength"},
  prediction_error       |-> {"predicted", "observed", "discrepancy"},
  assertion              |-> {"about", "source", "evidence_type", "evidence", "strength",
                              "confidence", "timestamp", "evidenced_by"},
  enrichment             |-> {"about", "field", "entry", "source", "timestamp"},
  retraction             |-> {"retracts", "source", "timestamp"},
  succession             |-> {"predecessor", "successor", "timestamp"}]

Kinds == DOMAIN IdentityFields

\* An identifier without its digest: the kind its scheme names, or no kind.
KindOfID(id) == IF id.scheme \in Kinds THEN id.scheme ELSE ""

\* The fields by which the kind of an untyped document is told, in order.
Shapes == <<
  [fields |-> {"coarse", "fine"},           kind |-> "bridge"],
  [fields |-> {"causes", "effects"},        kind |-> "causal_relation_object"],
  [fields |-> {"retracts"},                 kind |-> "retraction"],
  [fields |-> {"predecessor", "successor"}, kind |-> "succession"],
  [fields |-> {"field", "entry"},           kind |-> "enrichment"],
  [fields |-> {"evidence_type"},            kind |-> "assertion"],
  [fields |-> {"about", "confidence"},      kind |-> "assertion"],
  [fields |-> {"kind", "bearer"},           kind |-> "realizable"]>>

KindOfShape(doc) ==
  LET fits == {i \in DOMAIN Shapes : Shapes[i].fields \subseteq DOMAIN doc}
  IN IF fits = {} THEN "" ELSE Shapes[CHOOSE i \in fits : \A j \in fits : i <= j].kind

\* "" when the kind cannot be told.
InferKind(doc) ==
  CASE Has(doc, "type") -> doc.type
    [] ~Has(doc, "type") /\ Has(doc, "id") /\ KindOfID(doc.id) # "" -> KindOfID(doc.id)
    [] OTHER -> KindOfShape(doc)

IdentityBearing(doc, kind) ==
  [f \in {"type"} \cup (IdentityFields[kind] \cap DOMAIN doc) |->
     IF f = "type" THEN kind ELSE doc[f]]

Identify(doc, kind) == [scheme |-> kind, digest |-> IdentityBearing(doc, kind)]

With(doc, f, v) == [g \in DOMAIN doc \cup {f} |-> IF g = f THEN v ELSE doc[g]]

Without(doc, f) == [g \in DOMAIN doc \ {f} |-> doc[g]]

-----------------------------------------------------------------------------
(***************************************************************************)
(* Signatures.  A key is known by its public half; the signature of a record *)
(* names the key that made it and the identity-bearing fields it covers.     *)
(***************************************************************************)
KeyId(name) == [scheme |-> "ed25519", digest |-> [name |-> name]]

SignRecord(rec, key, kind) ==
  LET body == Without(rec, "signature")
  IN With(With(body, "id", Identify(body, kind)), "signature",
          [by |-> key, over |-> IdentityBearing(body, kind)])

\* The field that names the key a record must verify against.
SignerField(kind) == IF kind = "succession" THEN "predecessor" ELSE "source"

VerifyRecord(rec, kind) ==
  /\ Has(rec, "signature")
  /\ Has(rec, SignerField(kind))
  /\ rec[SignerField(kind)].scheme = "ed25519"
  /\ rec.signature = [by   |-> rec[SignerField(kind)],
                      over |-> IdentityBearing(Without(rec, "signature"), kind)]

-----------------------------------------------------------------------------
(***************************************************************************)
(* Number literals, digits * 10^exponent, written with a point or exponent   *)
(* or as an integer.  A literal of at most MaxDigits digits is far from the  *)
(* precision of a float64, which reads it exactly enough to print it back.   *)
(***************************************************************************)
MaxDigits == 9

\* The powers of ten that divide d.
Zeros(d) == {j \in 0 .. MaxDigits : d % (10 ^ j) = 0}

DigitCount(d) == CHOOSE k \in 1 .. MaxDigits : d < 10 ^ k /\ (k > 1 => d >= 10 ^ (k - 1))

\* The digits without the zeros at their end, and the exponent that goes with them.
Shortest(lit) ==
  LET z == CHOOSE j \in Zeros(lit.digits) : \A i \in Zeros(lit.digits) : i <= j
  IN [digits |-> lit.digits \div (10 ^ z), exponent |-> lit.exponent + z]

\* The notation of a float: n is where the point stands, from the first digit.
FloatNotation(s) ==
  LET n == s.exponent + DigitCount(s.digits)
  IN CASE s.exponent >= 0 /\ n <= 21 -> "integer"
       [] s.exponent < 0 /\ n > 0    -> "point"
       [] n \in -3 .. 0              -> "small"
       [] OTHER                      -> "exponent"

\* An integer literal is kept as it is written, every other one is printed anew;
\* a float zero loses its sign.
JcsNumber(lit) ==
  IF lit.digits = 0
  THEN [negative |-> lit.integer /\ lit.negative, digits |-> 0, exponent |-> 0,
        notation |-> "integer"]
  ELSE [negative |-> lit.negative,
        digits   |-> Shortest(lit).digits,
        exponent |-> Shortest(lit).exponent,
        notation |-> IF lit.integer THEN "integer" ELSE FloatNotation(Shortest(lit))]
=============================================================================
