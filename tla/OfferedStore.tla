------------------------------ MODULE OfferedStore ------------------------------
(***************************************************************************)
(* The in-memory store as a state machine.  A catalogue is what its callers  *)
(* have in hand: content objects, signed records, and whether the store      *)
(* enforces acyclicity at write time.  Everything in it may be written in    *)
(* any order, and again, and records may also arrive by a forced merge from  *)
(* another replica.                                                          *)
(***************************************************************************)
EXTENDS MemoryStore

CONSTANTS Catalogues \* records with the fields docs, recs and enforcing

\* Ordinals and delays are numbers: the part of the JSON types that Schema leaves out.
ASSUME CatalogueAssumption ==
  \A c \in Catalogues :
    /\ c.enforcing \in BOOLEAN
    /\ \A doc \in c.docs :
         /\ Has(doc, "ordinal") => doc.ordinal \in Int
         /\ Has(doc, "temporal") =>
              \A f \in {"minimum_delay", "maximum_delay"} \cap DOMAIN doc.temporal :
                doc.temporal[f] \in Int

\* Enrichments are stored with a timestamp, and their identifiers are in a strict order.
ASSUME OrderAssumption ==
  \A c \in Catalogues : \A rec, other \in c.recs :
    LET r == Completed(rec, KindOr("", rec))
        q == Completed(other, KindOr("", other))
    IN r.type = "enrichment" /\ q.type = "enrichment" =>
         /\ r.timestamp \in Int /\ Rank(r.id) \in Int
         /\ r.id # q.id => Rank(r.id) # Rank(q.id)

VARIABLES offer,     \* the catalogue
          objects,   \* identifier -> content object
          records,   \* provenance records in the order in which they were stored
          quarantine \* identifier -> record whose signature does not verify

vars == <<offer, objects, records, quarantine>>

Init ==
  /\ offer \in Catalogues
  /\ objects = <<>>
  /\ records = <<>>
  /\ quarantine = <<>>

PutObject(doc) ==
  /\ objects' = Put(objects, doc, KindOr("", doc))
  /\ UNCHANGED <<offer, records, quarantine>>

WriteRecord(rec, gated) ==
  LET kind == KindOr("", rec) IN
  /\ records' = Write(records, rec, kind, gated)
  /\ quarantine' = Quarantined(quarantine, records, rec, kind, gated)
  /\ UNCHANGED <<offer, objects>>

PutRecord(rec) == WriteRecord(rec, offer.enforcing)

ForceMergeRecord(rec) == WriteRecord(rec, FALSE)

Next ==
  \/ \E doc \in offer.docs : PutObject(doc)
  \/ \E rec \in offer.recs : PutRecord(rec)
  \/ \E rec \in offer.recs : ForceMergeRecord(rec)

Spec == Init /\ [][Next]_vars

-----------------------------------------------------------------------------
\* What the store holds is what its gates let through: objects under their own
\* identifiers that meet the schema and the semantic rules of their kind, records
\* under distinct identifiers whose signatures verify.
TypeOK ==
  /\ \A id \in DOMAIN objects :
       /\ objects[id].id = id
       /\ objects[id].type \in ContentKinds
       /\ SchemaFaults(objects[id], objects[id].type) = {}
       /\ SemanticFaults(objects[id], objects[id].type) = {}
  /\ \A i, j \in DOMAIN records : records[i].id = records[j].id => i = j
  /\ \A i \in DOMAIN records : VerifyRecord(records[i], records[i].type)

-----------------------------------------------------------------------------
(* Claims. *)

\* Delays worth looking at: the ends of the windows held, in the smallest units.
Delays ==
  LET timed == {c \in Claims(objects) : Has(objects[c], "temporal")}
      ends  == {Earliest(objects[c].temporal) : c \in timed} \cup {Latest(objects[c].temporal) : c \in timed}
  IN {[duration |-> n, unit |-> u] : n \in ends, u \in {"seconds", "ticks"}}

\* Two windows overlap exactly when some delay lies within both: one that is a
\* single instant at which they touch counts, one measured in ticks never lies in
\* a wall-clock window, and no window held is empty.
OverlapIsACommonDelay ==
  \A c, d \in {e \in Claims(objects) : Has(objects[e], "temporal")} :
    WindowOverlap(objects[c], objects[d]) <=>
      \E delay \in Delays : /\ DelayWithinWindow(delay, objects[c].temporal)
                            /\ DelayWithinWindow(delay, objects[d].temporal)

\* Two claims are rivals whichever of them was stored first, for the gap listing asks
\* about each pair once; and a valid refinement is no rival of its parent, whatever the
\* fields it specifies.
RivalryIsSound ==
  \A c, d \in Claims(objects) :
    /\ Conflicts(objects[c], objects[d]) <=> Conflicts(objects[d], objects[c])
    /\ RefinementValid(objects[c], objects[d]) => ~Conflicts(objects[c], objects[d])

Completes(c) == {"temporal", "modality"} \subseteq DOMAIN objects[c]

RefinementEdges ==
  {e \in Claims(objects) \X Claims(objects) : RefinementValid(objects[e[2]], objects[e[1]])}

\* A missing field is never lost sight of: a claim that a refinement took off the list
\* has, some refinements on, a claim that supplies the fields or that is on the list
\* itself.
NoGapIsLost ==
  \A p \in Refined(objects) :
    \E c \in Reachable(RefinementEdges, {p}) \ Refined(objects) :
      Completes(c) \/ \E g \in MissingFieldGaps(objects) : g.id = c

\* An invitation to supply something stands until a write supplies it: it goes away
\* only in a step that stores a valid refinement of the claim, and what is refined
\* stays refined.
GapsCloseOnlyByWork ==
  [][/\ \A g \in MissingFieldGaps(objects) \cup EmptyMechanismGaps(objects) :
          g \notin MissingFieldGaps(objects') \cup EmptyMechanismGaps(objects') =>
            \E c \in Claims(objects') \ Claims(objects) :
              RefinementValid(objects'[c], objects[g.id])
     /\ Refined(objects) \subseteq Refined(objects')]_vars

-----------------------------------------------------------------------------
(* Strata, bridges and hierarchies. *)

HeldOf(objs, kind) == {objs[id] : id \in {o \in DOMAIN objs : objs[o].type = kind}}

\* The bridges that are well-formed over what is held lead strictly downwards, so no
\* occurrent is, some bridges on, made of itself.
BridgesDescend ==
  ~HasCycle(BridgeEdges({b \in HeldOf(objects, "bridge") :
                           b.coarse \in DOMAIN objects /\ BridgeWellformed(b, objects, objects)}))

\* Every end of a claim and its stratum are held.
Grounded(objs, cro) ==
  \A o \in Members(cro, "causes") \cup Members(cro, "effects") :
    Stratified(objs, o) /\ objs[o].stratum \in DOMAIN objs

Hierarchy(objs, id) == HierarchyConsistent(objs[id], objs, HeldOf(objs, "bridge"))

TokensHeld(objs, claim) ==
  Members(claim, "causes") \cup Members(claim, "effects") \subseteq DOMAIN objs

\* What was once decided on all the facts stands, whatever is written later: the class
\* of a claim whose ends and strata are held, the consistency of a mechanism with its
\* parent, and whether a token claim runs against time.
VerdictsStand ==
  [][/\ \A c \in Claims(objects) :
          /\ Grounded(objects, objects[c]) =>
               ClassifyCRO(objects'[c], objects', objects') = ClassifyCRO(objects[c], objects, objects)
          /\ Hierarchy(objects, c) = "consistent" => Hierarchy(objects', c) = "consistent"
     /\ \A t \in {id \in DOMAIN objects : objects[id].type = "token_causal_claim"} :
          TokensHeld(objects, objects[t]) =>
            Retrocausal(objects'[t], objects') = Retrocausal(objects[t], objects)]_vars

-----------------------------------------------------------------------------
(* Records and views. *)

Successions ==
  {[from |-> records[i].predecessor, to |-> records[i].successor] : i \in RecordsOf(records, "succession")}

\* No key has two successors or two predecessors.
NoRivalSuccessions == \A s, t \in Successions : (s.from = t.from) <=> (s.to = t.to)

\* Without rival successions a lineage is what the successions connect, in either
\* direction and however far: which key one starts from makes no difference to who
\* may retract.
LineageIsWhatSuccessionsConnect ==
  NoRivalSuccessions =>
    LET E == {<<s.from, s.to>> : s \in Successions} \cup {<<s.to, s.from>> : s \in Successions}
    IN \A key \in Ends(E) : Lineage(records, key) = Reachable(E, {key})

\* What is withdrawn is withdrawn by those entitled to it: a retraction that found its
\* target in the store is by a key that the successions, all of those held now, connect
\* with the key that made the target.  Retractions may be merged before the successions
\* that entitle them, then they are refused; what was let in is never disowned later.
RetractionsHaveAuthority ==
  NoRivalSuccessions =>
    \A j \in RecordsOf(records, "retraction") : \A i \in 1 .. j - 1 :
      records[i].id = records[j].retracts =>
        records[j].source \in Lineage(records, SourceOf(records[i]))

Hierarchies == {"subsumes", "part_of"}

Concepts(field, out) ==
  LET E == Edges(records, field)
  IN {<<E[i].about, E[i].entry>> : i \in {j \in DOMAIN E : E[j].id \notin out}}

\* The search of the write gate and of the view finds a cycle whenever the graph has
\* one, in whatever order its records were stored, and only then.
SearchFindsEveryCycle ==
  \A field \in Hierarchies :
    FindCycle(Edges(records, field)) # {} <=> HasCycle(Concepts(field, {}))

\* The enrichments on offer, as the gate sees them.
Proposed == {Completed(rec, "enrichment") : rec \in {r \in offer.recs : KindOr("", r) = "enrichment"}}

\* In a taxonomy without a cycle the gate refuses a record exactly when the record
\* itself closes one: what it leads to leads back to what it is about.
GateBlamesTheCulprit ==
  \A new \in {r \in Proposed : r.field \in Hierarchies} :
    LET E == Concepts(new.field, {})
    IN ~HasCycle(E) => (WouldCycle(records, new) <=> new.about \in Reachable(E, {new.entry}))

\* A write to an enforcing store brings no cycle into a taxonomy that has none; only a
\* forced merge does, and a retraction never uncovers one.
WritesCloseNoCycle ==
  [][offer.enforcing /\ (\E rec \in offer.recs : PutRecord(rec)) =>
       \A field \in Hierarchies : HasCycle(Concepts(field, {}))' => HasCycle(Concepts(field, {}))]_vars

\* The taxonomy that the default view shows has no cycle, however many came in by
\* forced merges, and each record kept from it is on the repair list.
ShownTaxonomyIsAcyclic ==
  \A field \in Hierarchies :
    /\ ~HasCycle(Concepts(field, CycleBroken(records)))
    /\ \A id \in ExcludedEdges(records, field) : \E g \in HierarchyGaps(records) : g.id = id

Texts == {r.entry.text : r \in {q \in offer.recs : q.type = "enrichment" /\ IsAlias(q.entry)}}

ShownAliases(id) ==
  LET view == Materialized(records, id, "default")
  IN IF Has(view, "aliases") THEN {slot.entry : slot \in view.aliases} ELSE {}

\* A text leads to an object by an alias exactly when the default view of the object
\* shows that alias, in that language, and its label did not lead there already.
ResolveAgreesWithGet ==
  \A text \in Texts, lang \in {"", "en", "ja"} : \A id \in Named(objects) :
    id \in Resolve(objects, records, text, lang).alias <=>
      /\ objects[id].label # CanonLabel(text)
      /\ \E alias \in ShownAliases(id) : lang \in {"", alias.lang} /\ NormAlias(alias.text) = NormAlias(text)

\* The same records in another order: the last is the first.
Backwards(recs) == [i \in DOMAIN recs |-> recs[Len(recs) + 1 - i]]

\* Replicas that hold the same records show the same, in whatever order the records
\* reached them, a retraction ahead of its target too: while the taxonomies have no
\* cycle, Get and Resolve answer from what is stored and from nothing else, but for
\* the order in which they list it.
ViewsForgetOrder ==
  (\A field \in Hierarchies : ~HasCycle(Concepts(field, {}))) =>
    /\ \A id \in {r.about : r \in Proposed}, view \in {"default", "history"} :
         Materialized(records, id, view) = Materialized(Backwards(records), id, view)
    /\ \A text \in Texts, lang \in {"", "en", "ja"} :
         Resolve(objects, records, text, lang) = Resolve(objects, Backwards(records), text, lang)
=============================================================================
