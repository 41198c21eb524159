----------------------------- MODULE MemoryStore -----------------------------
(***************************************************************************)
(* The in-memory store of the Go SDK (store.go): immutable content objects,  *)
(* signed add-only records, quarantine, and the views that are computed from *)
(* them at every read.  Each operation is an operator on what the store      *)
(* holds, objs (identifier -> object) and recs (the records in the order in  *)
(* which they were stored); OfferedStore is the store as a state machine.    *)
(*                                                                           *)
(* The order of objects only orders the answers, so answers are sets here;   *)
(* the order of records decides lineages and which cycle is found.           *)
(***************************************************************************)
EXTENDS Semantics, Schema

CONSTANTS Rank(_),       \* the sort order of identifiers
          CanonLabel(_), \* free text as a label: lower case, words joined by "_"
          NormAlias(_)   \* free text as an alias: lower case, words joined by " "

KindOr(kind, doc) == IF kind = "" THEN InferKind(doc) ELSE kind

\* A document as it will be stored: with its type and its identifier.
Completed(doc, kind) ==
  LET typed == IF Has(doc, "type") THEN doc ELSE With(doc, "type", kind)
  IN IF Has(typed, "id") THEN typed ELSE With(typed, "id", Identify(typed, kind))

-----------------------------------------------------------------------------
(* Writing a content object. *)

\* Why an object is refused, or "" when it is stored or was there already.
PutRefusal(objs, doc, kind) ==
  LET obj == Completed(doc, kind) IN
  CASE kind \notin ContentKinds -> "not a content object"
    [] kind \in ContentKinds /\ obj.id \notin DOMAIN objs /\ SchemaFaults(obj, kind) # {} -> "schema"
    [] /\ kind \in ContentKinds /\ obj.id \notin DOMAIN objs
       /\ SchemaFaults(obj, kind) = {} /\ SemanticFaults(obj, kind) # {} -> "semantics"
    [] OTHER -> ""

\* Variant: the semantic rules of the kind are not asked.
PutUnchecked(objs, doc, kind) ==
  IF \/ PutRefusal(objs, doc, kind) \notin {"", "semantics"}
     \/ Completed(doc, kind).id \in DOMAIN objs THEN objs
  ELSE With(objs, Completed(doc, kind).id, Completed(doc, kind))

\* Variant: a second write under an identifier replaces the first.
PutOver(objs, doc, kind) ==
  IF PutRefusal(objs, doc, kind) # "" THEN objs
  ELSE With(objs, Completed(doc, kind).id, Completed(doc, kind))

Put(objs, doc, kind) ==
  IF PutRefusal(objs, doc, kind) # "" \/ Completed(doc, kind).id \in DOMAIN objs THEN objs
  ELSE With(objs, Completed(doc, kind).id, Completed(doc, kind))

-----------------------------------------------------------------------------
(* Records and who may retract them. *)

\* The positions of the records of a kind.
RecordsOf(recs, kind) == {i \in DOMAIN recs : recs[i].type = kind}

RecordIds(recs) == {recs[i].id : i \in DOMAIN recs}

RecordAt(recs, id) == recs[CHOOSE i \in DOMAIN recs : recs[i].id = id]

\* Variant: a retraction counts for what was stored before it.
RetractedSince(recs) ==
  {recs[i].retracts : i \in {j \in RecordsOf(recs, "retraction") :
                               \E k \in 1 .. j - 1 : recs[k].id = recs[j].retracts}}

Retracted(recs) == {recs[i].retracts : i \in RecordsOf(recs, "retraction")}

\* The keys that the successions lead to from key: of rival successions the one
\* stored last counts.  There is at most one such key.
NextKeys(recs, key, from, to) ==
  LET hits == {i \in RecordsOf(recs, "succession") : recs[i][from] = key}
  IN {recs[i][to] : i \in {j \in hits : \A k \in hits : k <= j}}

\* To the next key, unless there is none or it is in the chain already.
WalkStep(recs, s, from, to) ==
  LET next == NextKeys(recs, s.at, from, to) \ s.chain
  IN IF next = {} THEN s ELSE [at |-> CHOOSE k \in next : TRUE, chain |-> s.chain \cup next]

\* From key on, as far as it goes.
Walk(recs, key, chain, from, to) ==
  LET walk[n \in 0 .. Len(recs)] ==
        IF n = 0 THEN [at |-> key, chain |-> chain] ELSE WalkStep(recs, walk[n - 1], from, to)
  IN walk[Len(recs)].chain

\* Variant: the chain is followed to later keys only.
LineageForward(recs, key) == Walk(recs, key, {key}, "predecessor", "successor")

Lineage(recs, key) ==
  Walk(recs, key, Walk(recs, key, {key}, "successor", "predecessor"), "predecessor", "successor")

SourceOf(rec) == IF Has(rec, "source") THEN rec.source ELSE KeyId("")

\* Variant: the retracting key is looked for in its own lineage.
RetractionSourceOwn(recs, rec) ==
  rec.retracts \in RecordIds(recs) => rec.source \in Lineage(recs, SourceOf(rec))

RetractionSourceOk(recs, rec) ==
  rec.retracts \in RecordIds(recs) =>
    rec.source \in Lineage(recs, SourceOf(RecordAt(recs, rec.retracts)))

-----------------------------------------------------------------------------
(***************************************************************************)
(* The taxonomy graph of a field: its records that are not retracted, each   *)
(* under its position in the store.  The depth-first search follows them in  *)
(* the order in which they were stored; what it takes for a cycle is its     *)
(* whole path, up to and including the record that leads back to it.         *)
(***************************************************************************)
Edges(recs, field) ==
  [i \in {j \in RecordsOf(recs, "enrichment") :
          recs[j].field = field /\ recs[j].id \notin Retracted(recs)} |-> recs[i]]

FirstOf(S) == CHOOSE i \in S : \A j \in S : i <= j

Grey(E, s) == s.root \cup {E[i].entry : i \in {s.path[j] : j \in DOMAIN s.path}}

TopOf(E, s) == IF s.path = <<>> THEN s.root ELSE {E[s.path[Len(s.path)]].entry}

\* Variant: the search begins at one concept and at no other.
SearchStepOneRoot(E, s) ==
  LET untried == {i \in DOMAIN E : E[i].about \in TopOf(E, s)} \ s.tried
      i       == FirstOf(untried)
  IN CASE s.found # {} \/ (s.root = {} /\ (s.black # {} \/ DOMAIN E = {})) -> s
       [] s.found = {} /\ s.root = {} /\ s.black = {} /\ DOMAIN E # {}
            -> [s EXCEPT !.root = {E[FirstOf(DOMAIN E)].about}]
       [] s.found = {} /\ s.root # {} /\ untried = {} ->
            [s EXCEPT !.black = @ \cup TopOf(E, s),
                      !.root  = IF s.path = <<>> THEN {} ELSE @,
                      !.path  = IF @ = <<>> THEN @ ELSE SubSeq(@, 1, Len(@) - 1)]
       [] OTHER ->
            [s EXCEPT !.tried = @ \cup {i},
                      !.path  = IF E[i].entry \in Grey(E, s) \cup s.black THEN @ ELSE Append(@, i),
                      !.found = IF E[i].entry \in Grey(E, s)
                                THEN {s.path[j] : j \in DOMAIN s.path} \cup {i} ELSE @]

\* One step of the search: begin at a concept, follow a record, or leave.
SearchStep(E, s) ==
  LET fresh   == {i \in DOMAIN E : E[i].about \notin s.black}
      untried == {i \in DOMAIN E : E[i].about \in TopOf(E, s)} \ s.tried
      i       == FirstOf(untried)
  IN CASE s.found # {} \/ (s.root = {} /\ fresh = {}) -> s
       [] s.found = {} /\ s.root = {} /\ fresh # {} -> [s EXCEPT !.root = {E[FirstOf(fresh)].about}]
       [] s.found = {} /\ s.root # {} /\ untried = {} ->
            [s EXCEPT !.black = @ \cup TopOf(E, s),
                      !.root  = IF s.path = <<>> THEN {} ELSE @,
                      !.path  = IF @ = <<>> THEN @ ELSE SubSeq(@, 1, Len(@) - 1)]
       [] OTHER ->
            [s EXCEPT !.tried = @ \cup {i},
                      !.path  = IF E[i].entry \in Grey(E, s) \cup s.black THEN @ ELSE Append(@, i),
                      !.found = IF E[i].entry \in Grey(E, s)
                                THEN {s.path[j] : j \in DOMAIN s.path} \cup {i} ELSE @]

SearchStart == [root |-> {}, path |-> <<>>, tried |-> {}, black |-> {}, found |-> {}]

\* More steps than any search has.
SearchSteps(E) == 5 * Cardinality(DOMAIN E) + 1

\* The positions in E of the records of the first cycle found, if there is one.
FindCycle(E) ==
  LET search[n \in 0 .. SearchSteps(E)] ==
        IF n = 0 THEN SearchStart ELSE SearchStep(E, search[n - 1])
  IN search[SearchSteps(E)].found

\* Variant: the search is over what is stored, without the record.
WouldCycleStored(recs, rec) == FindCycle(Edges(recs, rec.field)) # {}

\* Variant: a record that was retracted still counts.
WouldCycleEver(recs, rec) ==
  FindCycle(With([i \in {j \in RecordsOf(recs, "enrichment") : recs[j].field = rec.field} |-> recs[i]],
                 Len(recs) + 1, rec)) # {}

WouldCycle(recs, rec) == FindCycle(With(Edges(recs, rec.field), Len(recs) + 1, rec)) # {}

Later(r, q) == \/ r.timestamp > q.timestamp
               \/ r.timestamp = q.timestamp /\ Rank(r.id) > Rank(q.id)

\* What is left of the records E without those in out.
Rest(E, out) == [i \in {j \in DOMAIN E : E[j].id \notin out} |-> E[i]]

\* The latest record of the first cycle found, if there is one.
LatestInCycle(E) ==
  LET C == FindCycle(E) IN {E[i].id : i \in {j \in C : \A k \in C \ {j} : Later(E[j], E[k])}}

\* Variant: the latest record of one cycle is excluded.
ExcludedOnce(recs, field) == LatestInCycle(Edges(recs, field))

\* While there is a cycle, its latest record is excluded.
ExcludedEdges(recs, field) ==
  LET E == Edges(recs, field)
      out[n \in 0 .. Cardinality(DOMAIN E)] ==
        IF n = 0 THEN {} ELSE out[n - 1] \cup LatestInCycle(Rest(E, out[n - 1]))
  IN out[Cardinality(DOMAIN E)]

-----------------------------------------------------------------------------
(* Writing a record. *)

\* Why a record is refused, or "" when it is stored or was there already.  The
\* schema of a record is not looked at.
WriteRefusal(recs, rec, kind, gated) ==
  LET new == kind \in RecordKinds /\ rec.id \notin RecordIds(recs)
      signed == VerifyRecord(rec, kind)
      sound  == SemanticFaults(rec, kind) = {}
  IN CASE kind \notin RecordKinds -> "not a record"
       [] new /\ ~signed -> "quarantined"
       [] new /\ signed /\ ~sound -> "semantics"
       [] /\ new /\ signed /\ sound /\ kind = "retraction"
          /\ ~RetractionSourceOk(recs, rec) -> "foreign retraction"
       [] /\ new /\ signed /\ sound /\ kind = "enrichment" /\ gated
          /\ rec.field \in {"subsumes", "part_of"} /\ WouldCycle(recs, rec) -> "cycle"
       [] OTHER -> ""

\* gated: the store is enforcing and this is not a forced merge.
Write(recs, doc, kind, gated) ==
  LET rec == Completed(doc, kind)
  IN IF WriteRefusal(recs, rec, kind, gated) # "" \/ rec.id \in RecordIds(recs) THEN recs
     ELSE Append(recs, rec)

Quarantined(quarantine, recs, doc, kind, gated) ==
  LET rec == Completed(doc, kind)
  IN IF WriteRefusal(recs, rec, kind, gated) = "quarantined" THEN With(quarantine, rec.id, rec)
     ELSE quarantine

-----------------------------------------------------------------------------
(* Reading.  Retractions and cycles are taken into account at every read. *)

About(recs, kind, id) == {r \in {recs[i] : i \in DOMAIN recs} : r.type = kind /\ r.about = id}

\* What is said about an identifier, with or without what was retracted.
AssertionsAbout(recs, id, withRetracted) ==
  {IF r.id \in Retracted(recs) THEN With(r, "retracted", TRUE) ELSE r :
     r \in {q \in About(recs, "assertion", id) : withRetracted \/ q.id \notin Retracted(recs)}}

EnrichmentsAbout(recs, id, withRetracted) ==
  {r \in About(recs, "enrichment", id) : withRetracted \/ r.id \notin Retracted(recs)}

CycleBroken(recs) == ExcludedEdges(recs, "subsumes") \cup ExcludedEdges(recs, "part_of")

\* The records that a view shows for an object.
Shown(recs, id, view) ==
  {r \in EnrichmentsAbout(recs, id, view = "history") :
     view = "history" \/ r.id \notin CycleBroken(recs)}

\* The entries of each field, with who contributed them.
Materialized(recs, id, view) ==
  [f \in {r.field : r \in Shown(recs, id, view)} |->
     {[entry |-> e,
       contributors |-> {[source |-> r.source, timestamp |-> r.timestamp] :
                           r \in {q \in Shown(recs, id, view) : q.field = f /\ q.entry = e}}] :
        e \in {r.entry : r \in {q \in Shown(recs, id, view) : q.field = f}}}]

Get(objs, recs, id, view) ==
  IF id \notin DOMAIN objs THEN <<>>
  ELSE IF view = "raw" THEN [object |-> objs[id]]
  ELSE [object |-> objs[id], enrichments |-> Materialized(recs, id, view)]

\* Variant: a retracted alias still answers to its text.
HasAliasEver(recs, id, text, lang) ==
  \E r \in EnrichmentsAbout(recs, id, TRUE) :
    /\ r.field = "aliases"
    /\ IsAlias(r.entry)
    /\ lang \in {"", r.entry.lang}
    /\ NormAlias(r.entry.text) = NormAlias(text)

\* Any language will do when lang is "".
HasAlias(recs, id, text, lang) ==
  \E r \in EnrichmentsAbout(recs, id, FALSE) :
    /\ r.field = "aliases"
    /\ IsAlias(r.entry)
    /\ lang \in {"", r.entry.lang}
    /\ NormAlias(r.entry.text) = NormAlias(text)

Named(objs) == {id \in DOMAIN objs : objs[id].type \in {"occurrent", "continuant"}}

\* The hits by label rank before the hits by alias.
Resolve(objs, recs, text, lang) ==
  LET byLabel == {id \in Named(objs) : objs[id].label = CanonLabel(text)}
  IN [label |-> byLabel,
      alias |-> {id \in Named(objs) \ byLabel : HasAlias(recs, id, text, lang)}]

-----------------------------------------------------------------------------
(* The gaps: what the store invites others to supply. *)

Claims(objs) == {id \in DOMAIN objs : objs[id].type = "causal_relation_object"}

\* Variant: whatever names a parent in refines takes it off the list.
RefinedByName(objs) == {objs[c].refines : c \in {d \in Claims(objs) : Has(objs[d], "refines")}}

\* The claims that a valid refinement in the store has closed.
Refined(objs) ==
  {p \in Claims(objs) : \E c \in Claims(objs) : RefinementValid(objs[c], objs[p])}

MissingFieldGaps(objs) ==
  {[kind |-> "missing_field", id |-> c, missing |-> MissingFields(objs[c])] :
     c \in {d \in Claims(objs) : ~({"temporal", "modality"} \subseteq DOMAIN objs[d])} \ Refined(objs)}

EmptyMechanismGaps(objs) ==
  {[kind |-> "empty_mechanism", id |-> c] :
     c \in {d \in Claims(objs) : ~MechanismPresent(objs[d])} \ Refined(objs)}

HierarchyGaps(recs) == {[kind |-> "inconsistent_hierarchy", id |-> r] : r \in CycleBroken(recs)}

Single(doc, f) == IF Has(doc, f) THEN {doc[f]} ELSE {}

\* What the store looks for: not every field that names another document.
References(obj) ==
  CASE obj.type = "causal_relation_object" ->
         UNION {Members(obj, f) : f \in {"causes", "effects", "context", "mechanism"}}
         \cup Single(obj, "refines")
    [] obj.type = "realizable" -> Single(obj, "bearer")
    [] OTHER -> {}

DanglingGaps(objs) ==
  UNION {{[kind |-> "dangling_reference", id |-> o, ref |-> r] :
            r \in References(objs[o]) \ DOMAIN objs} : o \in DOMAIN objs}

\* A pair of rivals is listed once.
ConflictGaps(objs) ==
  {[kind |-> "conflict", pair |-> {p[1], p[2]}] :
     p \in {q \in Claims(objs) \X Claims(objs) : q[1] # q[2] /\ Conflicts(objs[q[1]], objs[q[2]])}}

Gaps(objs, recs) ==
  MissingFieldGaps(objs) \cup EmptyMechanismGaps(objs) \cup HierarchyGaps(recs)
  \cup DanglingGaps(objs) \cup ConflictGaps(objs)

GapsOf(objs, recs, kind) == {g \in Gaps(objs, recs) : g.kind = kind}
=============================================================================
