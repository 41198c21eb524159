--------------------------- MODULE OfferedStoreProofs ---------------------------
(***************************************************************************)
(* Theorems about the in-memory store, for any catalogues: any documents,    *)
(* any records, in any order of writing.                                     *)
(***************************************************************************)
EXTENDS OfferedStore, MemoryStoreProofs

-----------------------------------------------------------------------------
(* Writing. *)

\* One map has all that the other has.
Extends(f, g) == DOMAIN f \subseteq DOMAIN g /\ \A x \in DOMAIN f : g[x] = f[x]

\* The first write under an identifier stands: Put only adds.
LEMMA PutExtends ==
  ASSUME NEW objs, NEW doc, NEW kind
  PROVE  Extends(objs, Put(objs, doc, kind))
BY DEF Put, With, Extends

LEMMA CompletedType ==
  ASSUME NEW doc
  PROVE  Completed(doc, KindOr("", doc)).type = KindOr("", doc)
<1> DEFINE kind == KindOr("", doc)
           typed == IF Has(doc, "type") THEN doc ELSE With(doc, "type", kind)
<1>1. Has(typed, "type") /\ typed.type = kind
  <2>1. CASE Has(doc, "type")
    BY <2>1 DEF KindOr, InferKind
  <2>2. CASE ~Has(doc, "type")
    BY <2>2 DEF With, Has
  <2>3. QED
    BY <2>1, <2>2
<1>2. Completed(doc, kind) = IF Has(typed, "id") THEN typed ELSE With(typed, "id", Identify(typed, kind))
  BY DEF Completed
<1> HIDE DEF typed, kind
<1>3. Completed(doc, kind).type = kind
  <2>1. CASE Has(typed, "id")
    BY <1>1, <1>2, <2>1
  <2>2. CASE ~Has(typed, "id")
    BY <1>1, <1>2, <2>2 DEF With, Has
  <2>3. QED
    BY <2>1, <2>2
<1>4. QED
  BY <1>3 DEF kind

\* What Put adds has passed the gates of its kind.
LEMMA PutAdds ==
  ASSUME NEW objs, NEW doc, NEW id \in DOMAIN Put(objs, doc, KindOr("", doc)), id \notin DOMAIN objs
  PROVE  LET obj == Put(objs, doc, KindOr("", doc))[id] IN
         /\ obj.id = id
         /\ obj.type \in ContentKinds
         /\ SchemaFaults(obj, obj.type) = {}
         /\ SemanticFaults(obj, obj.type) = {}
<1> DEFINE kind == KindOr("", doc)
           new  == Completed(doc, kind)
<1>1. new.type = kind
  BY CompletedType
<1> HIDE DEF kind, new
<1>2. Put(objs, doc, kind) = IF PutRefusal(objs, doc, kind) # "" \/ new.id \in DOMAIN objs THEN objs
                             ELSE With(objs, new.id, new)
  BY DEF Put, new
<1>3. /\ PutRefusal(objs, doc, kind) = ""
      /\ new.id \notin DOMAIN objs
      /\ Put(objs, doc, kind) = With(objs, new.id, new)
      /\ id \in DOMAIN Put(objs, doc, kind)
  BY <1>2 DEF kind
<1>4. id = new.id /\ Put(objs, doc, kind)[id] = new
  BY <1>3 DEF With
<1>5. kind \in ContentKinds /\ SchemaFaults(new, kind) = {} /\ SemanticFaults(new, kind) = {}
  BY <1>3 DEF PutRefusal, new
<1>6. QED
  BY <1>1, <1>4, <1>5 DEF kind

\* What a catalogue's records are stored as.
Writable == {Completed(rec, KindOr("", rec)) : rec \in offer.recs}

\* Write appends a record that verifies under an identifier of its own, or nothing.
LEMMA WriteAppends ==
  ASSUME NEW recs, NEW rec, NEW gated \in BOOLEAN
  PROVE  LET kind == KindOr("", rec)
             new  == Completed(rec, kind)
         IN \/ Write(recs, rec, kind, gated) = recs
            \/ /\ Write(recs, rec, kind, gated) = Append(recs, new)
               /\ new.id \notin RecordIds(recs)
               /\ VerifyRecord(new, new.type)
<1> DEFINE kind == KindOr("", rec)
           new  == Completed(rec, kind)
<1>1. new.type = kind
  BY CompletedType
<1> HIDE DEF kind, new
<1>2. \/ Write(recs, rec, kind, gated) = recs
      \/ /\ Write(recs, rec, kind, gated) = Append(recs, new)
         /\ WriteRefusal(recs, new, kind, gated) = ""
         /\ new.id \notin RecordIds(recs)
  BY DEF Write, new
<1>3. WriteRefusal(recs, new, kind, gated) = "" /\ new.id \notin RecordIds(recs)
        => VerifyRecord(new, kind)
  BY DEF WriteRefusal
<1>4. QED
  BY <1>1, <1>2, <1>3 DEF kind, new

-----------------------------------------------------------------------------
(* Type correctness. *)

ObjectsOK == \A id \in DOMAIN objects :
               /\ objects[id].id = id
               /\ objects[id].type \in ContentKinds
               /\ SchemaFaults(objects[id], objects[id].type) = {}
               /\ SemanticFaults(objects[id], objects[id].type) = {}

RecordsOK == /\ records \in Seq(Writable)
             /\ \A i, j \in DOMAIN records : records[i].id = records[j].id => i = j
             /\ \A i \in DOMAIN records : VerifyRecord(records[i], records[i].type)

LEMMA WriteKeepsRecordsOK ==
  ASSUME RecordsOK, NEW rec \in offer.recs, NEW gated \in BOOLEAN, WriteRecord(rec, gated)
  PROVE  RecordsOK'
<1> DEFINE kind == KindOr("", rec)
           new  == Completed(rec, kind)
<1>1. records' = Write(records, rec, kind, gated) /\ offer' = offer
  BY DEF WriteRecord
<1>2. Writable' = Writable
  BY <1>1 DEF Writable
<1>3. CASE records' = records
  BY <1>2, <1>3 DEF RecordsOK
<1>4. CASE /\ records' = Append(records, new)
           /\ new.id \notin RecordIds(records)
           /\ VerifyRecord(new, new.type)
  <2>1. new \in Writable
    BY DEF Writable
  <2> HIDE DEF new
  <2>2. records \in Seq(Writable)
    BY DEF RecordsOK
  <2>3. /\ records' \in Seq(Writable)
        /\ DOMAIN records' = 1 .. Len(records) + 1
        /\ DOMAIN records = 1 .. Len(records)
        /\ Len(records) \in Nat
        /\ \A i \in DOMAIN records : records'[i] = records[i]
        /\ records'[Len(records) + 1] = new
    BY <1>4, <2>1, <2>2
  <2>4. \A i \in DOMAIN records : records[i].id # new.id
    BY <1>4 DEF RecordIds
  <2>5. ASSUME NEW i \in DOMAIN records', NEW j \in DOMAIN records', records'[i].id = records'[j].id
        PROVE  i = j
    <3>1. i \in DOMAIN records \/ i = Len(records) + 1
      BY <2>3
    <3>2. j \in DOMAIN records \/ j = Len(records) + 1
      BY <2>3
    <3>3. QED
      BY <2>3, <2>4, <2>5, <3>1, <3>2 DEF RecordsOK
  <2>6. ASSUME NEW i \in DOMAIN records'
        PROVE  VerifyRecord(records'[i], records'[i].type)
    <3>1. i \in DOMAIN records \/ i = Len(records) + 1
      BY <2>3
    <3>2. QED
      BY <1>4, <2>3, <3>1 DEF RecordsOK
  <2>7. QED
    BY <1>2, <2>3, <2>5, <2>6 DEF RecordsOK
<1>5. QED
  BY <1>1, <1>3, <1>4, WriteAppends

StoreInv == ObjectsOK /\ RecordsOK

LEMMA InitStoreInv == Init => StoreInv
BY DEF Init, StoreInv, ObjectsOK, RecordsOK

\* Every step but PutObject leaves the objects alone; PutObject only adds.
LEMMA ObjectsExtend == [Next]_vars => Extends(objects, objects')
<1> SUFFICES ASSUME [Next]_vars
             PROVE  Extends(objects, objects')
  OBVIOUS
<1>1. CASE UNCHANGED vars
  BY <1>1 DEF vars, Extends
<1>2. ASSUME NEW doc \in offer.docs, PutObject(doc)
      PROVE  Extends(objects, objects')
  BY <1>2, PutExtends DEF PutObject
<1>3. ASSUME NEW rec \in offer.recs, NEW gated, WriteRecord(rec, gated)
      PROVE  Extends(objects, objects')
  BY <1>3 DEF WriteRecord, Extends
<1>4. QED
  BY <1>1, <1>2, <1>3 DEF Next, PutRecord, ForceMergeRecord

LEMMA NextStoreInv == StoreInv /\ offer \in Catalogues /\ [Next]_vars => StoreInv'
<1> SUFFICES ASSUME StoreInv, offer \in Catalogues, [Next]_vars
             PROVE  StoreInv'
  OBVIOUS
<1>1. CASE UNCHANGED vars
  BY <1>1 DEF StoreInv, ObjectsOK, RecordsOK, Writable, vars
<1>2. ASSUME NEW doc \in offer.docs, PutObject(doc)
      PROVE  StoreInv'
  <2>1. /\ objects' = Put(objects, doc, KindOr("", doc))
        /\ UNCHANGED <<offer, records>>
    BY <1>2 DEF PutObject
  <2>2. RecordsOK'
    BY <2>1 DEF StoreInv, RecordsOK, Writable
  <2>3. ObjectsOK'
    <3> SUFFICES ASSUME NEW id \in DOMAIN objects'
                 PROVE  /\ objects'[id].id = id
                        /\ objects'[id].type \in ContentKinds
                        /\ SchemaFaults(objects'[id], objects'[id].type) = {}
                        /\ SemanticFaults(objects'[id], objects'[id].type) = {}
      BY DEF ObjectsOK
    <3>1. CASE id \in DOMAIN objects
      <4>1. Extends(objects, objects')
        BY <2>1, PutExtends
      <4>2. objects'[id] = objects[id]
        BY <3>1, <4>1 DEF Extends
      <4>3. QED
        BY <3>1, <4>2 DEF StoreInv, ObjectsOK
    <3>2. CASE id \notin DOMAIN objects
      <4> DEFINE objs == Put(objects, doc, KindOr("", doc))
      <4>1. objects' = objs /\ id \in DOMAIN objs
        BY <2>1
      <4>2. /\ objs[id].id = id
            /\ objs[id].type \in ContentKinds
            /\ SchemaFaults(objs[id], objs[id].type) = {}
            /\ SemanticFaults(objs[id], objs[id].type) = {}
        BY <3>2, <4>1, PutAdds
      <4> HIDE DEF objs
      <4>3. QED
        BY <4>1, <4>2
    <3>3. QED
      BY <3>1, <3>2
  <2>4. QED
    BY <2>2, <2>3 DEF StoreInv
<1>3. ASSUME NEW rec \in offer.recs, NEW gated \in BOOLEAN, WriteRecord(rec, gated)
      PROVE  StoreInv'
  <2>1. RecordsOK'
    BY <1>3, WriteKeepsRecordsOK DEF StoreInv
  <2>2. ObjectsOK'
    BY <1>3 DEF WriteRecord, StoreInv, ObjectsOK
  <2>3. QED
    BY <2>1, <2>2 DEF StoreInv
<1>4. QED
  BY <1>1, <1>2, <1>3, CatalogueAssumption DEF Next, PutRecord, ForceMergeRecord

\* What the store holds has passed its gates, and no two records share an identifier:
\* put and writeRecord of store.go, after any sequence of writes.
THEOREM TypeCorrect == Spec => []TypeOK
<1> DEFINE Inv == StoreInv /\ offer \in Catalogues
<1>1. Init => Inv
  BY InitStoreInv DEF Init
<1>2. Inv /\ [Next]_vars => Inv'
  <2>1. [Next]_vars => offer' = offer
    BY DEF Next, PutObject, PutRecord, ForceMergeRecord, WriteRecord, vars
  <2>2. QED
    BY <2>1, NextStoreInv
<1>3. Inv => TypeOK
  BY DEF StoreInv, ObjectsOK, RecordsOK, TypeOK
<1>4. QED
  BY <1>1, <1>2, <1>3, PTL DEF Spec

-----------------------------------------------------------------------------
(* Claims. *)

\* Rivalry does not depend on the order in which two claims were stored, and no valid
\* refinement in any store is a rival of its parent.
THEOREM RivalriesAreSound == Spec => []RivalryIsSound
<1>1. RivalryIsSound
  BY ConflictsAreMutual, RefinementsAreNoRivals DEF RivalryIsSound
<1>2. QED
  BY <1>1, PTL

\* From a claim that was taken off the list, refinements lead to one that specifies the
\* most; nothing refines that one, so it supplies the fields or is on the list.
LEMMA RefinementsEnd ==
  ASSUME NEW p \in Refined(objects)
  PROVE  \E c \in Reachable(RefinementEdges, {p}) \ Refined(objects) : c \in Claims(objects)
<1> DEFINE R == Reachable(RefinementEdges, {p}) \cap Claims(objects)
           details == {Detail(objects[c]) : c \in R}
<1>1. p \in R
  BY ReachableContains DEF Refined
<1>2. details \in SUBSET (0 .. 4) /\ details # {}
  BY <1>1, DetailType
<1>3. PICK c \in R : \A d \in R : Detail(objects[d]) <= Detail(objects[c])
  <2>1. PICK most \in details : \A j \in details : j <= most
    BY <1>2, SomeMostDetailed
  <2>2. QED
    BY <2>1
<1>4. ASSUME c \in Refined(objects)
      PROVE  FALSE
  <2>1. PICK d \in Claims(objects) : RefinementValid(objects[d], objects[c])
    BY <1>4 DEF Refined
  <2>2. <<c, d>> \in RefinementEdges
    BY <2>1 DEF RefinementEdges
  <2>3. d \in R
    BY <2>1, <2>2, ReachableClosed
  <2>4. Detail(objects[c]) < Detail(objects[d])
    BY <2>1, RefinementsGainDetail
  <2>5. Detail(objects[d]) <= Detail(objects[c])
    BY <1>3, <2>3
  <2>6. QED
    BY <2>4, <2>5, DetailType
<1>5. QED
  BY <1>4

\* Gaps of store.go loses no missing field to a refinement that does not supply
\* it: the invitation has moved to a claim further on.
THEOREM NoGapLost == Spec => []NoGapIsLost
<1>1. NoGapIsLost
  <2> SUFFICES ASSUME NEW p \in Refined(objects)
               PROVE  \E c \in Reachable(RefinementEdges, {p}) \ Refined(objects) :
                        Completes(c) \/ \E g \in MissingFieldGaps(objects) : g.id = c
    BY DEF NoGapIsLost
  <2>1. PICK c \in Reachable(RefinementEdges, {p}) \ Refined(objects) : c \in Claims(objects)
    BY RefinementsEnd
  <2>2. CASE ~Completes(c)
    <3> DEFINE g == [kind |-> "missing_field", id |-> c, missing |-> MissingFields(objects[c])]
    <3>1. g \in MissingFieldGaps(objects)
      BY <2>1, <2>2 DEF MissingFieldGaps, Completes
    <3>2. QED
      BY <2>1, <3>1
  <2>3. QED
    BY <2>1, <2>2
<1>2. QED
  BY <1>1, PTL

LEMMA ClaimsExtend ==
  ASSUME NEW objs, NEW more, Extends(objs, more)
  PROVE  /\ Claims(objs) \subseteq Claims(more)
         /\ \A c \in Claims(objs) : more[c] = objs[c]
BY DEF Extends, Claims

LEMMA RefinedExtends ==
  ASSUME NEW objs, NEW more, Extends(objs, more)
  PROVE  Refined(objs) \subseteq Refined(more)
<1> SUFFICES ASSUME NEW p \in Refined(objs)
             PROVE  p \in Refined(more)
  OBVIOUS
<1>1. PICK c \in Claims(objs) : RefinementValid(objs[c], objs[p])
  BY DEF Refined
<1>2. p \in Claims(objs)
  BY DEF Refined
<1>3. QED
  BY <1>1, <1>2, ClaimsExtend DEF Refined

\* A gap is about a claim that nothing refines, and only that claim decides whether
\* it is one.
LEMMA GapsAreOfClaims ==
  ASSUME NEW objs, NEW more, Extends(objs, more),
         NEW g \in MissingFieldGaps(objs) \cup EmptyMechanismGaps(objs)
  PROVE  /\ g.id \in Claims(objs) \ Refined(objs)
         /\ g.id \notin Refined(more)
              => g \in MissingFieldGaps(more) \cup EmptyMechanismGaps(more)
<1>1. CASE g \in MissingFieldGaps(objs)
  <2>1. PICK c \in {d \in Claims(objs) : ~({"temporal", "modality"} \subseteq DOMAIN objs[d])}
                   \ Refined(objs) :
             g = [kind |-> "missing_field", id |-> c, missing |-> MissingFields(objs[c])]
    BY <1>1 DEF MissingFieldGaps
  <2>2. g.id = c /\ c \in Claims(more) /\ more[c] = objs[c]
    BY <2>1, ClaimsExtend
  <2>3. c \notin Refined(more) => g \in MissingFieldGaps(more)
    BY <2>1, <2>2 DEF MissingFieldGaps
  <2>4. QED
    BY <2>1, <2>2, <2>3
<1>2. CASE g \in EmptyMechanismGaps(objs)
  <2>1. PICK c \in {d \in Claims(objs) : ~MechanismPresent(objs[d])} \ Refined(objs) :
             g = [kind |-> "empty_mechanism", id |-> c]
    BY <1>2 DEF EmptyMechanismGaps
  <2>2. g.id = c /\ c \in Claims(more) /\ more[c] = objs[c]
    BY <2>1, ClaimsExtend
  <2>3. c \notin Refined(more) => g \in EmptyMechanismGaps(more)
    BY <2>1, <2>2 DEF EmptyMechanismGaps
  <2>4. QED
    BY <2>1, <2>2, <2>3
<1>3. QED
  BY <1>1, <1>2

LEMMA NewlyRefined ==
  ASSUME NEW objs, NEW more, Extends(objs, more), NEW p \in Claims(objs) \ Refined(objs),
         p \in Refined(more)
  PROVE  \E c \in Claims(more) \ Claims(objs) : RefinementValid(more[c], objs[p])
<1>1. more[p] = objs[p]
  BY ClaimsExtend
<1>2. PICK c \in Claims(more) : RefinementValid(more[c], more[p])
  BY DEF Refined
<1>3. ASSUME c \in Claims(objs)
      PROVE  FALSE
  <2>1. RefinementValid(objs[c], objs[p])
    BY <1>1, <1>2, <1>3, ClaimsExtend
  <2>2. QED
    BY <1>3, <2>1 DEF Refined
<1>4. QED
  BY <1>1, <1>2, <1>3

\* An invitation is only withdrawn by a write that supplies a valid refinement.
THEOREM GapsCloseByWork == Spec => GapsCloseOnlyByWork
<1> DEFINE A == /\ \A g \in MissingFieldGaps(objects) \cup EmptyMechanismGaps(objects) :
                     g \notin MissingFieldGaps(objects') \cup EmptyMechanismGaps(objects') =>
                       \E c \in Claims(objects') \ Claims(objects) :
                         RefinementValid(objects'[c], objects[g.id])
                /\ Refined(objects) \subseteq Refined(objects')
<1>1. ASSUME Extends(objects, objects')
      PROVE  A
  <2>1. Refined(objects) \subseteq Refined(objects')
    BY <1>1, RefinedExtends
  <2>2. ASSUME NEW g \in MissingFieldGaps(objects) \cup EmptyMechanismGaps(objects),
               g \notin MissingFieldGaps(objects') \cup EmptyMechanismGaps(objects')
        PROVE  \E c \in Claims(objects') \ Claims(objects) :
                 RefinementValid(objects'[c], objects[g.id])
    <3>1. g.id \in Claims(objects) \ Refined(objects) /\ g.id \in Refined(objects')
      BY <1>1, <2>2, GapsAreOfClaims
    <3>2. QED
      BY <1>1, <3>1, NewlyRefined
  <2>3. QED
    BY <2>1, <2>2
<1>2. [Next]_vars => [A]_vars
  BY <1>1, ObjectsExtend
<1>3. QED
  BY <1>2, PTL DEF Spec, GapsCloseOnlyByWork

-----------------------------------------------------------------------------
(* Verdicts over a store that only grows. *)

\* The class of a claim is decided by its ends and their strata alone.
LEMMA ClassStands ==
  ASSUME NEW objs, NEW more, Extends(objs, more), NEW cro, Grounded(objs, cro)
  PROVE  ClassifyCRO(cro, more, more) = ClassifyCRO(cro, objs, objs)
<1> DEFINE O == Members(cro, "causes") \cup Members(cro, "effects")
<1>1. \A o \in O : /\ o \in DOMAIN objs /\ o \in DOMAIN more /\ more[o] = objs[o]
                   /\ Stratified(objs, o) /\ Stratified(more, o)
                   /\ objs[o].stratum \in DOMAIN objs
  BY DEF Grounded, Extends, Stratified
<1>2. AllStratified(cro, objs) /\ AllStratified(cro, more)
  BY <1>1 DEF AllStratified
<1>3. ASSUME NEW f \in {"causes", "effects"}
      PROVE  /\ StrataOf(cro, f, more) = StrataOf(cro, f, objs)
             /\ StrataOf(cro, f, objs) \subseteq DOMAIN objs
  <2>1. Members(cro, f) \subseteq O
    BY <1>3
  <2> HIDE DEF O
  <2>2. QED
    BY <1>1, <2>1 DEF StrataOf
<1>4. \A s \in DOMAIN objs : /\ SchemeOf(more, s) = SchemeOf(objs, s)
                             /\ OrdinalOf(more, s) = OrdinalOf(objs, s)
  BY DEF Extends, SchemeOf, OrdinalOf
<1>5. OneScheme(cro, more, more) <=> OneScheme(cro, objs, objs)
  <2>1. \A s \in StrataOf(cro, "causes", objs) \cup StrataOf(cro, "effects", objs) :
          SchemeOf(more, s) = SchemeOf(objs, s)
    BY <1>3, <1>4
  <2>2. QED
    BY <1>3, <2>1 DEF OneScheme
<1>6. ASSUME NEW f \in {"causes", "effects"}
      PROVE  OrdinalsOf(cro, f, more, more) = OrdinalsOf(cro, f, objs, objs)
  BY <1>3, <1>4 DEF OrdinalsOf
<1>7. QED
  BY <1>2, <1>5, <1>6 DEF ClassifyCRO

\* Bridges that are stored later connect more and disconnect nothing.
LEMMA ConsistencyStands ==
  ASSUME NEW objs, NEW more, Extends(objs, more), NEW parent,
         HierarchyConsistent(parent, objs, HeldOf(objs, "bridge")) = "consistent"
  PROVE  HierarchyConsistent(parent, more, HeldOf(more, "bridge")) = "consistent"
<1> DEFINE B  == HeldOf(objs, "bridge")
           B2 == HeldOf(more, "bridge")
           M  == MechanismEdges(parent, objs)
<1>1. CASE ~MechanismPresent(parent)
  BY <1>1 DEF HierarchyConsistent
<1>2. CASE MechanismPresent(parent)
  <2>1. /\ Members(parent, "mechanism") \subseteq DOMAIN objs
        /\ \A c \in Members(parent, "causes"), e \in Members(parent, "effects") : Connected(M, c, e, B)
    BY <1>2 DEF HierarchyConsistent
  <2>2. Members(parent, "mechanism") \subseteq DOMAIN more
    BY <2>1 DEF Extends
  <2>3. MechanismEdges(parent, more) = M
    <3>1. \A m \in Members(parent, "mechanism") : more[m] = objs[m]
      BY <2>1 DEF Extends
    <3>2. QED
      BY <3>1 DEF MechanismEdges
  <2>4. BridgeEdges(B) \subseteq BridgeEdges(B2)
    <3>1. B \subseteq B2
      BY DEF HeldOf, Extends
    <3> HIDE DEF B, B2
    <3>2. QED
      BY <3>1 DEF BridgeEdges
  <2>5. ASSUME NEW c \in Members(parent, "causes"), NEW e \in Members(parent, "effects")
        PROVE  Connected(M, c, e, B2)
    <3>1. \A o : BridgeClosure(o, B) \subseteq BridgeClosure(o, B2)
      BY <2>4, ReachableGrows DEF BridgeClosure
    <3>2. Reachable(M, BridgeClosure(c, B)) \subseteq Reachable(M, BridgeClosure(c, B2))
      BY <3>1, ReachableGrows
    <3>3. Reachable(M, BridgeClosure(c, B)) \cap BridgeClosure(e, B) # {}
      BY <2>1 DEF Connected
    <3> HIDE DEF M, B, B2
    <3>4. QED
      BY <3>1, <3>2, <3>3 DEF Connected
  <2>6. QED
    BY <1>2, <2>2, <2>3, <2>5 DEF HierarchyConsistent
<1>3. QED
  BY <1>1, <1>2

LEMMA DirectionStands ==
  ASSUME NEW objs, NEW more, Extends(objs, more), NEW claim, TokensHeld(objs, claim)
  PROVE  Retrocausal(claim, more) = Retrocausal(claim, objs)
<1>1. \A t \in Members(claim, "causes") \cup Members(claim, "effects") :
        StartOf(more, t) = StartOf(objs, t)
  BY DEF TokensHeld, Extends, StartOf
<1>2. QED
  BY <1>1 DEF Retrocausal

\* What classification, hierarchy and time order say of a claim on all the facts is not
\* revised by any later write: the first write under an identifier stands.
THEOREM VerdictsAreFinal == Spec => VerdictsStand
<1> DEFINE A == /\ \A c \in Claims(objects) :
                     /\ Grounded(objects, objects[c]) =>
                          ClassifyCRO(objects'[c], objects', objects')
                            = ClassifyCRO(objects[c], objects, objects)
                     /\ Hierarchy(objects, c) = "consistent" => Hierarchy(objects', c) = "consistent"
                /\ \A t \in {id \in DOMAIN objects : objects[id].type = "token_causal_claim"} :
                     TokensHeld(objects, objects[t]) =>
                       Retrocausal(objects'[t], objects') = Retrocausal(objects[t], objects)
<1>1. ASSUME Extends(objects, objects')
      PROVE  A
  <2>1. \A id \in DOMAIN objects : objects'[id] = objects[id]
    BY <1>1 DEF Extends
  <2>2. ASSUME NEW c \in Claims(objects), Grounded(objects, objects[c])
        PROVE  ClassifyCRO(objects'[c], objects', objects') = ClassifyCRO(objects[c], objects, objects)
    BY <1>1, <2>1, <2>2, ClassStands DEF Claims
  <2>3. ASSUME NEW c \in Claims(objects), Hierarchy(objects, c) = "consistent"
        PROVE  Hierarchy(objects', c) = "consistent"
    BY <1>1, <2>1, <2>3, ConsistencyStands DEF Claims, Hierarchy
  <2>4. ASSUME NEW t \in DOMAIN objects, TokensHeld(objects, objects[t])
        PROVE  Retrocausal(objects'[t], objects') = Retrocausal(objects[t], objects)
    BY <1>1, <2>1, <2>4, DirectionStands
  <2>5. QED
    BY <2>2, <2>3, <2>4
<1>2. [Next]_vars => [A]_vars
  BY <1>1, ObjectsExtend
<1>3. QED
  BY <1>2, PTL DEF Spec, VerdictsStand
-----------------------------------------------------------------------------
(***************************************************************************)
(* What the schema gate guarantees of the documents held: the fields that a  *)
(* schema requires are there, an identifier is of a kind that it allows, and *)
(* so an object under the identifier of a stratum is a stratum.              *)
(***************************************************************************)
LEMMA FieldsFit ==
  ASSUME NEW doc, NEW kind, SchemaFaults(doc, kind) = {},
         NEW f \in DOMAIN Schemas[kind].fields, f \notin {"id", "type", "signature"}
  PROVE  /\ f \notin Schemas[kind].optional => Has(doc, f)
         /\ Has(doc, f) => FieldFaults(doc[f], Schemas[kind].fields[f], <<f>>) = {}
<1> DEFINE s == SchemaOf(kind)
<1>1. /\ f \in DOMAIN s.properties
      /\ s.properties[f] = Schemas[kind].fields[f]
      /\ f \notin Schemas[kind].optional => f \in s.required
  BY DEF SchemaOf, Object
<1> HIDE DEF s
<1>2. /\ KeyFaults(doc, s, <<>>) = {}
      /\ UNION {FieldFaults(doc[g], s.properties[g], <<g>>) : g \in DOMAIN doc \cap DOMAIN s.properties} = {}
  BY DEF SchemaFaults, s
<1>3. f \notin Schemas[kind].optional => Has(doc, f)
  <2>1. {<<"required", <<>> \o <<g>> >> : g \in s.required \ DOMAIN doc} = {}
    BY <1>2 DEF KeyFaults
  <2>2. s.required \ DOMAIN doc = {}
    BY <2>1
  <2>3. QED
    BY <1>1, <2>2 DEF Has
<1>4. ASSUME Has(doc, f)
      PROVE  FieldFaults(doc[f], s.properties[f], <<f>>) = {}
  <2>1. f \in DOMAIN doc \cap DOMAIN s.properties
    BY <1>1, <1>4 DEF Has
  <2>2. QED
    BY <1>2, <2>1
<1>5. QED
  BY <1>1, <1>3, <1>4

\* A field whose schema asks for an identifier of some kinds holds one.
LEMMA IdentifierFits ==
  ASSUME NEW v, NEW schemes, NEW path, FieldFaults(v, Id(schemes), path) = {}
  PROVE  IsIdentifier(v) /\ v.scheme \in schemes
<1> DEFINE s == Id(schemes)
<1>1. /\ ~Has(s, "oneOf") /\ ~Has(s, "items") /\ ~IsObjectNode(s)
      /\ Has(s, "type") /\ s.type = "identifier" /\ Has(s, "pattern") /\ s.pattern = schemes
  BY DEF Id, Has, IsObjectNode
<1> HIDE DEF s
<1>2. ScalarFaults(v, s, path) = {}
  BY <1>1 DEF FieldFaults, FlatFaults, s
<1>3. <<"type", path>> \notin ScalarFaults(v, s, path) /\ <<"pattern", path>> \notin ScalarFaults(v, s, path)
  BY <1>2
<1>4. ~(Has(s, "type") /\ s.type = "identifier" /\ ~IsIdentifier(v))
  BY <1>3 DEF ScalarFaults
<1>5. ~(Has(s, "pattern") /\ ~Matches(v, s))
  BY <1>3 DEF ScalarFaults
<1>6. Matches(v, s)
  BY <1>1, <1>5
<1>7. IsIdentifier(v)
  BY <1>1, <1>4
<1>8. v.scheme \in s.pattern
  BY <1>1, <1>6, <1>7 DEF Matches
<1>9. QED
  BY <1>1, <1>7, <1>8

LEMMA ItemsFit ==
  ASSUME NEW v, NEW schemes, NEW least, NEW path,
         FieldFaults(v, Array(Id(schemes), least), path) = {}, NEW i \in DOMAIN v
  PROVE  IsIdentifier(v[i]) /\ v[i].scheme \in schemes
<1> DEFINE s == Array(Id(schemes), least)
<1>1. ~Has(s, "oneOf") /\ Has(s, "items") /\ s.items = Id(schemes)
  BY DEF Array, Has
<1> HIDE DEF s
<1>2. UNION {FlatFaults(v[j], s.items, path \o <<j>>) : j \in DOMAIN v} = {}
  BY <1>1 DEF FieldFaults, s
<1>3. FlatFaults(v[i], Id(schemes), path \o <<i>>) = {}
  BY <1>1, <1>2
<1>4. ~Has(Id(schemes), "oneOf") /\ ~Has(Id(schemes), "items")
  BY DEF Id, Has
<1>5. FieldFaults(v[i], Id(schemes), path \o <<i>>) = {}
  BY <1>3, <1>4 DEF FieldFaults
<1>6. QED
  BY <1>5, IdentifierFits

LEMMA IdFits ==
  ASSUME NEW doc, NEW kind, SchemaFaults(doc, kind) = {}
  PROVE  IsIdentifier(doc.id) /\ doc.id.scheme = kind
<1> DEFINE s == SchemaOf(kind)
<1>1. /\ "id" \in DOMAIN s.properties
      /\ s.properties["id"] = Id({kind})
      /\ "id" \in s.required
  BY DEF SchemaOf, Object
<1> HIDE DEF s
<1>2. /\ KeyFaults(doc, s, <<>>) = {}
      /\ UNION {FieldFaults(doc[g], s.properties[g], <<g>>) : g \in DOMAIN doc \cap DOMAIN s.properties} = {}
  BY DEF SchemaFaults, s
<1>3. "id" \in DOMAIN doc
  <2>1. {<<"required", <<>> \o <<g>> >> : g \in s.required \ DOMAIN doc} = {}
    BY <1>2 DEF KeyFaults
  <2>2. s.required \ DOMAIN doc = {}
    BY <2>1
  <2>3. QED
    BY <1>1, <2>2
<1>4. FieldFaults(doc["id"], s.properties["id"], <<"id">>) = {}
  BY <1>1, <1>2, <1>3
<1>5. QED
  BY <1>1, <1>4, IdentifierFits

\* What is written is finite, and its ordinals and delays are numbers.
HasNumbers(doc) ==
  /\ Has(doc, "ordinal") => doc.ordinal \in Int
  /\ Has(doc, "temporal") =>
       \A f \in {"minimum_delay", "maximum_delay"} \cap DOMAIN doc.temporal : doc.temporal[f] \in Int

HeldInv ==
  /\ IsFiniteSet(DOMAIN objects)
  /\ \A id \in DOMAIN objects : HasNumbers(objects[id])

LEMMA CompletedHasNumbers ==
  ASSUME NEW doc, NEW kind, HasNumbers(doc)
  PROVE  HasNumbers(Completed(doc, kind))
<1>1. ASSUME NEW d, HasNumbers(d), NEW f \in {"type", "id"}, NEW v
      PROVE  HasNumbers(With(d, f, v))
  BY <1>1 DEF HasNumbers, With, Has
<1>2. QED
  BY <1>1 DEF Completed

LEMMA PutKeepsHeld ==
  ASSUME HeldInv, NEW doc, HasNumbers(doc), PutObject(doc)
  PROVE  HeldInv'
<1> DEFINE kind == KindOr("", doc)
           new  == Completed(doc, kind)
<1>1. objects' = objects \/ objects' = With(objects, new.id, new)
  BY DEF PutObject, Put
<1>2. HasNumbers(new)
  BY CompletedHasNumbers
<1> HIDE DEF new
<1>3. CASE objects' = objects
  BY <1>3 DEF HeldInv
<1>4. CASE objects' = With(objects, new.id, new)
  <2>1. /\ DOMAIN objects' = DOMAIN objects \cup {new.id}
        /\ \A id \in DOMAIN objects' : objects'[id] = IF id = new.id THEN new ELSE objects[id]
    BY <1>4 DEF With
  <2>2. IsFiniteSet(DOMAIN objects')
    BY <2>1, FS_AddElement DEF HeldInv
  <2>3. \A id \in DOMAIN objects' : HasNumbers(objects'[id])
    BY <1>2, <2>1 DEF HeldInv
  <2>4. QED
    BY <2>2, <2>3 DEF HeldInv
<1>5. QED
  BY <1>1, <1>3, <1>4

FullInv == StoreInv /\ HeldInv /\ offer \in Catalogues

LEMMA FullInvariant == Spec => []FullInv
<1>1. Init => FullInv
  <2>1. Init => HeldInv
    BY FS_EmptySet DEF Init, HeldInv
  <2>2. QED
    BY <2>1, InitStoreInv DEF Init, FullInv
<1>2. FullInv /\ [Next]_vars => FullInv'
  <2> SUFFICES ASSUME FullInv, [Next]_vars
               PROVE  FullInv'
    OBVIOUS
  <2>1. offer' = offer
    BY DEF Next, PutObject, PutRecord, ForceMergeRecord, WriteRecord, vars
  <2>2. ASSUME NEW doc \in offer.docs, PutObject(doc)
        PROVE  HeldInv'
    <3>1. HasNumbers(doc)
      BY CatalogueAssumption DEF FullInv, HasNumbers
    <3>2. QED
      BY <2>2, <3>1, PutKeepsHeld DEF FullInv
  <2>3. ASSUME objects' = objects
        PROVE  HeldInv'
    BY <2>3 DEF FullInv, HeldInv
  <2>4. HeldInv'
    BY <2>2, <2>3 DEF Next, PutRecord, ForceMergeRecord, WriteRecord, vars
  <2>5. QED
    BY <2>1, <2>4, NextStoreInv DEF FullInv
<1>3. QED
  BY <1>1, <1>2, PTL DEF Spec

-----------------------------------------------------------------------------
(* Bridges lead downwards. *)

\* An object is of the kind that its identifier names.
LEMMA HeldKind ==
  ASSUME ObjectsOK, NEW id \in DOMAIN objects
  PROVE  objects[id].type = id.scheme
BY IdFits DEF ObjectsOK

LEMMA OrdinalsAreNumbers ==
  ASSUME ObjectsOK, HeldInv, NEW s, s.scheme = "stratum"
  PROVE  OrdinalOf(objects, s) \in Int
<1> SUFFICES ASSUME s \in DOMAIN objects
             PROVE  objects[s].ordinal \in Int
  BY DEF OrdinalOf
<1>1. objects[s].type = "stratum" /\ SchemaFaults(objects[s], "stratum") = {}
  BY HeldKind DEF ObjectsOK
<1>2. /\ Schemas["stratum"] = StratumSchema
      /\ "ordinal" \in DOMAIN StratumSchema.fields
      /\ "ordinal" \notin StratumSchema.optional
  BY DEF Schemas, StratumSchema
<1>3. Has(objects[s], "ordinal")
  BY <1>1, <1>2, FieldsFit
<1>4. QED
  BY <1>3 DEF HeldInv, HasNumbers

LEMMA StrataOfOccurrents ==
  ASSUME ObjectsOK, NEW o \in DOMAIN objects, o.scheme = "occurrent", Has(objects[o], "stratum")
  PROVE  objects[o].stratum.scheme = "stratum"
<1>1. objects[o].type = "occurrent" /\ SchemaFaults(objects[o], "occurrent") = {}
  BY HeldKind DEF ObjectsOK
<1>2. /\ Schemas["occurrent"] = OccurrentSchema
      /\ "stratum" \in DOMAIN OccurrentSchema.fields
      /\ OccurrentSchema.fields["stratum"] = Id({"stratum"})
  BY DEF Schemas, OccurrentSchema
<1>3. FieldFaults(objects[o]["stratum"], Id({"stratum"}), <<"stratum">>) = {}
  BY <1>1, <1>2, FieldsFit
<1>4. QED
  BY <1>3, IdentifierFits

LEMMA BridgesJoinOccurrents ==
  ASSUME ObjectsOK, NEW b \in HeldOf(objects, "bridge")
  PROVE  b.coarse.scheme = "occurrent" /\ \A f \in Members(b, "fine") : f.scheme = "occurrent"
<1>1. SchemaFaults(b, "bridge") = {}
  BY DEF HeldOf, ObjectsOK
<1>2. /\ Schemas["bridge"] = BridgeSchema
      /\ {"coarse", "fine"} \subseteq DOMAIN BridgeSchema.fields
      /\ BridgeSchema.fields["coarse"] = Id({"occurrent"})
      /\ BridgeSchema.fields["fine"] = Array(Id({"occurrent"}), 1)
      /\ BridgeSchema.optional = {}
  BY DEF Schemas, BridgeSchema, Occurrent
<1>3. b["coarse"].scheme = "occurrent"
  <2>1. FieldFaults(b["coarse"], Id({"occurrent"}), <<"coarse">>) = {}
    BY <1>1, <1>2, FieldsFit
  <2>2. QED
    BY <2>1, IdentifierFits
<1>4. ASSUME NEW f \in Members(b, "fine")
      PROVE  f.scheme = "occurrent"
  <2>1. Has(b, "fine")
    BY <1>1, <1>2, FieldsFit
  <2>2. FieldFaults(b["fine"], Array(Id({"occurrent"}), 1), <<"fine">>) = {}
    BY <1>1, <1>2, <2>1, FieldsFit
  <2>3. PICK i \in DOMAIN b["fine"] : f = b["fine"][i]
    BY <2>1 DEF Members
  <2>4. QED
    BY <2>2, <2>3, ItemsFit
<1>5. QED
  BY <1>3, <1>4

\* The bridges that are well-formed over what is held have no cycle, in whatever
\* order they and the occurrents and strata they speak of were written: the
\* schemas make their ends occurrents and these name strata, and each bridge leads
\* to a lower ordinal (BridgesDescend; BridgeWellformed and put of the Go SDK).
THEOREM BridgesLeadDown == Spec => []BridgesDescend
<1>1. FullInv => BridgesDescend
  <2> SUFFICES ASSUME FullInv
               PROVE  BridgesDescend
    OBVIOUS
  <2> DEFINE W == {b \in HeldOf(objects, "bridge") :
                     b.coarse \in DOMAIN objects /\ BridgeWellformed(b, objects, objects)}
             D == {o \in DOMAIN objects : o.scheme = "occurrent" /\ Has(objects[o], "stratum")}
             height == [o \in D |-> OrdinalOf(objects, objects[o].stratum)]
  <2>1. IsFiniteSet(D)
    BY FS_Subset DEF FullInv, HeldInv
  <2>2. height \in [D -> Int]
    BY OrdinalsAreNumbers, StrataOfOccurrents DEF FullInv, StoreInv
  <2>3. ASSUME NEW n, NEW m, <<n, m>> \in BridgeEdges(W)
        PROVE  n \in D /\ (m \in D => height[m] < height[n])
    <3>1. PICK b \in W : n = b.coarse /\ m \in Members(b, "fine")
      BY <2>3 DEF BridgeEdges
    <3>2. b.coarse.scheme = "occurrent"
      BY <3>1, BridgesJoinOccurrents DEF FullInv, StoreInv
    <3>3. Stratified(objects, b.coarse)
      BY <3>1 DEF BridgeWellformed, BridgeFaults
    <3>4. n \in D
      BY <3>1, <3>2, <3>3 DEF Stratified
    <3>5. ASSUME m \in D
          PROVE  height[m] < height[n]
      <4>1. ~ (OrdinalOf(objects, objects[n].stratum) <= OrdinalOf(objects, objects[m].stratum))
        BY <3>1, <3>3 DEF BridgeWellformed, BridgeFaults
      <4>2. QED
        BY <2>2, <3>4, <3>5, <4>1
    <3>6. QED
      BY <3>4, <3>5
  <2> HIDE DEF D, height, W
  <2>4. ~HasCycle(BridgeEdges(W))
    BY <2>1, <2>2, <2>3, DescentIsAcyclic
  <2>5. QED
    BY <2>4 DEF BridgesDescend, W
<1>2. QED
  BY <1>1, FullInvariant, PTL

-----------------------------------------------------------------------------
(* Windows. *)

\* A flat object meets its schema: it has what is required, and each field fits.
LEMMA ObjectFits ==
  ASSUME NEW v, NEW needs, NEW props, NEW path, FieldFaults(v, Object(needs, props), path) = {}
  PROVE  /\ needs \subseteq DOMAIN v
         /\ \A f \in DOMAIN v \cap DOMAIN props : ScalarFaults(v[f], props[f], path \o <<f>>) = {}
<1> DEFINE s == Object(needs, props)
<1>1. /\ ~Has(s, "oneOf") /\ ~Has(s, "items") /\ IsObjectNode(s)
      /\ s.required = needs /\ s.properties = props
  BY DEF Object, Has, IsObjectNode
<1> HIDE DEF s
<1>2. FlatFaults(v, s, path) = {}
  BY <1>1 DEF FieldFaults, s
<1>3. /\ KeyFaults(v, s, path) = {}
      /\ UNION {ScalarFaults(v[f], s.properties[f], path \o <<f>>) :
                  f \in DOMAIN v \cap DOMAIN s.properties} = {}
  <2>1. ~IsIdentifier(v)
    BY <1>1, <1>2 DEF FlatFaults
  <2>2. QED
    BY <1>1, <1>2, <2>1 DEF FlatFaults
<1>4. needs \subseteq DOMAIN v
  <2>1. {<<"required", path \o <<f>> >> : f \in needs \ DOMAIN v} = {}
    BY <1>1, <1>3 DEF KeyFaults
  <2>2. QED
    BY <2>1
<1>5. QED
  BY <1>1, <1>3, <1>4

LEMMA EnumFits ==
  ASSUME NEW v, NEW S, NEW path, ScalarFaults(v, Enum(S), path) = {}
  PROVE  v \in S
<1>1. <<"enum", path>> \notin ScalarFaults(v, Enum(S), path)
  OBVIOUS
<1>2. QED
  BY <1>1 DEF ScalarFaults, Enum, Has

\* The window of a claim that is held has a unit, and it is not inverted.
LEMMA WindowsHeld ==
  ASSUME ObjectsOK, HeldInv, NEW c \in Claims(objects), Has(objects[c], "temporal")
  PROVE  LET t == objects[c].temporal IN
         /\ t.unit \in Units
         /\ t.minimum_delay \in Int /\ t.maximum_delay \in Int
         /\ t.minimum_delay <= t.maximum_delay
<1> DEFINE t == objects[c].temporal
<1>1. /\ SchemaFaults(objects[c], "causal_relation_object") = {}
      /\ SemanticFaults(objects[c], "causal_relation_object") = {}
      /\ c \in DOMAIN objects
  BY DEF Claims, ObjectsOK
<1>2. /\ Schemas["causal_relation_object"] = CausalRelationObjectSchema
      /\ "temporal" \in DOMAIN CausalRelationObjectSchema.fields
      /\ CausalRelationObjectSchema.fields["temporal"] = Window
  BY DEF Schemas, CausalRelationObjectSchema
<1>3. FieldFaults(t, Window, <<"temporal">>) = {}
  BY <1>1, <1>2, FieldsFit
<1> DEFINE props == [minimum_delay |-> Natural, maximum_delay |-> Natural, unit |-> Enum(Units)]
<1> HIDE DEF t
<1>4. /\ {"minimum_delay", "maximum_delay", "unit"} \subseteq DOMAIN t
      /\ \A f \in DOMAIN t \cap DOMAIN props :
           ScalarFaults(t[f], props[f], <<"temporal">> \o <<f>>) = {}
  BY <1>3, ObjectFits DEF Window
<1>5. t.unit \in Units
  <2>1. ScalarFaults(t["unit"], Enum(Units), <<"temporal">> \o <<"unit">>) = {}
    BY <1>4
  <2>2. QED
    BY <2>1, EnumFits
<1>6. t.minimum_delay \in Int /\ t.maximum_delay \in Int
  BY <1>1, <1>4 DEF HeldInv, HasNumbers, t
<1>7. ~ (t.minimum_delay > t.maximum_delay)
  <2>1. ClaimFaults(objects[c]) = {}
    BY <1>1 DEF SemanticFaults
  <2>2. "inverted_window" \notin ClaimFaults(objects[c])
    BY <2>1
  <2>3. QED
    BY <2>2 DEF ClaimFaults, t
<1>8. QED
  BY <1>5, <1>6, <1>7 DEF t

LEMMA MagnitudeGrows ==
  ASSUME NEW unit \in Units, NEW x \in Int, NEW y \in Int, x <= y
  PROVE  /\ MagnitudeOf(x, unit) \in Int /\ MagnitudeOf(y, unit) \in Int
         /\ MagnitudeOf(x, unit) <= MagnitudeOf(y, unit)
<1>1. CASE unit = "ticks"
  BY <1>1 DEF MagnitudeOf, OrdinalUnits
<1>2. CASE unit # "ticks"
  <2>1. \E k \in Nat : UnitSeconds[unit] = k
    BY <1>2 DEF Units, UnitSeconds
  <2>2. PICK k \in Nat : UnitSeconds[unit] = k
    BY <2>1
  <2>3. MagnitudeOf(x, unit) = x * k /\ MagnitudeOf(y, unit) = y * k
    BY <1>2, <2>2 DEF MagnitudeOf, OrdinalUnits
  <2>4. x * k \in Int /\ y * k \in Int /\ x * k <= y * k
    OBVIOUS
  <2>5. QED
    BY <2>3, <2>4
<1>3. QED
  BY <1>1, <1>2

\* A delay of n in the smallest unit of a dimension.
LEMMA SmallestUnits ==
  ASSUME NEW n \in Int
  PROVE  /\ MagnitudeOf(n, "seconds") = n /\ DimensionOf("seconds") = "wallclock"
         /\ MagnitudeOf(n, "ticks") = n /\ DimensionOf("ticks") = "ordinal"
BY DEF MagnitudeOf, DimensionOf, OrdinalUnits, UnitSeconds

\* The later of two beginnings lies in both windows when they overlap, and in the
\* unit in which both are measured there is a delay of just that length.
THEOREM OverlapsAreCommonDelays == Spec => []OverlapIsACommonDelay
<1>1. FullInv => OverlapIsACommonDelay
  <2> DEFINE Timed == {e \in Claims(objects) : Has(objects[e], "temporal")}
  <2> SUFFICES ASSUME FullInv, NEW c \in Timed, NEW d \in Timed
               PROVE  WindowOverlap(objects[c], objects[d]) <=>
                        \E delay \in Delays : /\ DelayWithinWindow(delay, objects[c].temporal)
                                              /\ DelayWithinWindow(delay, objects[d].temporal)
    BY DEF OverlapIsACommonDelay
  <2> DEFINE s == objects[c].temporal
             t == objects[d].temporal
  <2>1. \A e \in Timed : /\ Earliest(objects[e].temporal) \in Int
                         /\ Latest(objects[e].temporal) \in Int
                         /\ Earliest(objects[e].temporal) <= Latest(objects[e].temporal)
    BY WindowsHeld, MagnitudeGrows DEF FullInv, StoreInv, Earliest, Latest
  <2>2. WindowOverlap(objects[c], objects[d]) <=>
          DimensionOf(s.unit) = DimensionOf(t.unit) /\ Earliest(s) <= Latest(t) /\ Earliest(t) <= Latest(s)
    BY DEF WindowOverlap
  <2>3. ASSUME WindowOverlap(objects[c], objects[d])
        PROVE  \E delay \in Delays : DelayWithinWindow(delay, s) /\ DelayWithinWindow(delay, t)
    <3> DEFINE n == IF Earliest(s) <= Earliest(t) THEN Earliest(t) ELSE Earliest(s)
               u == IF DimensionOf(s.unit) = "ordinal" THEN "ticks" ELSE "seconds"
               delay == [duration |-> n, unit |-> u]
    <3>1. n \in Int /\ Earliest(s) <= n /\ n <= Latest(s) /\ Earliest(t) <= n /\ n <= Latest(t)
      BY <2>1, <2>2, <2>3
    <3>2. delay \in Delays
      <4>1. n \in {Earliest(objects[e].temporal) : e \in Timed}
        OBVIOUS
      <4>2. u \in {"seconds", "ticks"}
        OBVIOUS
      <4> HIDE DEF n, u
      <4> DEFINE ends == {Earliest(objects[e].temporal) : e \in Timed}
                           \cup {Latest(objects[e].temporal) : e \in Timed}
      <4>3. n \in ends
        BY <4>1
      <4>4. Delays = {[duration |-> k, unit |-> v] : k \in ends, v \in {"seconds", "ticks"}}
        BY DEF Delays
      <4> HIDE DEF ends
      <4>5. QED
        BY <4>2, <4>3, <4>4
    <3>3. DimensionOf(u) = DimensionOf(s.unit) /\ MagnitudeOf(n, u) = n
      BY <3>1, SmallestUnits DEF DimensionOf
    <3> HIDE DEF n, u
    <3>4. DelayWithinWindow(delay, s) /\ DelayWithinWindow(delay, t)
      BY <2>2, <2>3, <3>1, <3>3 DEF DelayWithinWindow
    <3>5. QED
      BY <3>2, <3>4
  <2>4. ASSUME NEW delay \in Delays, DelayWithinWindow(delay, s), DelayWithinWindow(delay, t)
        PROVE  WindowOverlap(objects[c], objects[d])
    <3>1. MagnitudeOf(delay.duration, delay.unit) \in Int
      <4>1. PICK n \in {Earliest(objects[e].temporal) : e \in Timed}
                        \cup {Latest(objects[e].temporal) : e \in Timed},
                 u \in {"seconds", "ticks"} : delay = [duration |-> n, unit |-> u]
        BY <2>4 DEF Delays
      <4>2. n \in Int
        BY <2>1
      <4>3. QED
        BY <4>1, <4>2, SmallestUnits
    <3>2. Earliest(s) <= Latest(t) /\ Earliest(t) <= Latest(s)
      BY <2>1, <2>4, <3>1 DEF DelayWithinWindow
    <3>3. QED
      BY <2>2, <2>4, <3>2 DEF DelayWithinWindow
  <2>5. QED
    BY <2>3, <2>4
<1>2. QED
  BY <1>1, FullInvariant, PTL

-----------------------------------------------------------------------------
(* Lineages. *)

\* What the successions say of the keys, and the pairs that the lineages follow.
LEMMA FollowsHaveNoRivals ==
  ASSUME NoRivalSuccessions
  PROVE  \A e, f \in Follows(records) : (e[1] = f[1]) <=> (e[2] = f[2])
<1> SUFFICES ASSUME NEW e \in Follows(records), NEW f \in Follows(records)
             PROVE  (e[1] = f[1]) <=> (e[2] = f[2])
  OBVIOUS
<1>1. ASSUME NEW g \in Follows(records)
      PROVE  \E s \in Successions : g[1] = s.from /\ g[2] = s.to
  <2>1. PICK i \in RecordsOf(records, "succession") :
          g = <<records[i].predecessor, records[i].successor>>
    BY DEF Follows
  <2>2. [from |-> records[i].predecessor, to |-> records[i].successor] \in Successions
    BY DEF Successions
  <2>3. QED
    BY <2>1, <2>2
<1>2. PICK s \in Successions : e[1] = s.from /\ e[2] = s.to
  BY <1>1
<1>3. PICK t \in Successions : f[1] = t.from /\ f[2] = t.to
  BY <1>1
<1>4. (s.from = t.from) <=> (s.to = t.to)
  BY DEF NoRivalSuccessions
<1>5. QED
  BY <1>2, <1>3, <1>4

\* Whoever may retract for a key is decided by the successions as a whole, whichever
\* key of the lineage one starts from.
THEOREM LineagesAreSuccessions == Spec => []LineageIsWhatSuccessionsConnect
<1>1. FullInv => LineageIsWhatSuccessionsConnect
  <2> DEFINE F == Follows(records)
             E == {<<s.from, s.to>> : s \in Successions} \cup {<<s.to, s.from>> : s \in Successions}
  <2> SUFFICES ASSUME FullInv, NoRivalSuccessions, NEW key \in Ends(E)
               PROVE  Lineage(records, key) = Reachable(E, {key})
    BY DEF LineageIsWhatSuccessionsConnect
  <2>1. records \in Seq(Writable)
    BY DEF FullInv, StoreInv, RecordsOK
  <2>2. \A i \in RecordsOf(records, "succession") :
          \E s \in Successions : s.from = records[i].predecessor /\ s.to = records[i].successor
    <3> SUFFICES ASSUME NEW i \in RecordsOf(records, "succession")
                 PROVE  \E s \in Successions :
                          s.from = records[i].predecessor /\ s.to = records[i].successor
      OBVIOUS
    <3>1. [from |-> records[i].predecessor, to |-> records[i].successor] \in Successions
      BY DEF Successions
    <3>2. QED
      BY <3>1
  <2>3. \A s \in Successions :
          \E i \in RecordsOf(records, "succession") :
            s.from = records[i].predecessor /\ s.to = records[i].successor
    <3> SUFFICES ASSUME NEW s \in Successions
                 PROVE  \E i \in RecordsOf(records, "succession") :
                          s.from = records[i].predecessor /\ s.to = records[i].successor
      OBVIOUS
    <3>1. PICK i \in RecordsOf(records, "succession") :
            s = [from |-> records[i].predecessor, to |-> records[i].successor]
      BY DEF Successions
    <3>2. s.from = records[i].predecessor /\ s.to = records[i].successor
      BY <3>1
    <3>3. QED
      BY <3>2
  <2>4. F = {<<s.from, s.to>> : s \in Successions}
    <3>1. ASSUME NEW e \in F
          PROVE  \E s \in Successions : e = <<s.from, s.to>>
      <4>1. PICK i \in RecordsOf(records, "succession") :
              e = <<records[i].predecessor, records[i].successor>>
        BY DEF Follows
      <4>2. QED
        BY <4>1, <2>2
    <3>2. ASSUME NEW s \in Successions
          PROVE  <<s.from, s.to>> \in F
      <4>1. PICK i \in RecordsOf(records, "succession") :
              s.from = records[i].predecessor /\ s.to = records[i].successor
        BY <2>3
      <4>2. QED
        BY <4>1 DEF Follows
    <3> HIDE DEF F
    <3>3. QED
      BY <3>1, <3>2
  <2>5. {<<e[2], e[1]>> : e \in F} = {<<s.to, s.from>> : s \in Successions}
    <3> HIDE DEF F
    <3>1. ASSUME NEW e \in F
          PROVE  \E s \in Successions : <<e[2], e[1]>> = <<s.to, s.from>>
      BY <2>4
    <3>2. ASSUME NEW s \in Successions
          PROVE  \E e \in F : <<e[2], e[1]>> = <<s.to, s.from>>
      <4>1. <<s.from, s.to>> \in F
        BY <2>4
      <4>2. QED
        BY <4>1
    <3>3. QED
      BY <3>1, <3>2
  <2>6. E = BothWays(F)
    BY <2>4, <2>5 DEF BothWays
  <2>7. \A e, f \in F : (e[1] = f[1]) <=> (e[2] = f[2])
    BY FollowsHaveNoRivals
  <2> HIDE DEF E
  <2>8. QED
    BY <2>1, <2>6, <2>7, LineageConnects
<1>2. QED
  BY <1>1, FullInvariant, PTL

-----------------------------------------------------------------------------
(* The taxonomies. *)

LEMMA EdgesOfAField ==
  ASSUME FullInv, NEW field
  PROVE  LET E == Edges(records, field) IN
         /\ IsFiniteSet(DOMAIN E) /\ DOMAIN E \in SUBSET Nat
         /\ Ordered(E)
         /\ \A i \in DOMAIN E : /\ i \in DOMAIN records /\ E[i] = records[i]
                               /\ records[i].type = "enrichment" /\ records[i].field = field
<1> DEFINE E == Edges(records, field)
<1>1. /\ records \in Seq(Writable)
      /\ \A i, j \in DOMAIN records : records[i].id = records[j].id => i = j
  BY DEF FullInv, StoreInv, RecordsOK
<1>2. DOMAIN records = 1 .. Len(records) /\ Len(records) \in Nat
      /\ \A i \in DOMAIN records : records[i] \in Writable
  BY <1>1
<1>3. \A i \in DOMAIN E : /\ i \in DOMAIN records /\ E[i] = records[i]
                         /\ records[i].type = "enrichment" /\ records[i].field = field
  BY DEF Edges, RecordsOf
<1> HIDE DEF E
<1>4. DOMAIN E \in SUBSET (1 .. Len(records)) /\ DOMAIN E \in SUBSET Nat
  BY <1>2, <1>3
<1>5. IsFiniteSet(DOMAIN E)
  <2>1. IsFiniteSet(1 .. Len(records))
    BY <1>2, CountUpTo
  <2>2. QED
    BY <1>4, <2>1, FS_Subset
<1>6. ASSUME NEW i \in DOMAIN E, NEW j \in DOMAIN E
      PROVE  /\ E[i].timestamp \in Int /\ Rank(E[i].id) \in Int
             /\ i # j => E[i].id # E[j].id /\ Rank(E[i].id) # Rank(E[j].id)
  <2>1. PICK rec \in offer.recs : records[i] = Completed(rec, KindOr("", rec))
    BY <1>2, <1>3 DEF Writable
  <2>2. PICK other \in offer.recs : records[j] = Completed(other, KindOr("", other))
    BY <1>2, <1>3 DEF Writable
  <2>3. /\ records[i].timestamp \in Int /\ Rank(records[i].id) \in Int
        /\ records[i].id # records[j].id => Rank(records[i].id) # Rank(records[j].id)
    <3>1. records[i].type = "enrichment" /\ records[j].type = "enrichment" /\ offer \in Catalogues
      BY <1>3 DEF FullInv
    <3>2. QED
      BY <2>1, <2>2, <3>1, OrderAssumption
  <2>4. i # j => records[i].id # records[j].id
    BY <1>1, <1>3
  <2>5. QED
    BY <1>3, <2>3, <2>4
<1>7. Ordered(E)
  BY <1>6 DEF Ordered
<1>8. QED
  BY <1>3, <1>4, <1>5, <1>7 DEF E

LEMMA ConceptsAre ==
  ASSUME NEW field, NEW out
  PROVE  Concepts(field, out) = Pairs(Rest(Edges(records, field), out))
<1> DEFINE E == Edges(records, field)
           R == Rest(E, out)
<1>1. /\ DOMAIN R = {j \in DOMAIN E : E[j].id \notin out}
      /\ \A i \in DOMAIN R : R[i] = E[i]
  BY DEF Rest
<1>2. Concepts(field, out) = {<<E[i].about, E[i].entry>> : i \in {j \in DOMAIN E : E[j].id \notin out}}
  BY DEF Concepts
<1> HIDE DEF E, R
<1>3. Pairs(R) = {<<E[i].about, E[i].entry>> : i \in {j \in DOMAIN E : E[j].id \notin out}}
  BY <1>1 DEF Pairs
<1>4. QED
  BY <1>2, <1>3 DEF E, R

LEMMA AllConcepts ==
  ASSUME NEW field
  PROVE  Concepts(field, {}) = Pairs(Edges(records, field))
<1> DEFINE E == Edges(records, field)
<1>1. Concepts(field, {}) = {<<E[i].about, E[i].entry>> : i \in {j \in DOMAIN E : E[j].id \notin {}}}
  BY DEF Concepts
<1> HIDE DEF E
<1>2. Concepts(field, {}) = Pairs(E)
  BY <1>1 DEF Pairs
<1>3. QED
  BY <1>2 DEF E

LEMMA CycleInMore ==
  ASSUME NEW E, NEW F, E \subseteq F, HasCycle(E)
  PROVE  HasCycle(F)
<1>1. PICK C \in SUBSET Ends(E) : C # {} /\ \A n \in C : \E m \in C : <<n, m>> \in E
  BY DEF HasCycle
<1>2. C \in SUBSET Ends(F)
  BY DEF Ends
<1>3. \A n \in C : \E m \in C : <<n, m>> \in F
  BY <1>1
<1>4. QED
  BY <1>1, <1>2, <1>3 DEF HasCycle

\* findCycle of store.go reports a cycle exactly when the records of the field make
\* one, for any records and in any order of writing.
THEOREM SearchesFindEveryCycle == Spec => []SearchFindsEveryCycle
<1>1. FullInv => SearchFindsEveryCycle
  <2> SUFFICES ASSUME FullInv, NEW field \in Hierarchies
               PROVE  FindCycle(Edges(records, field)) # {} <=> HasCycle(Concepts(field, {}))
    BY DEF SearchFindsEveryCycle
  <2> DEFINE E == Edges(records, field)
  <2>1. IsFiniteSet(DOMAIN E) /\ DOMAIN E \in SUBSET Nat
    BY EdgesOfAField
  <2>2. Concepts(field, {}) = Pairs(E)
    BY AllConcepts
  <2> HIDE DEF E
  <2>3. FindCycle(E) # {} <=> HasCycle(Pairs(E))
    BY <2>1, SearchIsComplete
  <2>4. QED
    BY <2>2, <2>3 DEF E
<1>2. QED
  BY <1>1, FullInvariant, PTL

-----------------------------------------------------------------------------
(* The gate of the taxonomies. *)

\* The search of the gate is over the taxonomy and the record.
LEMMA GateSearches ==
  ASSUME FullInv, NEW new
  PROVE  WouldCycle(records, new) <=>
           HasCycle(Concepts(new.field, {}) \cup {<<new.about, new.entry>>})
<1> DEFINE E == Edges(records, new.field)
           K == Len(records) + 1
           G == With(E, K, new)
<1>1. /\ IsFiniteSet(DOMAIN E) /\ DOMAIN E \in SUBSET Nat
      /\ \A i \in DOMAIN E : i \in DOMAIN records
  BY EdgesOfAField
<1>2. records \in Seq(Writable)
  BY DEF FullInv, StoreInv, RecordsOK
<1>3. K \in Nat /\ K \notin DOMAIN E
  BY <1>1, <1>2
<1>4. WouldCycle(records, new) <=> FindCycle(G) # {}
  BY DEF WouldCycle
<1>5. Concepts(new.field, {}) = Pairs(E)
  BY AllConcepts
<1> HIDE DEF E, K
<1>6. /\ DOMAIN G = DOMAIN E \cup {K} /\ G[K] = new
      /\ \A i \in DOMAIN E : G[i] = E[i]
  BY <1>3 DEF With
<1> HIDE DEF G
<1>7. IsFiniteSet(DOMAIN G) /\ DOMAIN G \in SUBSET Nat
  BY <1>1, <1>3, <1>6, FS_AddElement
<1>8. Pairs(G) = Pairs(E) \cup {<<new.about, new.entry>>}
  <2>1. \A i \in DOMAIN G : i = K \/ i \in DOMAIN E
    BY <1>6
  <2>2. Pairs(G) \subseteq Pairs(E) \cup {<<new.about, new.entry>>}
    BY <1>6, <2>1 DEF Pairs
  <2>3. Pairs(E) \subseteq Pairs(G)
    BY <1>6 DEF Pairs
  <2>4. <<new.about, new.entry>> \in Pairs(G)
    BY <1>6 DEF Pairs
  <2>5. QED
    BY <2>2, <2>3, <2>4
<1>9. FindCycle(G) # {} <=> HasCycle(Pairs(G))
  BY <1>7, SearchIsComplete
<1>10. QED
  BY <1>4, <1>5, <1>8, <1>9

\* wouldCycle of store.go refuses nothing but what closes a cycle itself, as long as the
\* taxonomy has none, and lets no such record through (GateBlamesTheCulprit).
THEOREM GatesBlameTheCulprit == Spec => []GateBlamesTheCulprit
<1>1. FullInv => GateBlamesTheCulprit
  <2> SUFFICES ASSUME FullInv, NEW new \in {r \in Proposed : r.field \in Hierarchies},
                      ~HasCycle(Concepts(new.field, {}))
               PROVE  WouldCycle(records, new) <=>
                        new.about \in Reachable(Concepts(new.field, {}), {new.entry})
    BY DEF GateBlamesTheCulprit
  <2> DEFINE E == Concepts(new.field, {})
  <2>1. \A e \in E : e = <<e[1], e[2]>>
    BY AllConcepts DEF Pairs
  <2>2. WouldCycle(records, new) <=> HasCycle(E \cup {<<new.about, new.entry>>})
    BY GateSearches
  <2> HIDE DEF E
  <2>3. HasCycle(E \cup {<<new.about, new.entry>>}) <=> new.about \in Reachable(E, {new.entry})
    <3>1. ~HasCycle(E)
      BY DEF E
    <3>2. QED
      BY <2>1, <3>1, OneEdgeMore
  <2>4. QED
    BY <2>2, <2>3 DEF E
<1>2. QED
  BY <1>1, FullInvariant, PTL

\* What Write appends was not refused.
LEMMA WriteAccepts ==
  ASSUME NEW rec \in offer.recs, NEW gated, WriteRecord(rec, gated)
  PROVE  LET kind == KindOr("", rec)
             new  == Completed(rec, kind)
         IN /\ new.type = kind /\ new \in Writable
            /\ \/ records' = records
               \/ /\ records' = Append(records, new)
                  /\ WriteRefusal(records, new, kind, gated) = ""
                  /\ new.id \notin RecordIds(records)
<1> DEFINE kind == KindOr("", rec)
           new  == Completed(rec, kind)
<1>1. new.type = kind
  BY CompletedType
<1>2. new \in Writable
  BY DEF Writable
<1>3. records' = Write(records, rec, kind, gated)
  BY DEF WriteRecord
<1> HIDE DEF kind
<1>4. \/ records' = records
      \/ /\ records' = Append(records, new)
         /\ WriteRefusal(records, new, kind, gated) = ""
         /\ new.id \notin RecordIds(records)
  BY <1>3 DEF Write
<1>5. QED
  BY <1>1, <1>2, <1>4 DEF kind

\* A record more, and the taxonomy of a field has at most that record more.
LEMMA ConceptsGrowByOne ==
  ASSUME FullInv, NEW new \in Writable, records' = Append(records, new), NEW field
  PROVE  Concepts(field, {})' \subseteq
           Concepts(field, {}) \cup
             (IF new.type = "enrichment" /\ new.field = field THEN {<<new.about, new.entry>>} ELSE {})
<1> DEFINE E == Edges(records, field)
           F == Edges(records', field)
<1>1. records \in Seq(Writable)
  BY DEF FullInv, StoreInv, RecordsOK
<1>2. /\ DOMAIN records' = 1 .. Len(records) + 1
      /\ DOMAIN records = 1 .. Len(records)
      /\ Len(records) \in Nat
      /\ \A i \in DOMAIN records : records'[i] = records[i]
      /\ records'[Len(records) + 1] = new
  <2>1. records' = Append(records, new)
    OBVIOUS
  <2>2. QED
    BY <1>1, <2>1
<1>3. \A i \in DOMAIN records' : i \in DOMAIN records \/ i = Len(records) + 1
  BY <1>2
<1>4. Retracted(records) \subseteq Retracted(records')
  BY <1>2 DEF Retracted, RecordsOf
<1>5. ASSUME NEW i \in DOMAIN F
      PROVE  /\ F[i] = records'[i] /\ i \in DOMAIN records'
             /\ records'[i].type = "enrichment" /\ records'[i].field = field
             /\ records'[i].id \notin Retracted(records')
  BY DEF Edges, RecordsOf
<1>6. ASSUME NEW i \in DOMAIN records, records[i].type = "enrichment", records[i].field = field,
             records[i].id \notin Retracted(records)
      PROVE  i \in DOMAIN E /\ E[i] = records[i]
  BY <1>6 DEF Edges, RecordsOf
<1>7. ASSUME NEW i \in DOMAIN F
      PROVE  \/ i \in DOMAIN E /\ F[i] = E[i]
             \/ F[i] = new /\ new.type = "enrichment" /\ new.field = field
  <2>1. CASE i \in DOMAIN records
    BY <1>2, <1>4, <1>5, <1>6, <2>1
  <2>2. CASE i = Len(records) + 1
    BY <1>2, <1>5, <2>2
  <2>3. QED
    BY <1>3, <1>5, <2>1, <2>2
<1>8. Concepts(field, {}) = Pairs(E)
  BY AllConcepts
<1>9. Concepts(field, {})' = {<<F[i].about, F[i].entry>> : i \in {j \in DOMAIN F : F[j].id \notin {}}}
  BY DEF Concepts
<1> HIDE DEF E, F
<1>10. ASSUME NEW i \in DOMAIN F
       PROVE  <<F[i].about, F[i].entry>> \in
                Pairs(E) \cup
                  (IF new.type = "enrichment" /\ new.field = field THEN {<<new.about, new.entry>>} ELSE {})
  BY <1>7 DEF Pairs
<1>11. QED
  BY <1>8, <1>9, <1>10

\* PutRecord of an enforcing store keeps an acyclic taxonomy acyclic, whatever was
\* written or merged before (WritesCloseNoCycle).
THEOREM EnforcedWritesCloseNoCycle == Spec => WritesCloseNoCycle
<1> DEFINE A == offer.enforcing /\ (\E rec \in offer.recs : PutRecord(rec)) =>
                  \A field \in Hierarchies : HasCycle(Concepts(field, {}))' => HasCycle(Concepts(field, {}))
<1>1. FullInv => A
  <2> SUFFICES ASSUME FullInv, offer.enforcing, NEW rec \in offer.recs, PutRecord(rec),
                      NEW field \in Hierarchies, HasCycle(Concepts(field, {}))'
               PROVE  HasCycle(Concepts(field, {}))
    OBVIOUS
  <2> DEFINE kind == KindOr("", rec)
             new  == Completed(rec, kind)
             E    == Concepts(field, {})
             edge == <<new.about, new.entry>>
  <2>1. WriteRecord(rec, TRUE)
    <3>1. offer.enforcing = TRUE
      BY CatalogueAssumption DEF FullInv
    <3>2. QED
      BY <3>1 DEF PutRecord
  <2>2. /\ new.type = kind /\ new \in Writable
        /\ \/ records' = records
           \/ /\ records' = Append(records, new)
              /\ WriteRefusal(records, new, kind, TRUE) = ""
              /\ new.id \notin RecordIds(records)
    BY <2>1, WriteAccepts
  <2>3. WouldCycle(records, new) <=> HasCycle(Concepts(new.field, {}) \cup {edge})
    BY GateSearches
  <2> HIDE DEF kind, new
  <2>4. CASE records' = records
    <3>1. E' = E
      BY <2>4 DEF Concepts
    <3>2. QED
      BY <3>1
  <2>5. CASE /\ records' = Append(records, new)
             /\ WriteRefusal(records, new, kind, TRUE) = ""
             /\ new.id \notin RecordIds(records)
    <3>1. E' \subseteq E \cup (IF new.type = "enrichment" /\ new.field = field THEN {edge} ELSE {})
      BY <2>2, <2>5, ConceptsGrowByOne
    <3>2. HasCycle(E')
      OBVIOUS
    <3> HIDE DEF E, edge
    <3>3. CASE new.type = "enrichment" /\ new.field = field
      <4>1. ~WouldCycle(records, new)
        BY <2>2, <2>5, <3>3 DEF WriteRefusal, Hierarchies
      <4>2. HasCycle(E \cup {edge})
        BY <3>1, <3>2, <3>3, CycleInMore
      <4>3. QED
        BY <2>3, <3>3, <4>1, <4>2 DEF E
    <3>4. CASE ~(new.type = "enrichment" /\ new.field = field)
      <4>1. E' \subseteq E
        BY <3>1, <3>4
      <4>2. HasCycle(E)
        BY <3>2, <4>1, CycleInMore
      <4>3. QED
        BY <4>2 DEF E
    <3>5. QED
      BY <3>3, <3>4
  <2>6. QED
    BY <2>2, <2>4, <2>5
<1>2. FullInv => [A]_vars
  BY <1>1
<1>3. QED
  BY <1>2, FullInvariant, PTL DEF WritesCloseNoCycle

-----------------------------------------------------------------------------
(* Retractions. *)

\* The records stored before the one at a position.
Earlier(recs, j) == SubSeq(recs, 1, j - 1)

\* What the write of each retraction found out: its key was in the lineage of the target's
\* source by the records stored until then.
AuthorityInv ==
  \A j \in RecordsOf(records, "retraction") : \A i \in 1 .. j - 1 :
    records[i].id = records[j].retracts =>
      records[j].source \in Lineage(Earlier(records, j), SourceOf(records[i]))

LEMMA EarlierThanAppended ==
  ASSUME NEW D, NEW recs \in Seq(D), NEW rec \in D
  PROVE  LET more == Append(recs, rec) IN
         /\ DOMAIN more = 1 .. Len(recs) + 1
         /\ DOMAIN recs = 1 .. Len(recs)
         /\ Len(recs) \in Nat
         /\ \A i \in DOMAIN recs : more[i] = recs[i]
         /\ more[Len(recs) + 1] = rec
         /\ \A j \in 1 .. Len(recs) + 1 : Earlier(more, j) = Earlier(recs, j)
         /\ Earlier(more, Len(recs) + 1) = recs
<1> DEFINE more == Append(recs, rec)
           n    == Len(recs)
<1>1. /\ DOMAIN more = 1 .. n + 1 /\ DOMAIN recs = 1 .. n /\ n \in Nat
      /\ \A i \in DOMAIN recs : more[i] = recs[i] /\ recs[i] \in D
      /\ more[n + 1] = rec
  OBVIOUS
<1> HIDE DEF more, n
<1>2. ASSUME NEW j \in 1 .. n + 1
      PROVE  /\ Earlier(more, j) \in Seq(D) /\ Earlier(recs, j) \in Seq(D)
             /\ Len(Earlier(more, j)) = j - 1 /\ Len(Earlier(recs, j)) = j - 1
             /\ \A i \in 1 .. j - 1 : Earlier(more, j)[i] = recs[i] /\ Earlier(recs, j)[i] = recs[i]
  <2>1. \A i \in 1 .. j - 1 : more[i] = recs[i] /\ more[i] \in D /\ recs[i] \in D
    BY <1>1
  <2>2. /\ 1 \in Int /\ j - 1 \in Int
        /\ IF 1 <= j - 1 THEN (j - 1) - 1 + 1 = j - 1 ELSE j - 1 = 0
        /\ (j - 1) - 1 + 1 = j - 1
        /\ \A i \in 1 .. j - 1 : 1 + i - 1 = i
    BY <1>1
  <2>3. /\ Earlier(more, j) \in Seq(D) /\ Len(Earlier(more, j)) = j - 1
        /\ \A i \in 1 .. j - 1 : Earlier(more, j)[i] = more[i]
    BY <2>1, <2>2, SubSeqProperties DEF Earlier
  <2>4. /\ Earlier(recs, j) \in Seq(D) /\ Len(Earlier(recs, j)) = j - 1
        /\ \A i \in 1 .. j - 1 : Earlier(recs, j)[i] = recs[i]
    BY <2>1, <2>2, SubSeqProperties DEF Earlier
  <2>5. QED
    BY <2>1, <2>3, <2>4
<1>3. ASSUME NEW j \in 1 .. n + 1
      PROVE  Earlier(more, j) = Earlier(recs, j)
  BY <1>2, SeqEqual
<1>4. Earlier(more, n + 1) = recs
  <2>1. /\ Earlier(more, n + 1) \in Seq(D) /\ Len(Earlier(more, n + 1)) = n
        /\ \A i \in 1 .. n : Earlier(more, n + 1)[i] = recs[i]
    <3>1. n + 1 \in 1 .. n + 1 /\ (n + 1) - 1 = n
      BY <1>1
    <3>2. QED
      BY <1>2, <3>1
  <2>2. Len(recs) = n
    BY DEF n
  <2>3. QED
    BY <2>1, <2>2, SeqEqual
<1>5. QED
  BY <1>1, <1>3, <1>4 DEF more, n

LEMMA WriteKeepsAuthority ==
  ASSUME RecordsOK, AuthorityInv, NEW rec \in offer.recs, NEW gated, WriteRecord(rec, gated)
  PROVE  AuthorityInv'
<1> DEFINE kind == KindOr("", rec)
           new  == Completed(rec, kind)
<1>1. /\ new.type = kind /\ new \in Writable
      /\ \/ records' = records
         \/ /\ records' = Append(records, new)
            /\ WriteRefusal(records, new, kind, gated) = ""
            /\ new.id \notin RecordIds(records)
  BY WriteAccepts
<1> HIDE DEF kind, new
<1>2. CASE records' = records
  BY <1>2 DEF AuthorityInv
<1>3. CASE /\ records' = Append(records, new)
           /\ WriteRefusal(records, new, kind, gated) = ""
           /\ new.id \notin RecordIds(records)
  <2>1. records \in Seq(Writable) /\ new \in Writable
    BY <1>1 DEF RecordsOK
  <2>2. records' = Append(records, new)
    BY <1>3
  <2> HIDE DEF Writable
  <2>3. /\ DOMAIN records' = 1 .. Len(records) + 1
        /\ DOMAIN records = 1 .. Len(records)
        /\ Len(records) \in Nat
        /\ \A i \in DOMAIN records : records'[i] = records[i]
        /\ records'[Len(records) + 1] = new
        /\ \A j \in 1 .. Len(records) + 1 : Earlier(records', j) = Earlier(records, j)
        /\ Earlier(records', Len(records) + 1) = records
    BY <2>1, <2>2, EarlierThanAppended
  <2> SUFFICES ASSUME NEW j \in RecordsOf(records', "retraction"), NEW i \in 1 .. j - 1,
                      records'[i].id = records'[j].retracts
               PROVE  records'[j].source \in Lineage(Earlier(records', j), SourceOf(records'[i]))
    BY DEF AuthorityInv
  <2>4. j \in 1 .. Len(records) + 1 /\ records'[j].type = "retraction"
    BY <2>3 DEF RecordsOf
  <2>5. i \in DOMAIN records /\ records'[i] = records[i]
    BY <2>3, <2>4
  <2>6. CASE j \in DOMAIN records
    <3>1. records'[j] = records[j] /\ j \in RecordsOf(records, "retraction")
      BY <2>3, <2>4, <2>6 DEF RecordsOf
    <3>2. records[j].source \in Lineage(Earlier(records, j), SourceOf(records[i]))
      BY <2>5, <3>1 DEF AuthorityInv
    <3>3. QED
      BY <2>3, <2>4, <2>5, <3>1, <3>2
  <2>7. CASE j = Len(records) + 1
    <3>1. /\ records'[j] = new
          /\ records[i].id = new.retracts
          /\ kind = "retraction"
      BY <1>1, <2>3, <2>4, <2>5, <2>7
    <3>2. RetractionSourceOk(records, new)
      BY <1>3, <3>1 DEF WriteRefusal
    <3>3. new.retracts \in RecordIds(records)
      BY <2>5, <3>1 DEF RecordIds
    <3>4. RecordAt(records, new.retracts) = records[i]
      <4>1. \A k \in DOMAIN records : records[k].id = new.retracts => k = i
        BY <2>5, <3>1 DEF RecordsOK
      <4>2. (CHOOSE k \in DOMAIN records : records[k].id = new.retracts) = i
        BY <2>5, <3>1, <4>1
      <4>3. QED
        BY <4>2 DEF RecordAt
    <3>5. new.source \in Lineage(records, SourceOf(records[i]))
      BY <3>2, <3>3, <3>4 DEF RetractionSourceOk
    <3>6. Earlier(records', j) = records
      BY <2>3, <2>7
    <3>7. QED
      BY <2>5, <3>1, <3>5, <3>6
  <2>8. QED
    BY <2>3, <2>4, <2>6, <2>7
<1>4. QED
  BY <1>1, <1>2, <1>3

LEMMA AuthorityInvariant == Spec => []AuthorityInv
<1>1. Init => AuthorityInv
  BY DEF Init, AuthorityInv, RecordsOf
<1>2. AuthorityInv /\ FullInv /\ [Next]_vars => AuthorityInv'
  <2> SUFFICES ASSUME AuthorityInv, FullInv, [Next]_vars
               PROVE  AuthorityInv'
    OBVIOUS
  <2>1. ASSUME UNCHANGED records
        PROVE  AuthorityInv'
    BY <2>1 DEF AuthorityInv
  <2>2. ASSUME NEW rec \in offer.recs, NEW gated, WriteRecord(rec, gated)
        PROVE  AuthorityInv'
    BY <2>2, WriteKeepsAuthority DEF FullInv, StoreInv
  <2>3. QED
    BY <2>1, <2>2 DEF Next, PutObject, PutRecord, ForceMergeRecord, vars
<1>3. QED
  BY <1>1, <1>2, FullInvariant, PTL DEF Spec

\* Without rivals a lineage only grows as records come in: it is what the successions
\* connect, and there are more of them.
LEMMA LineageGrows ==
  ASSUME NEW D, NEW recs \in Seq(D), NEW j \in 1 .. Len(recs), NEW key,
         \A e, f \in Follows(recs) : (e[1] = f[1]) <=> (e[2] = f[2])
  PROVE  Lineage(Earlier(recs, j), key) \subseteq Lineage(recs, key)
<1> DEFINE before == Earlier(recs, j)
<1>1. /\ before \in Seq(D)
      /\ DOMAIN before = 1 .. j - 1
      /\ DOMAIN recs = 1 .. Len(recs)
      /\ \A i \in 1 .. j - 1 : before[i] = recs[i] /\ i \in DOMAIN recs
  BY DEF Earlier
<1> HIDE DEF before
<1>2. Follows(before) \subseteq Follows(recs)
  BY <1>1 DEF Follows, RecordsOf
<1>3. BothWays(Follows(before)) \subseteq BothWays(Follows(recs))
  BY <1>2 DEF BothWays
<1>4. Lineage(recs, key) = Reachable(BothWays(Follows(recs)), {key})
  BY LineageConnects
<1>5. Lineage(before, key) = Reachable(BothWays(Follows(before)), {key})
  BY <1>1, <1>2, LineageConnects
<1>6. QED
  BY <1>3, <1>4, <1>5, ReachableGrows DEF before

\* What was withdrawn was withdrawn by the lineage of the one who made it, and no record
\* that comes later disowns it (RetractionsHaveAuthority).
THEOREM RetractionsKeepAuthority == Spec => []RetractionsHaveAuthority
<1>1. FullInv /\ AuthorityInv => RetractionsHaveAuthority
  <2> SUFFICES ASSUME FullInv, AuthorityInv, NoRivalSuccessions,
                      NEW j \in RecordsOf(records, "retraction"), NEW i \in 1 .. j - 1,
                      records[i].id = records[j].retracts
               PROVE  records[j].source \in Lineage(records, SourceOf(records[i]))
    BY DEF RetractionsHaveAuthority
  <2>1. records \in Seq(Writable) /\ j \in 1 .. Len(records)
    BY DEF FullInv, StoreInv, RecordsOK, RecordsOf
  <2>2. records[j].source \in Lineage(Earlier(records, j), SourceOf(records[i]))
    BY DEF AuthorityInv
  <2>3. \A e, f \in Follows(records) : (e[1] = f[1]) <=> (e[2] = f[2])
    BY FollowsHaveNoRivals
  <2>4. Lineage(Earlier(records, j), SourceOf(records[i])) \subseteq Lineage(records, SourceOf(records[i]))
    BY <2>1, <2>3, LineageGrows
  <2>5. QED
    BY <2>2, <2>4
<1>2. QED
  BY <1>1, FullInvariant, AuthorityInvariant, PTL

-----------------------------------------------------------------------------
(* The views of the taxonomies. *)

\* Whatever cycles came in by forced merges, the records that excludedEdges leaves make
\* none, and each one it keeps out is on the repair list.
THEOREM ShownTaxonomiesAreAcyclic == Spec => []ShownTaxonomyIsAcyclic
<1>1. FullInv => ShownTaxonomyIsAcyclic
  <2> SUFFICES ASSUME FullInv, NEW field \in {"subsumes", "part_of"}
               PROVE  /\ ~HasCycle(Concepts(field, CycleBroken(records)))
                      /\ \A id \in ExcludedEdges(records, field) :
                           \E g \in HierarchyGaps(records) : g.id = id
    BY DEF ShownTaxonomyIsAcyclic, Hierarchies
  <2> DEFINE E == Edges(records, field)
             out == ExcludedEdges(records, field)
  <2>1. out \subseteq CycleBroken(records)
    BY DEF CycleBroken
  <2>2. ~HasCycle(Pairs(Rest(E, out)))
    <3>1. IsFiniteSet(DOMAIN E) /\ DOMAIN E \in SUBSET Nat /\ Ordered(E)
      BY EdgesOfAField
    <3>2. QED
      BY <3>1, ExclusionBreaksCycles
  <2>3. Concepts(field, CycleBroken(records)) \subseteq Concepts(field, out)
    BY <2>1 DEF Concepts
  <2>4. ~HasCycle(Concepts(field, CycleBroken(records)))
    BY <2>2, <2>3, ConceptsAre, CycleInMore
  <2>5. ASSUME NEW id \in out
        PROVE  \E g \in HierarchyGaps(records) : g.id = id
    <3>1. [kind |-> "inconsistent_hierarchy", id |-> id] \in HierarchyGaps(records)
      BY <2>1 DEF HierarchyGaps
    <3>2. QED
      BY <3>1
  <2>6. QED
    BY <2>4, <2>5
<1>2. QED
  BY <1>1, FullInvariant, PTL

-----------------------------------------------------------------------------
(* Aliases. *)

\* A stored record meets the semantic rules of its kind.
RecordsSound == \A i \in DOMAIN records : SemanticFaults(records[i], records[i].type) = {}

LEMMA WriteKeepsSound ==
  ASSUME RecordsOK, RecordsSound, NEW rec \in offer.recs, NEW gated, WriteRecord(rec, gated)
  PROVE  RecordsSound'
<1> DEFINE kind == KindOr("", rec)
           new  == Completed(rec, kind)
<1>1. new.type = kind
  BY CompletedType
<1>2. new \in Writable
  BY DEF Writable
<1> HIDE DEF kind, new
<1>3. records' = Write(records, rec, kind, gated)
  BY DEF WriteRecord, kind
<1>4. \/ records' = records
      \/ /\ records' = Append(records, new)
         /\ WriteRefusal(records, new, kind, gated) = ""
         /\ new.id \notin RecordIds(records)
  BY <1>3 DEF Write, new
<1>5. CASE records' = records
  BY <1>5 DEF RecordsSound
<1>6. CASE /\ records' = Append(records, new)
           /\ WriteRefusal(records, new, kind, gated) = ""
           /\ new.id \notin RecordIds(records)
  <2>1. SemanticFaults(new, new.type) = {}
    BY <1>1, <1>6 DEF WriteRefusal
  <2>2. records \in Seq(Writable)
    BY DEF RecordsOK
  <2>3. /\ DOMAIN records' = 1 .. Len(records) + 1
        /\ DOMAIN records = 1 .. Len(records)
        /\ Len(records) \in Nat
        /\ \A i \in DOMAIN records : records'[i] = records[i]
        /\ records'[Len(records) + 1] = new
    <3>1. records' = Append(records, new)
      BY <1>6
    <3>2. QED
      BY <1>2, <2>2, <3>1
  <2>4. ASSUME NEW i \in DOMAIN records'
        PROVE  SemanticFaults(records'[i], records'[i].type) = {}
    <3>1. i \in DOMAIN records \/ i = Len(records) + 1
      BY <2>3
    <3>2. QED
      BY <2>1, <2>3, <3>1 DEF RecordsSound
  <2>5. QED
    BY <2>4 DEF RecordsSound
<1>7. QED
  BY <1>4, <1>5, <1>6

LEMMA RecordsAreSound == Spec => []RecordsSound
<1>1. Init => RecordsSound
  BY DEF Init, RecordsSound
<1>2. RecordsSound /\ FullInv /\ [Next]_vars => RecordsSound'
  <2> SUFFICES ASSUME RecordsSound, FullInv, [Next]_vars
               PROVE  RecordsSound'
    OBVIOUS
  <2>1. ASSUME UNCHANGED records
        PROVE  RecordsSound'
    BY <2>1 DEF RecordsSound
  <2>2. ASSUME NEW rec \in offer.recs, NEW gated, WriteRecord(rec, gated)
        PROVE  RecordsSound'
    BY <2>2, WriteKeepsSound DEF FullInv, StoreInv
  <2>3. QED
    BY <2>1, <2>2 DEF Next, PutObject, PutRecord, ForceMergeRecord, vars
<1>3. QED
  BY <1>1, <1>2, FullInvariant, PTL DEF Spec

\* Only records of the two taxonomies are kept out of a view, so no alias is.
LEMMA AliasesAreShown ==
  ASSUME FullInv, NEW i \in DOMAIN records, records[i].type = "enrichment", records[i].field = "aliases"
  PROVE  records[i].id \notin CycleBroken(records)
<1> SUFFICES ASSUME NEW field \in {"subsumes", "part_of"}, records[i].id \in ExcludedEdges(records, field)
             PROVE  FALSE
  BY DEF CycleBroken
<1> DEFINE E == Edges(records, field)
<1>1. /\ IsFiniteSet(DOMAIN E) /\ DOMAIN E \in SUBSET Nat /\ Ordered(E)
      /\ \A j \in DOMAIN E : /\ j \in DOMAIN records /\ E[j] = records[j]
                            /\ records[j].type = "enrichment" /\ records[j].field = field
  BY EdgesOfAField
<1>2. records[i].id \in EdgeIds(E)
  BY <1>1, ExclusionBreaksCycles
<1> HIDE DEF E
<1>3. PICK j \in DOMAIN E : records[i].id = E[j].id
  BY <1>2 DEF EdgeIds
<1>4. i = j
  BY <1>1, <1>3 DEF FullInv, StoreInv, RecordsOK
<1>5. QED
  BY <1>1, <1>3, <1>4

AliasesOf(id) == {r \in EnrichmentsAbout(records, id, FALSE) : r.field = "aliases"}

LEMMA AliasesOfAre ==
  ASSUME FullInv, RecordsSound, NEW id, NEW r \in AliasesOf(id)
  PROVE  r \in Shown(records, id, "default") /\ IsAlias(r.entry)
<1>1. /\ r \in EnrichmentsAbout(records, id, FALSE) /\ r.field = "aliases"
      /\ r \in About(records, "enrichment", id)
  BY DEF AliasesOf, EnrichmentsAbout
<1>2. PICK i \in DOMAIN records : r = records[i]
  BY <1>1 DEF About
<1>3. r.type = "enrichment"
  BY <1>1 DEF About
<1>4. r.id \notin CycleBroken(records)
  BY <1>1, <1>2, <1>3, AliasesAreShown
<1>5. EnrichmentFaults(r) = {}
  <2>1. SemanticFaults(r, "enrichment") = {}
    BY <1>2, <1>3 DEF RecordsSound
  <2>2. QED
    BY <2>1 DEF SemanticFaults
<1>6. EntryFits(r.entry, "alias")
  <2>1. /\ r.field \in DOMAIN EnrichmentFields
        /\ EnrichmentFields[r.field].shape = "alias"
    BY <1>1 DEF EnrichmentFields
  <2>2. "illegal_entry" \in EnrichmentFaults(r) \/ EntryFits(r.entry, EnrichmentFields[r.field].shape)
    BY <2>1 DEF EnrichmentFaults
  <2>3. QED
    BY <1>5, <2>1, <2>2
<1>7. QED
  BY <1>1, <1>4, <1>6 DEF Shown, EntryFits

\* What the default view shows as aliases are the entries of the aliases not retracted.
LEMMA ShownAliasesAre ==
  ASSUME FullInv, RecordsSound, NEW id
  PROVE  ShownAliases(id) = {r.entry : r \in AliasesOf(id)}
<1> DEFINE shown == Shown(records, id, "default")
           view == Materialized(records, id, "default")
           slot(e) == [entry |-> e,
                       contributors |-> {[source |-> r.source, timestamp |-> r.timestamp] :
                                           r \in {q \in shown : q.field = "aliases" /\ q.entry = e}}]
           entries == {r.entry : r \in {q \in shown : q.field = "aliases"}}
<1>1. \A r : r \in shown /\ r.field = "aliases" <=> r \in AliasesOf(id)
  <2>1. \A r \in shown : r \in EnrichmentsAbout(records, id, FALSE)
    BY DEF Shown
  <2> HIDE DEF shown
  <2>2. \A r \in AliasesOf(id) : r \in shown /\ r.field = "aliases"
    BY AliasesOfAre DEF AliasesOf, shown
  <2>3. QED
    BY <2>1, <2>2 DEF AliasesOf
<1>2. /\ Has(view, "aliases") <=> \E r \in shown : r.field = "aliases"
      /\ Has(view, "aliases") => view.aliases = {slot(e) : e \in entries}
  BY DEF Materialized, Has
<1> HIDE DEF shown, view
<1>3. entries = {r.entry : r \in AliasesOf(id)}
  BY <1>1
<1>4. ShownAliases(id) = IF Has(view, "aliases") THEN {s.entry : s \in view.aliases} ELSE {}
  BY DEF ShownAliases, view
<1>5. CASE ~Has(view, "aliases")
  BY <1>1, <1>2, <1>4, <1>5
<1>6. CASE Has(view, "aliases")
  <2>1. ShownAliases(id) = {s.entry : s \in {slot(e) : e \in entries}}
    BY <1>2, <1>4, <1>6
  <2>2. \A e : slot(e).entry = e
    OBVIOUS
  <2> HIDE DEF slot, entries
  <2>3. {s.entry : s \in {slot(e) : e \in entries}} = entries
    <3>1. ASSUME NEW x \in {s.entry : s \in {slot(e) : e \in entries}}
          PROVE  x \in entries
      BY <2>2
    <3>2. ASSUME NEW x \in entries
          PROVE  x \in {s.entry : s \in {slot(e) : e \in entries}}
      <4>1. slot(x) \in {slot(e) : e \in entries}
        OBVIOUS
      <4>2. QED
        BY <2>2, <4>1
    <3>3. QED
      BY <3>1, <3>2
  <2>4. QED
    BY <1>3, <2>1, <2>3
<1>7. QED
  BY <1>5, <1>6

\* Resolve and Get tell one story: a text leads to an object by exactly the aliases that
\* the default view of the object shows.
THEOREM ResolveAndGetAgree == Spec => []ResolveAgreesWithGet
<1>1. FullInv /\ RecordsSound => ResolveAgreesWithGet
  <2> SUFFICES ASSUME FullInv, RecordsSound, NEW text, NEW lang, NEW id \in Named(objects)
               PROVE  id \in Resolve(objects, records, text, lang).alias <=>
                        /\ objects[id].label # CanonLabel(text)
                        /\ \E alias \in ShownAliases(id) :
                             lang \in {"", alias.lang} /\ NormAlias(alias.text) = NormAlias(text)
    BY DEF ResolveAgreesWithGet
  <2>1. id \in Resolve(objects, records, text, lang).alias <=>
          objects[id].label # CanonLabel(text) /\ HasAlias(records, id, text, lang)
    BY DEF Resolve
  <2>2. HasAlias(records, id, text, lang) <=>
          \E r \in AliasesOf(id) : /\ lang \in {"", r.entry.lang}
                                  /\ NormAlias(r.entry.text) = NormAlias(text)
    <3>1. \A r \in AliasesOf(id) : IsAlias(r.entry)
      BY AliasesOfAre
    <3>2. QED
      BY <3>1 DEF HasAlias, AliasesOf
  <2>3. ShownAliases(id) = {r.entry : r \in AliasesOf(id)}
    BY ShownAliasesAre
  <2>4. QED
    BY <2>1, <2>2, <2>3
<1>2. QED
  BY <1>1, FullInvariant, RecordsAreSound, PTL

-----------------------------------------------------------------------------
(* The order of the records. *)

\* The records of recs under other positions.
Rearranged(recs, other) ==
  /\ IsFiniteSet(DOMAIN other) /\ DOMAIN other \in SUBSET Nat
  /\ {other[i] : i \in DOMAIN other} = {recs[i] : i \in DOMAIN recs}
  /\ \A i, j \in DOMAIN other : other[i].id = other[j].id => i = j

LEMMA OfAKind ==
  ASSUME NEW recs, NEW kind
  PROVE  {recs[i] : i \in RecordsOf(recs, kind)} = {r \in {recs[i] : i \in DOMAIN recs} : r.type = kind}
BY DEF RecordsOf

\* What is retracted is what some retraction names, wherever it is.
LEMMA RetractedForgetsOrder ==
  ASSUME NEW recs, NEW other, Rearranged(recs, other)
  PROVE  Retracted(recs) = Retracted(other)
<1>1. \A q : Retracted(q) = {r.retracts : r \in {q[i] : i \in RecordsOf(q, "retraction")}}
  BY DEF Retracted
<1>2. {recs[i] : i \in RecordsOf(recs, "retraction")} = {other[i] : i \in RecordsOf(other, "retraction")}
  <2> DEFINE R == {recs[i] : i \in DOMAIN recs}
             S == {other[i] : i \in DOMAIN other}
  <2>1. R = S
    BY DEF Rearranged
  <2>2. {recs[i] : i \in RecordsOf(recs, "retraction")} = {r \in R : r.type = "retraction"}
    BY OfAKind
  <2>3. {other[i] : i \in RecordsOf(other, "retraction")} = {r \in S : r.type = "retraction"}
    BY OfAKind
  <2> HIDE DEF R, S
  <2>4. QED
    BY <2>1, <2>2, <2>3
<1>3. QED
  BY <1>1, <1>2

LEMMA EnrichmentsForgetOrder ==
  ASSUME NEW recs, NEW other, Rearranged(recs, other), NEW id, NEW withRetracted
  PROVE  EnrichmentsAbout(recs, id, withRetracted) = EnrichmentsAbout(other, id, withRetracted)
<1>1. Retracted(recs) = Retracted(other)
  BY RetractedForgetsOrder
<1>2. About(recs, "enrichment", id) = About(other, "enrichment", id)
  BY DEF About, Rearranged
<1>3. QED
  BY <1>1, <1>2 DEF EnrichmentsAbout

\* The same taxonomy, and in the same order of timestamps and identifiers.
LEMMA TaxonomyForgetsOrder ==
  ASSUME NEW recs, NEW other, Rearranged(recs, other), NEW field, Ordered(Edges(recs, field))
  PROVE  LET E == Edges(other, field) IN
         /\ IsFiniteSet(DOMAIN E) /\ DOMAIN E \in SUBSET Nat
         /\ Ordered(E)
         /\ Pairs(E) = Pairs(Edges(recs, field))
<1> DEFINE E == Edges(recs, field)
           F == Edges(other, field)
<1>1. /\ DOMAIN E = {i \in DOMAIN recs : /\ recs[i].type = "enrichment" /\ recs[i].field = field
                                         /\ recs[i].id \notin Retracted(recs)}
      /\ \A i \in DOMAIN E : E[i] = recs[i]
  BY DEF Edges, RecordsOf
<1>2. /\ DOMAIN F = {i \in DOMAIN other : /\ other[i].type = "enrichment" /\ other[i].field = field
                                          /\ other[i].id \notin Retracted(recs)}
      /\ \A i \in DOMAIN F : F[i] = other[i]
  BY RetractedForgetsOrder DEF Edges, RecordsOf
<1> HIDE DEF E, F
<1>3. \A i \in DOMAIN F : \E j \in DOMAIN E : F[i] = E[j]
  <2> SUFFICES ASSUME NEW i \in DOMAIN F PROVE \E j \in DOMAIN E : F[i] = E[j]
    OBVIOUS
  <2>1. PICK j \in DOMAIN recs : other[i] = recs[j]
    BY <1>2 DEF Rearranged
  <2>2. j \in DOMAIN E
    BY <1>1, <1>2, <2>1
  <2>3. QED
    BY <1>1, <1>2, <2>1, <2>2
<1>4. \A j \in DOMAIN E : \E i \in DOMAIN F : F[i] = E[j]
  <2> SUFFICES ASSUME NEW j \in DOMAIN E PROVE \E i \in DOMAIN F : F[i] = E[j]
    OBVIOUS
  <2>1. PICK i \in DOMAIN other : other[i] = recs[j]
    BY <1>1 DEF Rearranged
  <2>2. i \in DOMAIN F
    BY <1>1, <1>2, <2>1
  <2>3. QED
    BY <1>1, <1>2, <2>1, <2>2
<1>5. Pairs(F) = Pairs(E)
  BY <1>3, <1>4 DEF Pairs
<1>6. DOMAIN F \subseteq DOMAIN other
  BY <1>2
<1>7. IsFiniteSet(DOMAIN F) /\ DOMAIN F \in SUBSET Nat
  BY <1>6, FS_Subset DEF Rearranged
<1>8. Ordered(F)
  <2>1. \A i \in DOMAIN F : F[i].timestamp \in Int /\ Rank(F[i].id) \in Int
    BY <1>3 DEF Ordered, E
  <2>2. ASSUME NEW i \in DOMAIN F, NEW j \in DOMAIN F, i # j
        PROVE  F[i].id # F[j].id /\ Rank(F[i].id) # Rank(F[j].id)
    <3>1. F[i].id # F[j].id
      BY <1>2, <2>2 DEF Rearranged
    <3>2. PICK k \in DOMAIN E, l \in DOMAIN E : F[i] = E[k] /\ F[j] = E[l]
      BY <1>3
    <3>3. k # l
      BY <3>1, <3>2
    <3>4. QED
      BY <3>1, <3>2, <3>3 DEF Ordered, E
  <2>3. QED
    BY <2>1, <2>2 DEF Ordered
<1>9. QED
  BY <1>5, <1>7, <1>8 DEF E, F

\* Nothing is kept from the view of a taxonomy without a cycle.
LEMMA NothingIsExcluded ==
  ASSUME NEW recs, NEW field, NEW E, E = Edges(recs, field),
         IsFiniteSet(DOMAIN E), DOMAIN E \in SUBSET Nat, Ordered(E), ~HasCycle(Pairs(E))
  PROVE  ExcludedEdges(recs, field) = {}
<1> DEFINE K == Cardinality(DOMAIN E)
           R == Rest(E, {})
<1>1. PICK w : IsExclusion(w, E, ExcludedEdges(recs, field))
  BY ExclusionUnfolds
<1>2. K \in Nat
  BY FS_CardinalityType
<1>3. LatestInCycle(R) = {}
  <2>1. DOMAIN R = DOMAIN E /\ \A i \in DOMAIN R : R[i] = E[i]
    BY DEF Rest
  <2> HIDE DEF R
  <2>2. Pairs(R) = Pairs(E)
    BY <2>1 DEF Pairs
  <2>3. FindCycle(R) = {}
    BY <2>1, <2>2, SearchIsComplete
  <2>4. QED
    BY <2>3 DEF LatestInCycle
<1>4. \A n \in 1 .. K : w[n - 1] \in {{}} => w[n] \in {{}}
  BY <1>1, <1>3 DEF IsExclusion
<1>5. w[0] \in {{}} /\ ExcludedEdges(recs, field) = w[K]
  BY <1>1 DEF IsExclusion
<1> HIDE DEF K
<1>6. \A n \in 0 .. K : w[n] \in {{}}
  BY <1>2, <1>4, <1>5, Stays
<1>7. QED
  BY <1>2, <1>5, <1>6

\* Any replica with the records of this one, in any order, shows what this one shows:
\* Get and Resolve of store.go do not depend on the order of acyclic taxonomies.
THEOREM ViewsAreOfTheRecords ==
  ASSUME FullInv, NEW other, Rearranged(records, other),
         \A field \in Hierarchies : ~HasCycle(Concepts(field, {}))
  PROVE  /\ \A id, view : Materialized(records, id, view) = Materialized(other, id, view)
         /\ \A text, lang : Resolve(objects, records, text, lang) = Resolve(objects, other, text, lang)
<1>1. ASSUME NEW field \in Hierarchies
      PROVE  ExcludedEdges(records, field) = {} /\ ExcludedEdges(other, field) = {}
  <2> DEFINE E == Edges(records, field)
             F == Edges(other, field)
  <2>1. IsFiniteSet(DOMAIN E) /\ DOMAIN E \in SUBSET Nat /\ Ordered(E)
    BY EdgesOfAField
  <2>2. ~HasCycle(Pairs(E))
    BY AllConcepts
  <2>3. IsFiniteSet(DOMAIN F) /\ DOMAIN F \in SUBSET Nat /\ Ordered(F) /\ Pairs(F) = Pairs(E)
    BY <2>1, TaxonomyForgetsOrder
  <2>4. ExcludedEdges(records, field) = {}
    BY <2>1, <2>2, NothingIsExcluded
  <2>5. ~HasCycle(Pairs(F))
    BY <2>2, <2>3
  <2>6. ExcludedEdges(other, field) = {}
    BY <2>3, <2>5, NothingIsExcluded
  <2>7. QED
    BY <2>4, <2>6
<1>2. CycleBroken(records) = {} /\ CycleBroken(other) = {}
  BY <1>1 DEF CycleBroken, Hierarchies
<1>3. ASSUME NEW id, NEW view
      PROVE  Materialized(records, id, view) = Materialized(other, id, view)
  <2>1. Shown(records, id, view) = Shown(other, id, view)
    BY <1>2, EnrichmentsForgetOrder DEF Shown
  <2>2. QED
    BY <2>1 DEF Materialized
<1>4. ASSUME NEW text, NEW lang
      PROVE  Resolve(objects, records, text, lang) = Resolve(objects, other, text, lang)
  <2>1. ASSUME NEW id
        PROVE  HasAlias(records, id, text, lang) <=> HasAlias(other, id, text, lang)
    <3>1. \A all : EnrichmentsAbout(records, id, all) = EnrichmentsAbout(other, id, all)
      BY EnrichmentsForgetOrder
    <3>2. EnrichmentsAbout(records, id, FALSE) = EnrichmentsAbout(other, id, FALSE)
      BY <3>1, Zenon
    <3>3. QED
      BY <3>2, Zenon DEF HasAlias
  <2>2. QED
    BY <2>1 DEF Resolve
<1>5. QED
  BY <1>3, <1>4

\* While the taxonomies have no cycle, the records turned round give the same views and
\* the same answers.
THEOREM OrderIsForgotten == Spec => []ViewsForgetOrder
<1>1. FullInv => ViewsForgetOrder
  <2> SUFFICES ASSUME FullInv, \A field \in Hierarchies : ~HasCycle(Concepts(field, {}))
               PROVE  /\ \A id, view : Materialized(records, id, view) = Materialized(Backwards(records), id, view)
                      /\ \A text, lang : Resolve(objects, records, text, lang)
                                         = Resolve(objects, Backwards(records), text, lang)
    BY DEF ViewsForgetOrder
  <2> DEFINE other == Backwards(records)
             N == Len(records)
  <2>1. /\ N \in Nat /\ DOMAIN records = 1 .. N
        /\ \A i, j \in DOMAIN records : records[i].id = records[j].id => i = j
    BY DEF FullInv, StoreInv, RecordsOK
  <2>2. DOMAIN other = 1 .. N /\ \A i \in 1 .. N : other[i] = records[N + 1 - i]
    BY <2>1 DEF Backwards
  <2> HIDE DEF other, N
  <2>3. \A i \in 1 .. N : N + 1 - i \in 1 .. N /\ N + 1 - (N + 1 - i) = i
    BY <2>1
  <2>4. {other[i] : i \in DOMAIN other} = {records[i] : i \in DOMAIN records}
    <3>1. \A i \in 1 .. N : \E j \in 1 .. N : other[i] = records[j]
      BY <2>2, <2>3
    <3>2. ASSUME NEW j \in 1 .. N
          PROVE  \E i \in 1 .. N : other[i] = records[j]
      <4>1. N + 1 - j \in 1 .. N /\ N + 1 - (N + 1 - j) = j
        BY <2>3
      <4>2. other[N + 1 - j] = records[j]
        BY <2>2, <4>1
      <4>3. QED
        BY <4>1, <4>2
    <3>3. DOMAIN other = 1 .. N /\ DOMAIN records = 1 .. N
      BY <2>1, <2>2
    <3> HIDE DEF N
    <3> DEFINE R == {other[i] : i \in 1 .. N}
               S == {records[i] : i \in 1 .. N}
    <3>4. R \subseteq S
      BY <3>1
    <3>5. S \subseteq R
      BY <3>2
    <3>6. R = S
      BY <3>4, <3>5
    <3>7. QED
      BY <3>3, <3>6
  <2>5. ASSUME NEW i \in DOMAIN other, NEW j \in DOMAIN other, other[i].id = other[j].id
        PROVE  i = j
    <3> DEFINE k == N + 1 - i
               l == N + 1 - j
    <3>1. k = l
      <4>1. k \in DOMAIN records /\ l \in DOMAIN records
        BY <2>1, <2>2, <2>3
      <4>2. records[k].id = records[l].id
        BY <2>2, <2>5
      <4> HIDE DEF k, l
      <4>3. QED
        BY <2>1, <4>1, <4>2
    <3>2. QED
      BY <2>1, <2>2, <3>1
  <2>6. IsFiniteSet(DOMAIN other) /\ DOMAIN other \in SUBSET Nat
    BY <2>1, <2>2, CountUpTo
  <2>7. Rearranged(records, other)
    BY <2>4, <2>5, <2>6 DEF Rearranged
  <2>8. QED
    BY <2>7, ViewsAreOfTheRecords DEF other
<1>2. QED
  BY <1>1, FullInvariant, PTL
=============================================================================
