-------------------------------- MODULE Store --------------------------------
(***************************************************************************)
(* One store node under the concurrent handler threads of the server: the    *)
(* content table, the add-only provenance table, and the quarantine, written *)
(* through put, put_record and force_merge_record.                           *)
(*                                                                           *)
(* The server runs each request in a thread of its own and takes no lock     *)
(* around the store, so put_record is two steps here: the gates read the     *)
(* tables, and later the row is inserted.  Between the two any other thread  *)
(* may write.  A gate that walks a cyclic succession chain never returns.    *)
(***************************************************************************)
EXTENDS Provenance

CONSTANTS Handler,    \* request handler threads
          Enforcing,  \* TRUE for an enforcing tier, FALSE for a replica
          Posted,     \* items that clients POST
          Merged,     \* items that arrive by replica merge (no cycle gate)
          Altered     \* records of which a copy that does not verify arrives

ASSUME StoreAssumption ==
  /\ Enforcing \in BOOLEAN
  /\ Posted \subseteq Item
  /\ Merged \subseteq Item
  /\ Altered \subseteq Record

VARIABLES objects,     \* identifiers in the content table
          records,     \* provenance table in insertion (rowid) order
          quarantine,  \* records that did not verify
          pending,     \* pending[h]: the record handler h has admitted and not stored
          walking      \* handlers caught in an endless lineage walk

vars == <<objects, records, quarantine, pending, walking>>

Held == {records[n] : n \in DOMAIN records}

(***************************************************************************)
(* lineage() fills its two maps in insertion order, so of two successions    *)
(* with one predecessor the forward walk takes the one stored last, and of   *)
(* two with one successor so does the backward walk.                         *)
(***************************************************************************)
FollowedForward ==
  {records[n] : n \in {n \in DOMAIN records :
     /\ records[n] \in Succession
     /\ \A m \in DOMAIN records :
          /\ m > n
          /\ records[m] \in Succession
          => Body[records[m]].predecessor # Body[records[n]].predecessor}}

FollowedBackward ==
  {records[n] : n \in {n \in DOMAIN records :
     /\ records[n] \in Succession
     /\ \A m \in DOMAIN records :
          /\ m > n
          /\ records[m] \in Succession
          => Body[records[m]].successor # Body[records[n]].successor}}

-----------------------------------------------------------------------------
Init ==
  /\ objects = {}
  /\ records = <<>>
  /\ quarantine = {}
  /\ pending = [h \in Handler |-> {}]
  /\ walking = {}

Idle(h) == pending[h] = {} /\ h \notin walking

\* put: a content object is stored once, if its identifier is the hash of its
\* content and the schema and semantic gates let it pass.
Put(h, i) ==
  /\ Idle(h)
  /\ i \in Content \ objects
  /\ i \in Valid
  /\ i \in Verified
  /\ objects' = objects \cup {i}
  /\ UNCHANGED <<records, quarantine, pending, walking>>

\* put_record, a copy of a record that does not verify is kept apart and
\* refused.  The signature is outside the identifier, so a copy may fail of a
\* record whose signed copy is stored later.
Quarantine(h, i) ==
  /\ Idle(h)
  /\ i \in Altered \ Held
  /\ quarantine' = quarantine \cup {i}
  /\ UNCHANGED <<objects, records, pending, walking>>

\* put_record, the part every gated record shares: not held, its signature
\* verifies and the local semantic rules hold.
Gated(h, i) ==
  /\ Idle(h)
  /\ i \in Record \ Held
  /\ i \in Verified
  /\ i \in Valid

PassesRetractionGate(i) ==
  i \in Retraction =>
    /\ ~SourceCheckDiverges(Held, FollowedForward, FollowedBackward, i)
    /\ RetractionSourceOk(Held, FollowedForward, FollowedBackward, i)

PassesCycleGate(i, force) ==
  i \in Enrichment /\ Enforcing /\ ~force /\ Body[i].field \in CheckedField
    => ~WouldCycle(Held, i)

\* put_record, every gate passes: the thread goes on to store the record.  A
\* record that a gate refuses, or that is held, leaves the store as it was.
Admit(h, i, force) ==
  /\ Gated(h, i)
  /\ PassesRetractionGate(i)
  /\ PassesCycleGate(i, force)
  /\ pending' = [pending EXCEPT ![h] = {i}]
  /\ UNCHANGED <<objects, records, quarantine, walking>>

\* put_record, the walk of the target's lineage never ends: no answer.
Diverge(h, i) ==
  /\ Gated(h, i)
  /\ i \in Retraction
  /\ SourceCheckDiverges(Held, FollowedForward, FollowedBackward, i)
  /\ walking' = walking \cup {h}
  /\ UNCHANGED <<objects, records, quarantine, pending>>

\* Variant: a plain INSERT.
InsertAgain(h) ==
  \E i \in pending[h] :
    /\ records' = Append(records, i)
    /\ pending' = [pending EXCEPT ![h] = {}]
    /\ UNCHANGED <<objects, quarantine, walking>>

\* put_record, the INSERT OR IGNORE of an admitted record.
Insert(h) ==
  \E i \in pending[h] :
    /\ records' = IF i \in Held THEN records ELSE Append(records, i)
    /\ pending' = [pending EXCEPT ![h] = {}]
    /\ UNCHANGED <<objects, quarantine, walking>>

\* POST /objects and POST /records.
Post(h) ==
  \E i \in Posted : Put(h, i) \/ Quarantine(h, i) \/ Diverge(h, i) \/ Admit(h, i, FALSE)

\* verified_merge and merge_bundle: no cycle gate, force_merge_record.
Merge(h) ==
  \E i \in Merged : Put(h, i) \/ Quarantine(h, i) \/ Diverge(h, i) \/ Admit(h, i, TRUE)

Next == \E h \in Handler : Post(h) \/ Merge(h) \/ Insert(h)

Spec == Init /\ [][Next]_vars

\* A thread that is running keeps running: an admitted record gets stored.
FairSpec == Spec /\ \A h \in Handler : WF_vars(Insert(h))

-----------------------------------------------------------------------------
(* Properties. *)

\* The tables hold what they are declared to hold, and no identifier has two
\* rows in the provenance table whatever the handlers race to insert.
TypeOK ==
  /\ objects \subseteq Content \cap Verified \cap Valid
  /\ records \in Seq(Record \cap Verified \cap Valid)
  /\ quarantine \subseteq Record
  /\ pending \in [Handler -> SUBSET (Record \cap Verified \cap Valid)]
  /\ walking \subseteq Handler
  /\ \A m, n \in DOMAIN records : records[m] = records[n] => m = n

\* An enforcing tier that takes no merges never materializes a cycle in the
\* subsumes or part_of graph (the gate of put_record), although the graph of
\* unretracted enrichments shrinks and grows as retractions and enrichments
\* arrive in any order.
TaxonomyAcyclic ==
  Enforcing => \A f \in CheckedField : ~IsCyclic(ActiveEdges(Held, f))

\* A record that an honest retraction has withdrawn never comes back to a
\* default view: nothing that is stored later, not even a retraction of the
\* retraction, reinstates it.
RetractionStands == [][RetractedIds(Held) \subseteq RetractedIds(Held')]_vars

\* A retraction that was stored when its target already was is signed by the
\* target's source or by a key of its succession lineage (rule 10).
KnownTargetAuthorised ==
  \A m, n \in DOMAIN records :
    /\ m < n
    /\ records[n] \in Retraction
    /\ Body[records[n]].retracts = records[m]
    => /\ records[m] \notin Succession
       /\ Body[records[n]].source \in
            LineageVia(Held \cap Succession, Held \cap Succession, Body[records[m]].source)

\* An enrichment is refused for a cycle only when it would itself lie on one:
\* its entry reaches, over the active edges, the object it is about.
RefusedOnlyForOwnCycle ==
  \A i \in (Posted \cap Enrichment) \ Held :
    ~PassesCycleGate(i, FALSE) =>
      Reaches(ActiveEdges(Held, Body[i].field), Body[i].entry, Body[i].about)

\* Every handler that has taken a request answers it.
HandlersAnswer == \A h \in Handler : h \in walking ~> h \notin walking
=============================================================================
