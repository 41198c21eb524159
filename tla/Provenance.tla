------------------------------ MODULE Provenance ------------------------------
(***************************************************************************)
(* The data of a Causalontology store and the pure rules the store applies  *)
(* to it: which identifiers belong to the local-by-default token tier, the   *)
(* succession lineage of a signing key, the records a set of retractions     *)
(* withdraws, and the cycle test of the taxonomy fields.                     *)
(*                                                                           *)
(* An item is one identifier of the content-addressed universe, a content    *)
(* object or a signed provenance record; Body gives the fields of it that    *)
(* the rules read.  An identifier is the hash of the content, so an item     *)
(* never changes: only which items a store holds does.                       *)
(*                                                                           *)
(* In this project a "variant" of a definition is what a likely mistake      *)
(* would make of it.  No specification uses one: PROJECT.json says which     *)
(* property would notice it.                                                 *)
(***************************************************************************)
EXTENDS Naturals, Sequences, FiniteSets

CONSTANTS Item,      \* identifiers of content objects and provenance records
          Key,       \* Ed25519 public keys that sign records
          Body,      \* identifier -> the fields of the object or record
          Verified,  \* items whose identifier (object) or signature (record) verifies
          Valid      \* items that pass the schema and the local semantic rules

ContentBody     == [type : {"content"}, token : BOOLEAN]
AssertionBody   == [type : {"assertion"}, source : Key, about : Item]
EnrichmentBody  == [type : {"enrichment"}, source : Key, field : STRING,
                    about : Item, entry : Item]
RetractionBody  == [type : {"retraction"}, source : Key, retracts : Item]
SuccessionBody  == [type : {"succession"}, predecessor : Key, successor : Key]

\* Bodies have the shape their kind requires, and the gates' verdicts are
\* functions of the item alone.
ASSUME BodyAssumption ==
  /\ Body \in [Item -> ContentBody \cup AssertionBody \cup EnrichmentBody
                         \cup RetractionBody \cup SuccessionBody]
  /\ Verified \subseteq Item
  /\ Valid \subseteq Item

Content     == {i \in Item : Body[i].type = "content"}
Record      == Item \ Content
Enrichment  == {i \in Item : Body[i].type = "enrichment"}
Retraction  == {i \in Item : Body[i].type = "retraction"}
Succession  == {i \in Item : Body[i].type = "succession"}

-----------------------------------------------------------------------------
(***************************************************************************)
(* The token tier: content of the token kinds, and every record that names   *)
(* such content.  A retraction names the record it withdraws, whose          *)
(* identifier has no token scheme, so it is not of the token tier even when  *)
(* the record it withdraws is.                                               *)
(***************************************************************************)
TokenId == {i \in Content : Body[i].token}

References(i) == CASE Body[i].type = "assertion"  -> {Body[i].about}
                   [] Body[i].type = "enrichment" -> {Body[i].about, Body[i].entry}
                   [] Body[i].type = "retraction" -> {Body[i].retracts}
                   [] OTHER                       -> {}

TokenTier == {i \in Item : i \in TokenId \/ References(i) \cap TokenId # {}}

-----------------------------------------------------------------------------
(***************************************************************************)
(* Succession lineage.  The chain of a key is everything reached backwards   *)
(* from it along the successions in B and forwards along those in F; a store *)
(* that holds rival successions follows the last one it stored, which is why *)
(* the two directions may use different sets.                                *)
(***************************************************************************)
ForwardClosed(F, C)  == \A s \in F : Body[s].predecessor \in C => Body[s].successor \in C
BackwardClosed(B, C) == \A s \in B : Body[s].successor \in C => Body[s].predecessor \in C

Descendants(F, k) == {x \in Key : \A C \in SUBSET Key :
                                     k \in C /\ ForwardClosed(F, C) => x \in C}
Ancestors(B, k)   == {x \in Key : \A C \in SUBSET Key :
                                     k \in C /\ BackwardClosed(B, C) => x \in C}

LineageVia(F, B, k) == Ancestors(B, k) \cup Descendants(F, k)

\* The pointer walk of lineage() stops at a key that has no next one; it never
\* stops when every key it can reach has one.
WalkDiverges(F, B, k) ==
  \/ \A x \in Descendants(F, k) : \E s \in F : Body[s].predecessor = x
  \/ \A x \in Ancestors(B, k)   : \E s \in B : Body[s].successor = x

(***************************************************************************)
(* The gate on a retraction r by a store that holds H and follows F and B.   *)
(* An absent target is accepted, it may arrive later (open world); a target  *)
(* that is a succession has no source field, and reading it raises.          *)
(***************************************************************************)
TargetHeld(H, r) == Body[r].retracts \in H \cap Record

\* Variant: whoever signs it may retract what is held.
RetractionSourceUnchecked(H, F, B, r) ==
  TargetHeld(H, r) => Body[r].retracts \notin Succession

RetractionSourceOk(H, F, B, r) ==
  TargetHeld(H, r) => /\ Body[r].retracts \notin Succession
                      /\ Body[r].source \in LineageVia(F, B, Body[Body[r].retracts].source)

SourceCheckDiverges(H, F, B, r) ==
  /\ TargetHeld(H, r)
  /\ Body[r].retracts \notin Succession
  /\ WalkDiverges(F, B, Body[Body[r].retracts].source)

-----------------------------------------------------------------------------
(***************************************************************************)
(* What the retractions in H withdraw.  Every stored retraction counts, also *)
(* one that is itself the target of another retraction.                      *)
(***************************************************************************)
\* Variant: a retraction that is itself retracted no longer counts.
RetractedByUnretracted(H) ==
  LET R == H \cap Retraction
  IN {Body[r].retracts : r \in {q \in R : \A p \in R : Body[p].retracts # q}}

RetractedIds(H) == {Body[r].retracts : r \in H \cap Retraction}

(***************************************************************************)
(* The taxonomy graph of a field: its unretracted enrichments, each an edge  *)
(* from the object it is about to its entry.  It has a cycle when some       *)
(* records can be put so that each one's entry is what another is about.     *)
(***************************************************************************)
CheckedField == {"subsumes", "part_of"}

ActiveEdges(H, f) == {r \in H \cap Enrichment : Body[r].field = f} \ RetractedIds(H)

IsCyclic(R) == \E C \in SUBSET R : /\ C # {}
                                   /\ \A r \in C : \E s \in C : Body[r].entry = Body[s].about

\* Variants: the graph is tested without the new edge; retracted edges count.
CyclicAlready(H, r)      == IsCyclic(ActiveEdges(H, Body[r].field))
WouldCycleEverHeld(H, r) ==
  IsCyclic({e \in H \cap Enrichment : Body[e].field = Body[r].field} \cup {r})

WouldCycle(H, r) == IsCyclic(ActiveEdges(H, Body[r].field) \cup {r})

\* Concept b can be reached from concept a over the edges in R.
Reaches(R, a, b) ==
  \A S \in SUBSET Item :
    (a \in S /\ \A r \in R : Body[r].about \in S => Body[r].entry \in S) => b \in S
=============================================================================
