----------------------------- MODULE LightClient -----------------------------
(***************************************************************************)
(* A light client decides what it believes about an object (believe_about):  *)
(* it reads the assertions about the object from several nodes, then the     *)
(* retractions of each of them, then the successions of every source it met, *)
(* and applies the retractions itself.  It asks for histories, which nodes   *)
(* list in the order of insertion and a page at a time, and the nodes go on  *)
(* storing records while it reads.                                           *)
(*                                                                           *)
(* A query is named by what it asks for: the object for the assertions about *)
(* it, an assertion for its retractions, a key for its successions.          *)
(***************************************************************************)
EXTENDS Provenance

CONSTANTS N,         \* number of nodes that are asked
          About,     \* the object that the question is about
          Arrivals,  \* <<n, i>>: node n may store record i
          PageSize,  \* records on a page of a listing
          Trusted    \* assertions that the consumer's trust policy accepts

Node      == 1 .. N
Assertion == {i \in Item : Body[i].type = "assertion"}
Query     == {About} \cup Assertion \cup Key

\* The records that a query asks for.
Answers(q) ==
  {i \in Record :
     \/ i \in Assertion /\ q = About /\ Body[i].about = About
     \/ i \in Retraction /\ q \in Assertion /\ Body[i].retracts = q
     \/ i \in Succession /\ q \in Key /\ q \in {Body[i].predecessor, Body[i].successor}}

ASSUME ClientAssumption ==
  /\ N \in Nat \ {0}
  /\ About \in Content
  /\ Key \cap Item = {}
  /\ Arrivals \subseteq Node \X Record
  /\ PageSize \in Nat \ {0}

\* No succession contradicts another one and none closes a loop.
ASSUME LineAssumption ==
  /\ \A s, t \in Succession : s # t => /\ Body[s].predecessor # Body[t].predecessor
                                       /\ Body[s].successor # Body[t].successor
  /\ \A s \in Succession : ~WalkDiverges(Succession, Succession, Body[s].predecessor)

VARIABLES listing,   \* listing[n][q]: what node n lists for q, in order of insertion
          stage,     \* what the client is collecting
          todo,      \* <<n, q>>: listings that it has still to read
          reading,   \* the listing that it is reading and how far, or none
          got,       \* verified records that it has collected
          believed,  \* its answer
          early,     \* the listings when it began (history)
          failed     \* nodes that did not answer it (history)

vars == <<listing, stage, todo, reading, got, believed, early, failed>>

NotReading == [node |-> "none"]
Reading    == [node : Node, query : Query, offset : Nat]

Listed(l) == {l[j] : j \in DOMAIN l}

Stored(n) == UNION {Listed(listing[n][q]) : q \in Query}

-----------------------------------------------------------------------------
Init ==
  /\ listing = [n \in Node |-> [q \in Query |-> <<>>]]
  /\ stage = "idle"
  /\ todo = {}
  /\ reading = NotReading
  /\ got = {}
  /\ believed = {}
  /\ early = listing
  /\ failed = {}

\* A node stores a record, which comes last in every listing that it belongs to.
Store(n, i) ==
  /\ <<n, i>> \in Arrivals
  /\ i \notin Stored(n)
  /\ listing' = [listing EXCEPT ![n] =
                   [q \in Query |-> IF i \in Answers(q) THEN Append(listing[n][q], i)
                                                        ELSE listing[n][q]]]
  /\ UNCHANGED <<stage, todo, reading, got, believed, early, failed>>

\* believe_about is called; it begins with the assertions.
Begin ==
  /\ stage = "idle"
  /\ stage' = "assertions"
  /\ todo' = Node \X {About}
  /\ early' = listing
  /\ UNCHANGED <<listing, reading, got, believed, failed>>

\* collect is called for one query after the other, and asks one node after the
\* other; which query comes first is open.
IsNext(n, q) ==
  /\ <<n, q>> \in todo
  /\ \A x \in todo : IF x[2] = q THEN n <= x[1] ELSE <<1, x[2]>> \in todo

\* _get_all: begin with the first page of a listing.
Open(n, q) ==
  /\ reading = NotReading
  /\ IsNext(n, q)
  /\ todo' = todo \ {<<n, q>>}
  /\ reading' = [node |-> n, query |-> q, offset |-> 0]
  /\ UNCHANGED <<listing, stage, got, believed, early, failed>>

\* Variant: the listing of a default view leaves out what is retracted.
PageOfDefaultView(n, q, o) ==
  LET shown == SelectSeq(listing[n][q], LAMBDA i : Listed(listing[n][i]) = {})
      l     == IF q = About THEN shown ELSE listing[n][q]
  IN [items |-> {l[j] : j \in {j \in DOMAIN l : o < j /\ j <= o + PageSize}},
      more  |-> o + PageSize < Len(l)]

\* A page of the listing from an offset, and whether more follow.
Page(n, q, o) ==
  LET l == listing[n][q]
  IN [items |-> {l[j] : j \in {j \in DOMAIN l : o < j /\ j <= o + PageSize}},
      more  |-> o + PageSize < Len(l)]

\* Variant: what does not verify is kept too.
ReadUnverified ==
  /\ reading \in Reading
  /\ LET page == Page(reading.node, reading.query, reading.offset)
     IN /\ got' = got \cup page.items
        /\ reading' = IF page.more THEN [reading EXCEPT !.offset = @ + PageSize]
                                   ELSE NotReading
  /\ UNCHANGED <<listing, stage, todo, believed, early, failed>>

\* A page arrives: keep the records that verify, and ask for the next page.
Read ==
  /\ reading \in Reading
  /\ LET page == Page(reading.node, reading.query, reading.offset)
     IN /\ got' = got \cup (page.items \cap Verified)
        /\ reading' = IF page.more THEN [reading EXCEPT !.offset = @ + PageSize]
                                   ELSE NotReading
  /\ UNCHANGED <<listing, stage, todo, believed, early, failed>>

\* Variant: a listing that could not be read is asked for again.
MissAndRetry ==
  /\ reading \in Reading
  /\ failed' = failed \cup {reading.node}
  /\ reading' = NotReading
  /\ todo' = todo \cup {<<reading.node, reading.query>>}
  /\ UNCHANGED <<listing, stage, got, believed, early>>

\* No page arrives: make do with the pages before.
Miss ==
  /\ reading \in Reading
  /\ failed' = failed \cup {reading.node}
  /\ reading' = NotReading
  /\ UNCHANGED <<listing, stage, todo, got, believed, early>>

Finished(s) == stage = s /\ todo = {} /\ reading = NotReading

AskRetractions ==
  /\ Finished("assertions")
  /\ stage' = "retractions"
  /\ todo' = Node \X (got \cap Assertion)
  /\ UNCHANGED <<listing, reading, got, believed, early, failed>>

\* Variant: the sources of the retractions are not asked about.
AskSuccessionsOfAssertions ==
  /\ Finished("retractions")
  /\ stage' = "successions"
  /\ todo' = Node \X {Body[r].source : r \in got \cap Assertion}
  /\ UNCHANGED <<listing, reading, got, believed, early, failed>>

AskSuccessions ==
  /\ Finished("retractions")
  /\ stage' = "successions"
  /\ todo' = Node \X {Body[r].source : r \in got \cap (Assertion \cup Retraction)}
  /\ UNCHANGED <<listing, reading, got, believed, early, failed>>

\* What the client merges into its own store: assertions and successions.
Merged == (got \ Retraction) \cap Valid

\* Variant: retractions are merged too.
HonouredUnchecked(r) == r \in got \cap Retraction \cap Valid

\* The retractions that the store then lets in.
Honoured(r) ==
  /\ r \in got \cap Retraction \cap Valid
  /\ RetractionSourceOk(Merged, Merged \cap Succession, Merged \cap Succession, r)

\* The rest of believe_about: apply the retractions, then the trust policy.
Decide ==
  /\ Finished("successions")
  /\ stage' = "done"
  /\ believed' = {a \in Merged \cap Assertion \cap Trusted :
                    \A r \in got \cap Retraction : Honoured(r) => Body[r].retracts # a}
  /\ UNCHANGED <<listing, todo, reading, got, early, failed>>

Client == \/ \E n \in Node, q \in Query : Open(n, q)
          \/ Read \/ AskRetractions \/ AskSuccessions \/ Decide

Next == Begin \/ Client \/ Miss \/ \E n \in Node, i \in Record : Store(n, i)

Spec == Init /\ [][Next]_vars

\* A request is answered or times out, and the client goes on either way.
FairSpec == Spec /\ WF_vars(Client \/ Miss)

-----------------------------------------------------------------------------
(* Properties. *)

\* Every variable has its type; a listing answers its query.
TypeOK ==
  /\ listing \in [Node -> [Query -> Seq(Record)]]
  /\ \A n \in Node, q \in Query : Listed(listing[n][q]) \subseteq Answers(q)
  /\ stage \in {"idle", "assertions", "retractions", "successions", "done"}
  /\ todo \subseteq Node \X Query
  /\ reading \in Reading \cup {NotReading}
  /\ got \subseteq Record \cap Verified
  /\ believed \subseteq Assertion \cap Trusted
  /\ early \in [Node -> [Query -> Seq(Record)]]
  /\ failed \subseteq Node

\* What the nodes that answered listed when the client began.
Known(q) == (UNION {Listed(early[n][q]) : n \in Node \ failed}) \cap Verified
AllKnown == UNION {Known(q) : q \in Query}

\* The pages miss no assertion, although nodes store and retract while they are
\* read (offset cursors, _get_all).
MissesNothing == stage = "done" => Known(About) \subseteq got

\* What was retracted with authority when the client began is not believed.
HonoursRetractions ==
  stage = "done" =>
    \A a \in believed, r \in AllKnown \cap Retraction \cap Valid :
      Body[r].retracts = a =>
        Body[r].source \notin LineageVia(AllKnown \cap Succession \cap Valid,
                                         AllKnown \cap Succession \cap Valid, Body[a].source)

\* Nothing else takes an assertion from the consumer: not a node's own view, and
\* not the retraction of a stranger that a node took before its target.
OnlyLineageWithdraws ==
  stage = "done" =>
    \A a \in (Known(About) \cap Valid \cap Trusted) \ believed :
      \E r \in got \cap Retraction :
        /\ Body[r].retracts = a
        /\ Body[r].source \in LineageVia(Succession, Succession, Body[a].source)

\* The call returns.
ClientReturns == stage = "assertions" ~> stage = "done"
=============================================================================
