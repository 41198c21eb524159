-------------------------- MODULE LightClientProofs --------------------------
(***************************************************************************)
(* What a light client may rely on, for any nodes, records and page size:    *)
(* its pages miss nothing, and only a source and its lineage can withdraw an *)
(* assertion from it.                                                        *)
(***************************************************************************)
EXTENDS LightClient, TLAPS

\* The client keeps what it has read: of a listing that it has finished all that
\* was there when it began, of the one it is reading all before the offset.
Kept(n, q) == Listed(early[n][q]) \cap Verified \subseteq got

ReadSoFar(n, q) ==
  /\ reading \in Reading
  /\ reading.node = n
  /\ reading.query = q
  /\ \A j \in DOMAIN listing[n][q] :
       j <= reading.offset /\ listing[n][q][j] \in Verified => listing[n][q][j] \in got

Served(n, q) == <<n, q>> \in todo \/ ReadSoFar(n, q) \/ Kept(n, q)

\* The queries that a stage makes, and all that the client has decided to make:
\* what it has collected decides what it asks for next.
StageQuery ==
  {q \in Query : \/ stage = "assertions" /\ q = About
                 \/ stage = "retractions" /\ q \in Assertion
                 \/ stage = "successions" /\ q \in Key}

Asked ==
  {q \in Query :
     \/ stage # "idle" /\ q = About
     \/ stage \in {"retractions", "successions", "done"} /\ q \in got \cap Assertion
     \/ stage \in {"successions", "done"}
          /\ \E r \in got \cap (Assertion \cup Retraction) : q = Body[r].source}

\* A node lists a record under every query that it answers.
Consistent(lists) ==
  \A n \in Node, p, q \in Query :
    \A i \in Listed(lists[n][p]) : i \in Answers(q) => i \in Listed(lists[n][q])

ListingsInv ==
  /\ Consistent(listing)
  /\ Consistent(early)
  /\ \A n \in Node, q \in Query : Listed(early[n][q]) \subseteq Listed(listing[n][q])

PagesInv ==
  /\ ListingsInv
  /\ reading \in Reading => reading.offset <= Len(listing[reading.node][reading.query])
  /\ reading \in Reading => reading.query \in StageQuery
  /\ \A x \in todo : x[2] \in StageQuery
  /\ \A n \in Node \ failed, q \in Asked : Served(n, q)

\* The answer is what Decide computes from the records.
DecidedInv ==
  stage = "done" =>
    /\ todo = {} /\ reading = NotReading
    /\ believed = {a \in Merged \cap Assertion \cap Trusted :
                     \A r \in got \cap Retraction : Honoured(r) => Body[r].retracts # a}

-----------------------------------------------------------------------------
(* Type correctness. *)

LEMMA ListedAfterAppend ==
  ASSUME NEW S, NEW l \in Seq(S), NEW x \in S
  PROVE  /\ Append(l, x) \in Seq(S)
         /\ Listed(Append(l, x)) = Listed(l) \cup {x}
         /\ Len(Append(l, x)) = Len(l) + 1
         /\ \A j \in DOMAIN l : Append(l, x)[j] = l[j]
BY DEF Listed

\* What a new record does to the listings.
LEMMA StoreAppends ==
  ASSUME TypeOK, NEW m \in Node, NEW i \in Record, Store(m, i),
         NEW n \in Node, NEW q \in Query
  PROVE  \/ listing'[n][q] = listing[n][q]
         \/ listing'[n][q] = Append(listing[n][q], i) /\ i \in Answers(q)
BY DEF Store, TypeOK

LEMMA SourcesAreKeys ==
  \A i \in Item : i \in Assertion \cup Retraction => Body[i].source \in Key
BY BodyAssumption DEF Assertion, Retraction, ContentBody, AssertionBody, EnrichmentBody,
                      RetractionBody, SuccessionBody

LEMMA TypeInvariant == TypeOK /\ [Next]_vars => TypeOK'
<1> SUFFICES ASSUME TypeOK, [Next]_vars PROVE TypeOK'
  OBVIOUS
<1>1. CASE UNCHANGED vars
  BY <1>1 DEF vars, TypeOK
<1>2. CASE Begin
  BY <1>2 DEF Begin, TypeOK, Query
<1>3. ASSUME NEW n \in Node, NEW q \in Query, Open(n, q) PROVE TypeOK'
  <2>1. reading' \in Reading
    BY <1>3 DEF Open, Reading
  <2> QED BY <1>3, <2>1 DEF Open, TypeOK
<1>4. CASE Read
  <2>1. reading' \in Reading \cup {NotReading}
    BY <1>4, ClientAssumption DEF Read, Reading
  <2>2. Page(reading.node, reading.query, reading.offset).items \subseteq Record
    BY <1>4 DEF Read, Reading, Page, TypeOK
  <2>3. got' \subseteq Record \cap Verified
    BY <1>4, <2>2 DEF Read, TypeOK
  <2> QED BY <1>4, <2>1, <2>3 DEF Read, TypeOK
<1>5. CASE Miss
  BY <1>5 DEF Miss, TypeOK, Reading
<1>6. CASE AskRetractions
  BY <1>6 DEF AskRetractions, TypeOK, Query
<1>7. CASE AskSuccessions
  <2>1. {Body[r].source : r \in got \cap (Assertion \cup Retraction)} \subseteq Query
    BY SourcesAreKeys DEF TypeOK, Query, Record
  <2>2. todo' \subseteq Node \X Query
    BY <1>7, <2>1 DEF AskSuccessions
  <2> QED BY <1>7, <2>2 DEF AskSuccessions, TypeOK
<1>8. CASE Decide
  BY <1>8 DEF Decide, TypeOK
<1>9. ASSUME NEW m \in Node, NEW i \in Record, Store(m, i) PROVE TypeOK'
  <2>1. \A n \in Node, q \in Query :
          listing'[n][q] \in Seq(Record) /\ Listed(listing'[n][q]) \subseteq Answers(q)
    <3> SUFFICES ASSUME NEW n \in Node, NEW q \in Query
                 PROVE  /\ listing'[n][q] \in Seq(Record)
                        /\ Listed(listing'[n][q]) \subseteq Answers(q)
      OBVIOUS
    <3>1. listing[n][q] \in Seq(Record) /\ Listed(listing[n][q]) \subseteq Answers(q)
      BY DEF TypeOK
    <3>2. CASE listing'[n][q] = listing[n][q]
      BY <3>1, <3>2
    <3>3. CASE listing'[n][q] = Append(listing[n][q], i) /\ i \in Answers(q)
      BY <3>1, <3>3, ListedAfterAppend
    <3> QED BY <1>9, <3>2, <3>3, StoreAppends
  <2>2. listing' \in [Node -> [Query -> Seq(Record)]]
    <3>1. /\ listing' = [n \in Node |-> listing'[n]]
          /\ \A n \in Node : listing'[n] = [q \in Query |-> listing'[n][q]]
      BY <1>9 DEF Store, TypeOK
    <3> QED BY <2>1, <3>1
  <2> QED BY <1>9, <2>1, <2>2 DEF Store, TypeOK
<1> QED BY <1>1, <1>2, <1>3, <1>4, <1>5, <1>6, <1>7, <1>8, <1>9 DEF Next, Client

LEMMA InitialTypes == Init => TypeOK
<1> SUFFICES ASSUME Init PROVE TypeOK
  OBVIOUS
<1>1. \A n \in Node, q \in Query : listing[n][q] = <<>> /\ Listed(listing[n][q]) = {}
  BY DEF Init, Listed
<1> QED BY <1>1 DEF Init, TypeOK

\* Every variable keeps its type, and the client keeps only what verifies (TypeOK).
THEOREM TypeCorrect == Spec => []TypeOK
BY InitialTypes, TypeInvariant, PTL DEF Spec

-----------------------------------------------------------------------------
(* The pages miss nothing. *)

LEMMA KindsAreDisjoint ==
  /\ Assertion \cap (Retraction \cup Succession) = {}
  /\ Retraction \cap Succession = {}
  /\ Assertion \cup Retraction \cup Succession \subseteq Record
  /\ About \notin Assertion
  /\ Key \cap (Assertion \cup {About}) = {}
BY ClientAssumption DEF Assertion, Retraction, Succession, Content, Record

\* A query for retractions or successions brings nothing that the client would ask
\* about in an earlier stage.
LEMMA AnswerKinds ==
  ASSUME NEW q \in Query
  PROVE  /\ q \in Assertion => Answers(q) \cap Assertion = {}
         /\ q \in Key => Answers(q) \cap (Assertion \cup Retraction) = {}
BY KindsAreDisjoint DEF Answers

\* What a client asks next follows from its stage and from what it has collected.
LEMMA AskedAfterStep ==
  ASSUME stage' = stage, got \subseteq got',
         stage \in {"retractions", "successions", "done"} =>
           got' \cap Assertion = got \cap Assertion,
         stage \in {"successions", "done"} => got' \cap Retraction = got \cap Retraction
  PROVE  Asked' = Asked /\ StageQuery' = StageQuery
BY DEF Asked, StageQuery

LEMMA StoreKeepsListings ==
  ASSUME TypeOK, ListingsInv, NEW m \in Node, NEW i \in Record, Store(m, i)
  PROVE  ListingsInv'
<1>1. early' = early
  BY DEF Store
<1>2. ASSUME NEW n \in Node, NEW q \in Query
      PROVE  /\ Listed(listing[n][q]) \subseteq Listed(listing'[n][q])
             /\ Listed(listing'[n][q]) \subseteq Listed(listing[n][q]) \cup {i}
             /\ n = m /\ i \in Answers(q) => i \in Listed(listing'[n][q])
             /\ n # m => listing'[n][q] = listing[n][q]
  <2>1. listing[n][q] \in Seq(Record)
    BY DEF TypeOK
  <2>2. n # m => listing'[n][q] = listing[n][q]
    BY DEF Store, TypeOK
  <2>3. n = m /\ i \in Answers(q) => listing'[n][q] = Append(listing[n][q], i)
    BY DEF Store, TypeOK
  <2>4. n = m /\ i \notin Answers(q) => listing'[n][q] = listing[n][q]
    BY DEF Store, TypeOK
  <2>5. CASE listing'[n][q] = listing[n][q] /\ ~(n = m /\ i \in Answers(q))
    BY <2>2, <2>5
  <2>6. CASE n = m /\ i \in Answers(q)
    <3> DEFINE l == listing[n][q]
    <3>1. l \in Seq(Record) /\ listing'[n][q] = Append(l, i)
      BY <2>1, <2>3, <2>6
    <3> HIDE DEF l
    <3>2. Listed(Append(l, i)) = Listed(l) \cup {i}
      BY <3>1, ListedAfterAppend
    <3> QED BY <2>6, <3>1, <3>2 DEF l
  <2> QED BY <2>2, <2>4, <2>5, <2>6
<1>3. Consistent(listing)'
  <2> SUFFICES ASSUME NEW n \in Node, NEW p \in Query, NEW q \in Query,
                      NEW x \in Listed(listing'[n][p]), x \in Answers(q)
               PROVE  x \in Listed(listing'[n][q])
    BY DEF Consistent
  <2>1. CASE x \in Listed(listing[n][p])
    BY <1>2, <2>1 DEF ListingsInv, Consistent
  <2>2. CASE x \notin Listed(listing[n][p])
    <3>1. x = i
      BY <1>2, <2>2
    <3>2. n = m
      BY <1>2, <2>2
    <3> QED BY <1>2, <3>1, <3>2
  <2> QED BY <2>1, <2>2
<1>4. Consistent(early)'
  BY <1>1 DEF ListingsInv, Consistent
<1>5. \A n \in Node, q \in Query : Listed(early'[n][q]) \subseteq Listed(listing'[n][q])
  BY <1>1, <1>2 DEF ListingsInv
<1> QED BY <1>3, <1>4, <1>5 DEF ListingsInv

LEMMA StoreKeeps ==
  ASSUME TypeOK, PagesInv, NEW m \in Node, NEW i \in Record, Store(m, i)
  PROVE  PagesInv'
<1>0. TypeOK'
  BY TypeInvariant DEF Next
<1>1. UNCHANGED <<stage, todo, reading, got, early, failed>>
  BY DEF Store
<1>2. ASSUME NEW n \in Node, NEW q \in Query
      PROVE  /\ listing[n][q] \in Seq(Record)
             /\ Len(listing[n][q]) <= Len(listing'[n][q])
             /\ \A j \in DOMAIN listing'[n][q] :
                  j <= Len(listing[n][q]) =>
                    j \in DOMAIN listing[n][q] /\ listing'[n][q][j] = listing[n][q][j]
  <2>1. listing[n][q] \in Seq(Record)
    BY DEF TypeOK
  <2>2. CASE listing'[n][q] = listing[n][q]
    BY <2>1, <2>2
  <2>3. CASE listing'[n][q] = Append(listing[n][q], i)
    BY <2>1, <2>3, ListedAfterAppend
  <2> QED BY <2>2, <2>3, StoreAppends
<1>3. ListingsInv'
  BY StoreKeepsListings DEF PagesInv
<1>4. reading \in Reading =>
        /\ reading.offset <= Len(listing[reading.node][reading.query])
        /\ reading.offset <= Len(listing'[reading.node][reading.query])
  <2> SUFFICES ASSUME reading \in Reading
               PROVE  /\ reading.offset <= Len(listing[reading.node][reading.query])
                      /\ reading.offset <= Len(listing'[reading.node][reading.query])
    OBVIOUS
  <2> DEFINE before == Len(listing[reading.node][reading.query])
             after  == Len(listing'[reading.node][reading.query])
  <2>1. reading.node \in Node /\ reading.query \in Query /\ reading.offset \in Nat
    BY DEF Reading
  <2>2. before \in Nat /\ after \in Nat
    <3>1. listing[reading.node][reading.query] \in Seq(Record)
      BY <2>1 DEF TypeOK
    <3>2. listing'[reading.node][reading.query] \in Seq(Record)
      BY <1>0, <2>1 DEF TypeOK
    <3> QED BY <3>1, <3>2
  <2>3. before <= after
    BY <1>2, <2>1
  <2>4. reading.offset <= before
    BY DEF PagesInv
  <2> HIDE DEF before, after
  <2>5. reading.offset <= before /\ reading.offset <= after
    BY <2>1, <2>2, <2>3, <2>4
  <2> QED BY <2>5 DEF before, after
<1>5. Asked' = Asked /\ StageQuery' = StageQuery
  BY <1>1, AskedAfterStep
<1>6. \A n \in Node, q \in Query : ReadSoFar(n, q) => ReadSoFar(n, q)'
  <2> SUFFICES ASSUME NEW n \in Node, NEW q \in Query, ReadSoFar(n, q)
               PROVE  ReadSoFar(n, q)'
    OBVIOUS
  <2>1. reading.offset \in Nat /\ reading.offset <= Len(listing[n][q])
    BY <1>4 DEF ReadSoFar, Reading
  <2>2. Len(listing[n][q]) \in Nat
    BY <1>2
  <2>3. ASSUME NEW j \in DOMAIN listing'[n][q], j <= reading.offset
        PROVE  j \in DOMAIN listing[n][q] /\ listing'[n][q][j] = listing[n][q][j]
    <3>1. j \in Nat
      BY <1>0 DEF TypeOK
    <3>2. j <= Len(listing[n][q])
      BY <2>1, <2>2, <2>3, <3>1
    <3> QED BY <1>2, <3>2
  <2> QED BY <1>1, <2>3 DEF ReadSoFar
<1>7. \A n \in Node, q \in Query : Kept(n, q)' <=> Kept(n, q)
  BY <1>1 DEF Kept
<1>8. \A n \in Node, q \in Query : Served(n, q) => Served(n, q)'
  BY <1>1, <1>6, <1>7 DEF Served
<1>9. Asked \subseteq Query
  BY DEF Asked
<1> QED BY <1>1, <1>3, <1>4, <1>5, <1>8, <1>9 DEF PagesInv

LEMMA ReadKeeps == TypeOK /\ PagesInv /\ Read => PagesInv'
<1> SUFFICES ASSUME TypeOK, PagesInv, Read PROVE PagesInv'
  OBVIOUS
<1> DEFINE m == reading.node
           q == reading.query
           o == reading.offset
           l == listing[m][q]
           items == {l[j] : j \in {j \in DOMAIN l : o < j /\ j <= o + PageSize}}
<1>1. m \in Node /\ q \in Query /\ o \in Nat /\ PageSize \in Nat \ {0}
  BY ClientAssumption DEF Read, Reading
<1>2. l \in Seq(Record) /\ Len(l) \in Nat /\ DOMAIN l = 1 .. Len(l)
  BY <1>1 DEF TypeOK
<1>3. /\ got' = got \cup (items \cap Verified)
      /\ reading' = IF o + PageSize < Len(l) THEN [reading EXCEPT !.offset = @ + PageSize]
                                             ELSE NotReading
      /\ UNCHANGED <<listing, stage, todo, early, failed>>
  BY DEF Read, Page
<1>4. reading \in Reading /\ q \in StageQuery
  BY DEF Read, PagesInv
<1>5. items \subseteq Answers(q)
  BY <1>1 DEF TypeOK, Listed
<1>6. Asked' = Asked /\ StageQuery' = StageQuery
  <2>1. stage = "retractions" => q \in Assertion
    BY <1>4 DEF StageQuery
  <2>2. stage = "successions" => q \in Key
    BY <1>4 DEF StageQuery
  <2>3. stage # "done"
    BY <1>4 DEF StageQuery
  <2>4. stage \in {"retractions", "successions"} => items \cap Assertion = {}
    BY <1>1, <1>5, <2>1, <2>2, AnswerKinds
  <2>5. stage = "successions" => items \cap Retraction = {}
    BY <1>1, <1>5, <2>2, AnswerKinds
  <2> HIDE DEF items
  <2> QED BY <1>3, <2>3, <2>4, <2>5, AskedAfterStep
<1>7. ListingsInv'
  BY <1>3 DEF PagesInv, ListingsInv, Consistent
<1>8. \A n \in Node, p \in Query : Kept(n, p) => Kept(n, p)'
  BY <1>3 DEF Kept
<1>9. Asked \subseteq Query
  BY DEF Asked
<1>10. CASE o + PageSize < Len(l)
  <2>1. /\ reading' \in Reading
        /\ reading'.node = m /\ reading'.query = q /\ reading'.offset = o + PageSize
    BY <1>1, <1>3, <1>4, <1>10 DEF Reading
  <2>2. ASSUME NEW n \in Node, NEW p \in Query, ReadSoFar(n, p) PROVE ReadSoFar(n, p)'
    <3>1. n = m /\ p = q
      BY <2>2 DEF ReadSoFar
    <3>2. ASSUME NEW j \in DOMAIN l, j <= o + PageSize, l[j] \in Verified PROVE l[j] \in got'
      <4>1. CASE j <= o
        BY <1>3, <2>2, <3>1, <3>2, <4>1 DEF ReadSoFar
      <4>2. CASE o < j
        BY <1>3, <3>2, <4>2
      <4> QED BY <1>1, <1>2, <4>1, <4>2
    <3> QED BY <1>3, <2>1, <3>1, <3>2 DEF ReadSoFar
  <2>3. reading'.offset <= Len(listing'[reading'.node][reading'.query])
    BY <1>1, <1>2, <1>3, <1>10, <2>1
  <2>4. \A n \in Node, p \in Query : Served(n, p) => Served(n, p)'
    BY <1>3, <1>8, <2>2 DEF Served
  <2> HIDE DEF items
  <2> QED BY <1>3, <1>4, <1>6, <1>7, <1>9, <2>1, <2>3, <2>4 DEF PagesInv
<1>11. CASE ~(o + PageSize < Len(l))
  <2>1. reading' = NotReading
    BY <1>3, <1>11
  <2>2. NotReading \notin Reading
    BY ClientAssumption DEF NotReading, Reading
  <2>3. ASSUME NEW n \in Node, NEW p \in Query, ReadSoFar(n, p) PROVE Kept(n, p)'
    <3>1. n = m /\ p = q
      BY <2>3 DEF ReadSoFar
    <3>2. ASSUME NEW j \in DOMAIN l, l[j] \in Verified PROVE l[j] \in got'
      <4>1. CASE j <= o
        BY <1>3, <2>3, <3>1, <3>2, <4>1 DEF ReadSoFar
      <4>2. CASE o < j
        <5>1. j <= o + PageSize
          BY <1>1, <1>2, <1>11
        <5> QED BY <1>3, <3>2, <4>2, <5>1
      <4> QED BY <1>1, <1>2, <4>1, <4>2
    <3>3. Listed(early[n][p]) \subseteq Listed(l)
      BY <1>1, <3>1 DEF PagesInv, ListingsInv
    <3>4. ASSUME NEW a \in Listed(early[n][p]), a \in Verified PROVE a \in got'
      <4>1. PICK j \in DOMAIN l : l[j] = a
        BY <3>3, <3>4 DEF Listed
      <4> QED BY <3>2, <3>4, <4>1
    <3> QED BY <1>3, <3>4 DEF Kept
  <2>4. \A n \in Node, p \in Query : Served(n, p) => Served(n, p)'
    BY <1>3, <1>8, <2>3 DEF Served
  <2> HIDE DEF items
  <2> QED BY <1>3, <1>6, <1>7, <1>9, <2>1, <2>2, <2>4 DEF PagesInv
<1> QED BY <1>10, <1>11

\* A stage that is finished has been served: nothing is left to read.
LEMMA FinishedIsServed ==
  ASSUME PagesInv, todo = {}, reading = NotReading
  PROVE  \A n \in Node \ failed, q \in Asked : Kept(n, q)
BY DEF PagesInv, Served, ReadSoFar, NotReading, Reading

\* The next stage adds the queries of its own to what is asked, and no other.
LEMMA NextStageKeeps ==
  ASSUME PagesInv, todo = {}, reading = NotReading,
         UNCHANGED <<listing, reading, got, early, failed>>,
         \A x \in todo' : x[2] \in StageQuery',
         \A n \in Node, q \in Asked' \ Asked : <<n, q>> \in todo'
  PROVE  PagesInv'
<1>1. NotReading \notin Reading
  BY DEF NotReading, Reading
<1>2. ListingsInv'
  BY DEF PagesInv, ListingsInv, Consistent
<1>3. \A n \in Node \ failed, q \in Asked' : Served(n, q)'
  BY FinishedIsServed DEF Served, Kept
<1> QED BY <1>1, <1>2, <1>3 DEF PagesInv

LEMMA PagesInvariant == TypeOK /\ PagesInv /\ [Next]_vars => PagesInv'
<1> SUFFICES ASSUME TypeOK, PagesInv, [Next]_vars PROVE PagesInv'
  OBVIOUS
<1>0. NotReading \notin Reading
  BY DEF NotReading, Reading
<1>1. CASE UNCHANGED vars
  BY <1>1 DEF vars, PagesInv, ListingsInv, Consistent, Asked, StageQuery, Served, Kept, ReadSoFar
<1>2. CASE Begin
  <2>1. /\ stage = "idle" /\ stage' = "assertions" /\ todo' = Node \X {About}
        /\ early' = listing /\ UNCHANGED <<listing, reading, got, failed>>
    BY <1>2 DEF Begin
  <2>2. ListingsInv'
    BY <2>1 DEF PagesInv, ListingsInv, Consistent
  <2>3. StageQuery = {} /\ StageQuery' = {About} /\ Asked' = {About}
    BY <2>1 DEF StageQuery, Asked, Query
  <2>4. reading \notin Reading
    BY <2>3 DEF PagesInv
  <2>5. \A n \in Node : Served(n, About)'
    BY <2>1 DEF Served
  <2> QED BY <2>1, <2>2, <2>3, <2>4, <2>5 DEF PagesInv
<1>3. ASSUME NEW n \in Node, NEW q \in Query, Open(n, q) PROVE PagesInv'
  <2>1. /\ reading = NotReading /\ UNCHANGED <<listing, stage, got, early, failed>>
        /\ <<n, q>> \in todo
        /\ todo' = todo \ {<<n, q>>} /\ reading' = [node |-> n, query |-> q, offset |-> 0]
    BY <1>3 DEF Open, IsNext
  <2>2. \A k \in Node, p \in Query : ~ReadSoFar(k, p) /\ (Kept(k, p)' <=> Kept(k, p))
    BY <1>0, <2>1 DEF ReadSoFar, Kept
  <2>3. ReadSoFar(n, q)'
    <3>1. reading' \in Reading
      BY <2>1 DEF Reading
    <3>2. \A j \in DOMAIN listing[n][q] : ~(j <= 0)
      BY DEF TypeOK
    <3> QED BY <2>1, <3>1, <3>2 DEF ReadSoFar
  <2>4. reading'.offset <= Len(listing'[reading'.node][reading'.query])
    BY <2>1 DEF TypeOK
  <2>5. \A k \in Node, p \in Query : <<k, p>> \in todo => <<k, p>> \in todo' \/ (k = n /\ p = q)
    BY <2>1
  <2>6. Asked' = Asked /\ StageQuery' = StageQuery /\ Asked \subseteq Query
    BY <2>1, AskedAfterStep DEF Asked
  <2>7. q \in StageQuery
    BY <2>1 DEF PagesInv
  <2>8. ListingsInv'
    BY <2>1 DEF PagesInv, ListingsInv, Consistent
  <2>9. \A k \in Node, p \in Query : Served(k, p) => Served(k, p)'
    BY <2>2, <2>3, <2>5 DEF Served
  <2> QED BY <2>1, <2>4, <2>6, <2>7, <2>8, <2>9 DEF PagesInv
<1>4. CASE Read
  BY <1>4, ReadKeeps
<1>5. CASE Miss
  <2>1. /\ reading \in Reading /\ reading' = NotReading /\ failed' = failed \cup {reading.node}
        /\ UNCHANGED <<listing, stage, todo, got, early>>
    BY <1>5 DEF Miss
  <2>2. \A n \in Node \ failed', q \in Query : ~ReadSoFar(n, q) /\ n \in Node \ failed
    BY <2>1 DEF ReadSoFar
  <2>3. \A n \in Node, q \in Query : Kept(n, q)' <=> Kept(n, q)
    BY <2>1 DEF Kept
  <2>4. Asked' = Asked /\ StageQuery' = StageQuery /\ Asked \subseteq Query
    BY <2>1, AskedAfterStep DEF Asked
  <2>5. ListingsInv'
    BY <2>1 DEF PagesInv, ListingsInv, Consistent
  <2>6. \A n \in Node \ failed', q \in Query : Served(n, q) => Served(n, q)'
    BY <2>1, <2>2, <2>3 DEF Served
  <2> QED BY <1>0, <2>1, <2>2, <2>4, <2>5, <2>6 DEF PagesInv
<1>6. CASE AskRetractions
  <2>1. /\ stage = "assertions" /\ todo = {} /\ reading = NotReading /\ stage' = "retractions"
        /\ todo' = Node \X (got \cap Assertion)
        /\ UNCHANGED <<listing, reading, got, early, failed>>
    BY <1>6 DEF AskRetractions, Finished
  <2>2. \A x \in todo' : x[2] \in StageQuery'
    BY <2>1 DEF StageQuery, Query
  <2>3. Asked' \ Asked \subseteq got \cap Assertion
    BY <2>1 DEF Asked
  <2>4. \A n \in Node, q \in Asked' \ Asked : <<n, q>> \in todo'
    BY <2>1, <2>3
  <2> QED BY <2>1, <2>2, <2>4, NextStageKeeps
<1>7. CASE AskSuccessions
  <2> DEFINE sources == {Body[r].source : r \in got \cap (Assertion \cup Retraction)}
  <2>1. /\ stage = "retractions" /\ todo = {} /\ reading = NotReading /\ stage' = "successions"
        /\ todo' = Node \X sources
        /\ UNCHANGED <<listing, reading, got, early, failed>>
    BY <1>7 DEF AskSuccessions, Finished
  <2>2. sources \subseteq Key
    BY SourcesAreKeys DEF TypeOK, Record
  <2>3. Asked' \ Asked \subseteq sources
    BY <2>1 DEF Asked
  <2> HIDE DEF sources
  <2>4. \A x \in todo' : x[2] \in StageQuery'
    BY <2>1, <2>2 DEF StageQuery, Query
  <2>5. \A n \in Node, q \in Asked' \ Asked : <<n, q>> \in todo'
    BY <2>1, <2>3
  <2> QED BY <2>1, <2>4, <2>5, NextStageKeeps
<1>8. CASE Decide
  <2>1. /\ stage = "successions" /\ stage' = "done"
        /\ todo = {} /\ reading = NotReading
        /\ UNCHANGED <<listing, todo, reading, got, early, failed>>
    BY <1>8 DEF Decide, Finished
  <2>2. Asked' = Asked
    BY <2>1 DEF Asked
  <2> QED BY <2>1, <2>2, NextStageKeeps
<1>9. ASSUME NEW m \in Node, NEW i \in Record, Store(m, i) PROVE PagesInv'
  BY <1>9, StoreKeeps
<1> QED BY <1>1, <1>2, <1>3, <1>4, <1>5, <1>6, <1>7, <1>8, <1>9 DEF Next, Client

LEMMA InitialPages == Init => PagesInv
<1> SUFFICES ASSUME Init PROVE PagesInv
  OBVIOUS
<1>1. \A n \in Node, q \in Query : Listed(listing[n][q]) = {} /\ Listed(early[n][q]) = {}
  BY DEF Init, Listed
<1>2. Asked = {}
  BY DEF Init, Asked
<1>3. reading \notin Reading /\ todo = {}
  BY DEF Init, NotReading, Reading
<1> QED BY <1>1, <1>2, <1>3 DEF PagesInv, ListingsInv, Consistent

\* When the client is done it has read all that it asked for.
LEMMA DoneIsServed ==
  ASSUME TypeOK, PagesInv, stage = "done", NEW q \in Asked
  PROVE  Known(q) \subseteq got
<1>1. StageQuery = {}
  BY DEF StageQuery
<1>2. todo = {} /\ reading = NotReading
  BY <1>1 DEF PagesInv, TypeOK
<1>3. \A n \in Node \ failed : Kept(n, q)
  BY <1>2, FinishedIsServed
<1> QED BY <1>3 DEF Known, Kept

LEMMA KnownIsRead ==
  ASSUME TypeOK, PagesInv, stage = "done", NEW a \in Known(About)
  PROVE  a \in got /\ \E n \in Node : a \in Listed(listing[n][About])
<1>1. PICK n \in Node \ failed : a \in Listed(early[n][About]) /\ a \in Verified
  BY DEF Known
<1>2. About \in Asked
  BY DEF Asked, Query
<1>3. a \in Listed(listing[n][About])
  BY <1>1, <1>2 DEF PagesInv, ListingsInv, Asked
<1> QED BY <1>2, <1>3, DoneIsServed

\* Whatever nodes store and retract while the client reads, it has every assertion
\* that a node which answered held when it began (MissesNothing; _get_all with the
\* offset cursors of paginate).
THEOREM PagesMissNothing == Spec => []MissesNothing
<1>1. TypeOK /\ PagesInv => MissesNothing
  BY KnownIsRead DEF MissesNothing
<1> QED BY <1>1, InitialTypes, InitialPages, TypeInvariant, PagesInvariant, PTL DEF Spec

-----------------------------------------------------------------------------
(* Only the lineage withdraws. *)

LEMMA DecidedInvariant == TypeOK /\ DecidedInv /\ [Next]_vars => DecidedInv'
<1> SUFFICES ASSUME TypeOK, DecidedInv, [Next]_vars, stage' = "done"
             PROVE  /\ todo' = {} /\ reading' = NotReading
                    /\ believed' = {a \in Merged' \cap Assertion \cap Trusted :
                         \A r \in got' \cap Retraction : Honoured(r)' => Body[r].retracts # a}
  BY DEF DecidedInv
<1>1. ASSUME got' = got
      PROVE  Merged' = Merged /\ \A r : Honoured(r)' <=> Honoured(r)
  BY <1>1 DEF Merged, Honoured
<1>2. CASE Decide
  BY <1>1, <1>2 DEF Decide, Finished
<1>3. CASE stage = "done" /\ UNCHANGED <<stage, todo, reading, got, believed>>
  BY <1>1, <1>3 DEF DecidedInv
<1>4. NotReading \notin Reading
  BY DEF NotReading, Reading
<1>5. CASE ~Decide
  <2>1. stage = "done"
    BY <1>5 DEF Next, Client, vars, Begin, Open, Read, Miss, AskRetractions, AskSuccessions, Store
  <2>2. todo = {} /\ reading = NotReading
    BY <2>1 DEF DecidedInv
  <2>3. UNCHANGED <<stage, todo, reading, got, believed>>
    BY <1>4, <1>5, <2>1, <2>2 DEF Next, Client, vars, Begin, Open, IsNext, Read, Miss,
       AskRetractions, AskSuccessions, Finished, Store
  <2> QED BY <1>3, <2>1, <2>3
<1> QED BY <1>2, <1>5

\* Successions only lengthen a lineage.
LEMMA LineageMonotone ==
  ASSUME NEW F, NEW F2, NEW B, NEW B2, NEW k, F \subseteq F2, B \subseteq B2
  PROVE  LineageVia(F, B, k) \subseteq LineageVia(F2, B2, k)
BY DEF LineageVia, Ancestors, Descendants, ForwardClosed, BackwardClosed

\* A verified, valid and trusted assertion is in the answer unless its source or a
\* key of its lineage signed a retraction of it, whatever else nodes hold
\* (OnlyLineageWithdraws; the local store of believe_about).
THEOREM OnlyTheLineageWithdraws == Spec => []OnlyLineageWithdraws
<1>1. TypeOK /\ PagesInv /\ DecidedInv => OnlyLineageWithdraws
  <2> SUFFICES ASSUME TypeOK, PagesInv, DecidedInv, stage = "done",
                      NEW a \in (Known(About) \cap Valid \cap Trusted) \ believed
               PROVE  \E r \in got \cap Retraction :
                        /\ Body[r].retracts = a
                        /\ Body[r].source \in LineageVia(Succession, Succession, Body[a].source)
    BY DEF OnlyLineageWithdraws
  <2>1. a \in got /\ \E n \in Node : a \in Listed(listing[n][About])
    BY KnownIsRead
  <2>2. a \in Answers(About)
    BY <2>1 DEF TypeOK, Query
  <2>3. a \in Assertion /\ a \in Record /\ a \notin Retraction
    BY <2>2, ClientAssumption DEF Answers, Assertion, Retraction, Content, Record
  <2>4. a \in Merged
    BY <2>1, <2>3 DEF Merged
  <2>5. PICK r \in got \cap Retraction : Honoured(r) /\ Body[r].retracts = a
    BY <2>3, <2>4 DEF DecidedInv
  <2>6. Body[r].source \in LineageVia(Merged \cap Succession, Merged \cap Succession, Body[a].source)
    BY <2>3, <2>4, <2>5 DEF Honoured, RetractionSourceOk, TargetHeld
  <2> QED BY <2>5, <2>6, LineageMonotone
<1>2. Init => DecidedInv
  BY DEF Init, DecidedInv
<1> QED BY <1>1, <1>2, InitialTypes, InitialPages, TypeInvariant, PagesInvariant,
           DecidedInvariant, PTL DEF Spec
-----------------------------------------------------------------------------
(***************************************************************************)
(* A retraction that a node held when the client began is honoured.  The     *)
(* client asks for the successions of the sources it met, not for those of   *)
(* the keys that these successions name, so it learns the whole line between *)
(* two sources only when that line has at most one key in the middle.  The   *)
(* theorem is about universes with no longer line; of a longer one it would  *)
(* not be true.                                                              *)
(***************************************************************************)
ShortLineages ==
  ~ \E s, t, u \in Succession : /\ Body[s].successor = Body[t].predecessor
                               /\ Body[t].successor = Body[u].predecessor

SuccessionKeys == \A s \in Succession : Body[s].predecessor \in Key /\ Body[s].successor \in Key

LEMMA SuccessionsNameKeys == SuccessionKeys
BY BodyAssumption DEF SuccessionKeys, Succession, ContentBody, AssertionBody, EnrichmentBody,
                      RetractionBody, SuccessionBody

\* A line of at most two successions is known to whoever knows those that touch
\* its two ends, forwards ...
LEMMA ShortDescent ==
  ASSUME ShortLineages, NEW T \in SUBSET Succession, NEW M, NEW k \in Key, NEW x \in Descendants(T, k),
         \A s \in T : {k, x} \cap {Body[s].predecessor, Body[s].successor} # {} => s \in M
  PROVE  x \in Descendants(M, k)
<1> SUFFICES ASSUME NEW C \in SUBSET Key, k \in C, ForwardClosed(M, C) PROVE x \in C
  BY DEF Descendants
<1> DEFINE Near == {Body[s].successor : s \in {s \in T : Body[s].predecessor = k}}
           Far  == {Body[t].successor : t \in {t \in T : Body[t].predecessor \in Near}}
           Line == {k} \cup Near \cup Far
<1>1. Line \subseteq Key
  BY SuccessionsNameKeys DEF SuccessionKeys
<1>2. ForwardClosed(T, Line)
  <2> SUFFICES ASSUME NEW u \in T, Body[u].predecessor \in Line PROVE Body[u].successor \in Line
    BY DEF ForwardClosed
  <2>1. Body[u].predecessor \notin Far
    BY DEF ShortLineages
  <2> QED BY <2>1
<1>3. x \in Line
  <2> HIDE DEF Line
  <2>1. k \in Line
    BY DEF Line
  <2> QED BY <1>1, <1>2, <2>1 DEF Descendants
<1>4. CASE x \in Near
  BY <1>4 DEF ForwardClosed
<1>5. CASE x \in Far
  <2>1. PICK t \in T : Body[t].predecessor \in Near /\ x = Body[t].successor
    BY <1>5
  <2>2. PICK s \in T : Body[s].predecessor = k /\ Body[t].predecessor = Body[s].successor
    BY <2>1
  <2>3. s \in M /\ t \in M
    BY <2>1, <2>2
  <2> QED BY <2>1, <2>2, <2>3 DEF ForwardClosed
<1> QED BY <1>3, <1>4, <1>5

\* ... and backwards.
LEMMA ShortAscent ==
  ASSUME ShortLineages, NEW T \in SUBSET Succession, NEW M, NEW k \in Key, NEW x \in Ancestors(T, k),
         \A s \in T : {k, x} \cap {Body[s].predecessor, Body[s].successor} # {} => s \in M
  PROVE  x \in Ancestors(M, k)
<1> SUFFICES ASSUME NEW C \in SUBSET Key, k \in C, BackwardClosed(M, C) PROVE x \in C
  BY DEF Ancestors
<1> DEFINE Near == {Body[s].predecessor : s \in {s \in T : Body[s].successor = k}}
           Far  == {Body[t].predecessor : t \in {t \in T : Body[t].successor \in Near}}
           Line == {k} \cup Near \cup Far
<1>1. Line \subseteq Key
  BY SuccessionsNameKeys DEF SuccessionKeys
<1>2. BackwardClosed(T, Line)
  <2> SUFFICES ASSUME NEW u \in T, Body[u].successor \in Line PROVE Body[u].predecessor \in Line
    BY DEF BackwardClosed
  <2>1. Body[u].successor \notin Far
    BY DEF ShortLineages
  <2> QED BY <2>1
<1>3. x \in Line
  <2> HIDE DEF Line
  <2>1. k \in Line
    BY DEF Line
  <2> QED BY <1>1, <1>2, <2>1 DEF Ancestors
<1>4. CASE x \in Near
  BY <1>4 DEF BackwardClosed
<1>5. CASE x \in Far
  <2>1. PICK t \in T : Body[t].successor \in Near /\ x = Body[t].predecessor
    BY <1>5
  <2>2. PICK s \in T : Body[s].successor = k /\ Body[t].successor = Body[s].predecessor
    BY <2>1
  <2>3. s \in M /\ t \in M
    BY <2>1, <2>2
  <2> QED BY <2>1, <2>2, <2>3 DEF BackwardClosed
<1> QED BY <1>3, <1>4, <1>5

\* What a node that answered listed under one query it listed under every query
\* that the record answers, so what was known and is asked for is collected.
LEMMA KnownIsCollected ==
  ASSUME TypeOK, PagesInv, stage = "done", NEW i \in AllKnown, NEW q \in Asked, i \in Answers(q)
  PROVE  i \in got
<1>1. PICK p \in Query : i \in Known(p)
  BY DEF AllKnown
<1>2. PICK n \in Node \ failed : i \in Listed(early[n][p]) /\ i \in Verified
  BY <1>1 DEF Known
<1>3. i \in Listed(early[n][q])
  BY <1>2 DEF PagesInv, ListingsInv, Consistent, Asked
<1>4. i \in Known(q)
  BY <1>2, <1>3 DEF Known
<1> QED BY <1>4, DoneIsServed

LEMMA AuthorityIsHonoured ==
  ASSUME ShortLineages, TypeOK, PagesInv, DecidedInv, stage = "done",
         NEW a \in believed, NEW r \in AllKnown \cap Retraction \cap Valid, Body[r].retracts = a
  PROVE  Body[r].source \notin LineageVia(AllKnown \cap Succession \cap Valid,
                                          AllKnown \cap Succession \cap Valid, Body[a].source)
<1> DEFINE T == AllKnown \cap Succession \cap Valid
           M == Merged \cap Succession
           k == Body[a].source
           x == Body[r].source
<1> SUFFICES ASSUME x \in LineageVia(T, T, k) PROVE FALSE
  OBVIOUS
<1>1. a \in got \cap Assertion /\ a \in Merged /\ a \in Record \ Succession
  BY KindsAreDisjoint DEF DecidedInv, Merged
<1>2. r \in got
  <2>1. a \in Asked
    BY <1>1 DEF Asked, Query
  <2>2. r \in Answers(a)
    BY <1>1, KindsAreDisjoint DEF Answers
  <2> QED BY <2>1, <2>2, KnownIsCollected
<1>3. k \in Key /\ x \in Key
  BY <1>1, SourcesAreKeys DEF Assertion, Retraction
<1>4. k \in Asked /\ x \in Asked
  BY <1>1, <1>2, <1>3 DEF Asked, Query
<1>5. ASSUME NEW s \in T, {k, x} \cap {Body[s].predecessor, Body[s].successor} # {}
      PROVE  s \in M
  <2>1. PICK q \in {k, x} : q \in {Body[s].predecessor, Body[s].successor}
    BY <1>5
  <2>2. s \in Answers(q)
    BY <1>3, <2>1, KindsAreDisjoint DEF Answers
  <2>3. s \in got
    BY <1>4, <2>1, <2>2, KnownIsCollected
  <2> QED BY <2>3, KindsAreDisjoint DEF Merged
<1>6. x \in LineageVia(M, M, k)
  <2>1. T \in SUBSET Succession
    OBVIOUS
  <2> HIDE DEF T, M, k, x
  <2> QED BY <1>3, <1>5, <2>1, ShortDescent, ShortAscent DEF LineageVia
<1>7. Honoured(r)
  BY <1>1, <1>2, <1>6 DEF Honoured, RetractionSourceOk, TargetHeld
<1> QED BY <1>2, <1>7 DEF DecidedInv

\* With lineages of at most two successions, what a source or its lineage had
\* retracted at a node that answered is not believed, whatever the pages, the
\* nodes that fail and the order of the queries (HonoursRetractions; the collect
\* calls of believe_about and its local store).
THEOREM RetractionsAreHonoured ==
  ASSUME ShortLineages
  PROVE  Spec => []HonoursRetractions
<1>1. TypeOK /\ PagesInv /\ DecidedInv => HonoursRetractions
  BY AuthorityIsHonoured DEF HonoursRetractions
<1>2. Init => DecidedInv
  BY DEF Init, DecidedInv
<1> QED BY <1>1, <1>2, InitialTypes, InitialPages, TypeInvariant, PagesInvariant,
           DecidedInvariant, PTL DEF Spec
=============================================================================
