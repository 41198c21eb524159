--------------------------- MODULE FederationProofs ---------------------------
(***************************************************************************)
(* Proofs about Federation, for every set of nodes, every universe of items, *)
(* every peer graph, shard assignment, batch size and number of faults.      *)
(***************************************************************************)
EXTENDS Federation, FiniteSetTheorems, TLAPS

-----------------------------------------------------------------------------
(* Type correctness. *)

\* What TypeOK says of the fields of a node's threads.
LEMMA Fields ==
  ASSUME TypeOK, NEW n \in Node
  PROVE  /\ gossip[n] \in GossipState
         /\ gossip[n].to \in Node
         /\ gossip[n].todo \in SUBSET Node
         /\ gossip[n].payload \in SUBSET Item
         /\ gossip[n].left \in SUBSET Item
         /\ sync[n] \in SyncState
         /\ sync[n].to \in Node
         /\ sync[n].todo \in SUBSET Node
         /\ sync[n].local \in SUBSET Item
         /\ sync[n].want \in SUBSET Item
         /\ sync[n].batch \in SUBSET Item
         /\ sync[n].push \in SUBSET Item
<1>1. gossip[n] \in GossipState /\ sync[n] \in SyncState
  BY DEF TypeOK
<1> QED BY <1>1 DEF GossipState, SyncState

LEMMA IndexType ==
  ASSUME TypeOK, NEW n \in Node
  PROVE  Index(n) \in SUBSET Item
<1>1. held[n] \in SUBSET Verified
  BY DEF TypeOK
<1> QED BY <1>1, BodyAssumption DEF Index

\* One field of a thread's record may take any value of its type.
LEMMA GossipUpdate ==
  ASSUME NEW r \in GossipState
  PROVE  /\ \A x \in {"idle", "post", "wait"} : [r EXCEPT !.pc = x] \in GossipState
         /\ \A x \in Node : [r EXCEPT !.to = x] \in GossipState
         /\ \A x \in SUBSET Node : [r EXCEPT !.todo = x] \in GossipState
         /\ \A x \in SUBSET Item : [r EXCEPT !.payload = x] \in GossipState
         /\ \A x \in SUBSET Item : [r EXCEPT !.left = x] \in GossipState
BY DEF GossipState

LEMMA SyncUpdate ==
  ASSUME NEW r \in SyncState
  PROVE  /\ \A x \in {"idle", "ids", "exchange", "wait"} : [r EXCEPT !.pc = x] \in SyncState
         /\ \A x \in Node : [r EXCEPT !.to = x] \in SyncState
         /\ \A x \in SUBSET Node : [r EXCEPT !.todo = x] \in SyncState
         /\ \A x \in SUBSET Item : [r EXCEPT !.local = x] \in SyncState
         /\ \A x \in SUBSET Item : [r EXCEPT !.remote = x] \in SyncState
         /\ \A x \in SUBSET Item : [r EXCEPT !.want = x] \in SyncState
         /\ \A x \in SUBSET Item : [r EXCEPT !.batch = x] \in SyncState
         /\ \A x \in SUBSET Item : [r EXCEPT !.push = x] \in SyncState
BY DEF SyncState

LEMMA ThreadTypes ==
  ASSUME TypeOK, NEW n \in Node
  PROVE  /\ GossipIdle(n) \in GossipState
         /\ SyncIdle(n) \in SyncState
         /\ \A todo \in SUBSET Node : GossipNext(n, todo) \in GossipState
         /\ SyncNext(n) \in SyncState
         /\ EmptyInbox \in [Node -> [Thread -> SUBSET Item]]
<1>1. GossipIdle(n) \in GossipState
  BY DEF GossipIdle, GossipState
<1>2. SyncIdle(n) \in SyncState
  BY DEF SyncIdle, SyncState
<1>3. ASSUME NEW todo \in SUBSET Node PROVE GossipNext(n, todo) \in GossipState
  BY Fields DEF GossipNext, GossipState
<1>4. SyncNext(n) \in SyncState
  BY <1>2, Fields, SyncUpdate DEF SyncNext
<1>5. EmptyInbox \in [Node -> [Thread -> SUBSET Item]]
  BY DEF EmptyInbox
<1> QED BY <1>1, <1>2, <1>3, <1>4, <1>5

\* A table that gets one item more stays finite and full of items that verify.
LEMMA StoreTypes ==
  ASSUME TypeOK, NEW n \in Node, NEW i \in Verified \cap Valid,
         held' = [held EXCEPT ![n] = @ \cup {i}]
  PROVE  /\ held' \in [Node -> SUBSET (Verified \cap Valid)]
         /\ \A m \in Node : IsFiniteSet(held'[m])
         /\ \A m \in Node : held'[m] = held[m] \cup IF m = n THEN {i} ELSE {}
<1>1. /\ held \in [Node -> SUBSET (Verified \cap Valid)]
      /\ \A m \in Node : IsFiniteSet(held[m])
  BY DEF TypeOK
<1>2. IsFiniteSet(held[n] \cup {i})
  BY <1>1, FS_AddElement
<1> QED BY <1>1, <1>2

\* What is held, or what a gate accepts, verifies.
LEMMA StoredVerifies ==
  ASSUME TypeOK, NEW n \in Node, NEW i, i \in held[n] \/ Accepts(n, i)
  PROVE  i \in Verified \cap Valid
BY DEF TypeOK, Accepts

LEMMA AnnounceTypes ==
  ASSUME TypeOK, NEW n \in Node, NEW i \in Item
  PROVE  /\ Announce(n, i) \in [Node -> SUBSET Item]
         /\ [told EXCEPT ![n] = @ \cup {i}] \in [Node -> SUBSET Item]
BY DEF Announce, TypeOK

LEMMA InHandType ==
  ASSUME NEW s \in Source, NEW i \in Item
  PROVE  InHand(s, i, TRUE) \in MergeState /\ InHand(s, i, FALSE) \in MergeState
BY DEF InHand, MergeState

\* A step of verified_merge keeps the types of what it changes.
LEMMA MergeTypes ==
  ASSUME TypeOK, NEW n \in Node, NEW s \in Source, NEW i \in Item,
         MergeOn(n, s, i) \/ MergeEnd(n, s, i)
  PROVE  /\ held' \in [Node -> SUBSET (Verified \cap Valid)]
         /\ \A m \in Node : IsFiniteSet(held'[m])
         /\ queue' \in [Node -> SUBSET Item]
         /\ merges' \in [Node -> SUBSET MergeState]
         /\ told' \in [Node -> SUBSET Item]
<1>1. /\ held \in [Node -> SUBSET (Verified \cap Valid)]
      /\ \A m \in Node : IsFiniteSet(held[m])
      /\ queue \in [Node -> SUBSET Item]
      /\ merges \in [Node -> SUBSET MergeState]
      /\ told \in [Node -> SUBSET Item]
  BY DEF TypeOK
<1>2. InHand(s, i, TRUE) \in MergeState /\ InHand(s, i, FALSE) \in MergeState
  BY InHandType
<1>3. CASE Admit(n, s, i)
  BY <1>1, <1>2, <1>3 DEF Admit
<1>4. CASE MergeStore(n, s, i)
  <2>1. i \in Verified \cap Valid
    BY <1>4, StoredVerifies DEF MergeStore
  <2>2. merges' \in [Node -> SUBSET MergeState]
    BY <1>1, <1>2, <1>4 DEF MergeStore
  <2> QED BY <1>1, <1>4, <2>1, <2>2, StoreTypes DEF MergeStore
<1>5. CASE Skip(n, s, i)
  BY <1>1, <1>5 DEF Skip
<1>6. CASE Refuse(n, s, i)
  BY <1>1, <1>6 DEF Refuse
<1>7. CASE Report(n, s, i)
  BY <1>1, <1>7, AnnounceTypes DEF Report
<1> QED BY <1>3, <1>4, <1>5, <1>6, <1>7 DEF MergeOn, MergeEnd

\* The size of a table is a number, and a table that grows is not smaller.
LEMMA TableSize ==
  ASSUME TypeOK, NEW n \in Node, NEW i
  PROVE  /\ IsFiniteSet(Table(n, i))
         /\ Cardinality(Table(n, i)) \in Nat
<1>1. IsFiniteSet(held[n]) /\ Table(n, i) \subseteq held[n]
  BY DEF TypeOK, Table
<1> QED BY <1>1, FS_Subset, FS_CardinalityType

LEMMA PostTypes ==
  ASSUME TypeOK, NEW n \in Node, Post(n)
  PROVE  TypeOK'
<1>1. /\ posts \in [Node -> SUBSET PostState]
      /\ written \in [Node -> SUBSET Item]
  BY DEF TypeOK
<1>2. ASSUME NEW c \in Client, NEW i \in Item, PostBegin(n, c, i) PROVE TypeOK'
  <2> DEFINE size == Cardinality(Table(n, i))
  <2>1. size \in Nat
    BY TableSize
  <2>2. posts' = [posts EXCEPT ![n] = @ \cup {[client |-> c, item |-> i, stored |-> FALSE,
                                               before |-> size]}]
    BY <1>2 DEF PostBegin
  <2> HIDE DEF size
  <2>3. [client |-> c, item |-> i, stored |-> FALSE, before |-> size] \in PostState
    BY <2>1 DEF PostState
  <2>4. posts' \in [Node -> SUBSET PostState]
    BY <1>1, <2>2, <2>3
  <2> QED BY <1>2, <2>4 DEF PostBegin, TypeOK
<1>3. ASSUME NEW p \in posts[n], PostStore(n, p) PROVE TypeOK'
  <2>1. p \in PostState /\ p.item \in Item
    BY <1>1 DEF PostState
  <2>2. p.item \in Verified \cap Valid
    BY <1>3, StoredVerifies DEF PostStore, AcceptsPost
  <2>3. /\ held' \in [Node -> SUBSET (Verified \cap Valid)]
        /\ \A m \in Node : IsFiniteSet(held'[m])
    BY <1>3, <2>2, StoreTypes DEF PostStore
  <2>4. [p EXCEPT !.stored = TRUE] \in PostState
    BY <2>1 DEF PostState
  <2>5. posts' \in [Node -> SUBSET PostState]
    BY <1>1, <1>3, <2>4 DEF PostStore
  <2>6. written' \in [Node -> SUBSET Item]
    BY <1>1, <1>3, <2>1 DEF PostStore
  <2> QED BY <1>3, <2>3, <2>5, <2>6 DEF PostStore, TypeOK
<1>4. ASSUME NEW p \in posts[n], PostRefuse(n, p) PROVE TypeOK'
  <2>1. posts' \in [Node -> SUBSET PostState]
    BY <1>1, <1>4 DEF PostRefuse
  <2> QED BY <1>4, <2>1 DEF PostRefuse, TypeOK
<1>5. ASSUME NEW p \in posts[n], PostAnswer(n, p) PROVE TypeOK'
  <2>1. posts' \in [Node -> SUBSET PostState]
    BY <1>1, <1>5 DEF PostAnswer
  <2>2. p.item \in Item
    BY <1>1 DEF PostState
  <2>3. queue' \in [Node -> SUBSET Item] /\ told' \in [Node -> SUBSET Item]
    <3>1. \/ queue' = queue /\ told' = told
          \/ queue' = Announce(n, p.item) /\ told' = [told EXCEPT ![n] = @ \cup {p.item}]
      BY <1>5 DEF PostAnswer
    <3>2. queue \in [Node -> SUBSET Item] /\ told \in [Node -> SUBSET Item]
      BY DEF TypeOK
    <3> QED BY <2>2, <3>1, <3>2, AnnounceTypes
  <2> QED BY <1>5, <2>1, <2>3 DEF PostAnswer, TypeOK
<1> QED BY <1>2, <1>3, <1>4, <1>5 DEF Post

LEMMA GossipStepTypes ==
  ASSUME TypeOK, NEW n \in Node, GossipStep(n)
  PROVE  TypeOK'
<1>1. CASE GossipDrain(n)
  <2>1. queue' \in [Node -> SUBSET Item]
    BY <1>1 DEF GossipDrain, TypeOK
  <2>2. gossip' \in [Node -> GossipState]
    <3> DEFINE items == EntriesFor(n)
    <3>1. items \in SUBSET Item /\ peers[n] \in SUBSET Node
      BY DEF EntriesFor, TypeOK
    <3> HIDE DEF items
    <3>2. [[gossip[n] EXCEPT !.todo = peers[n]] EXCEPT !.payload = items] \in GossipState
      BY <3>1, Fields, GossipUpdate
    <3>3. gossip' = gossip \/
          gossip' = [gossip EXCEPT ![n].todo = peers[n], ![n].payload = items]
      BY <1>1 DEF GossipDrain, items
    <3> QED BY <3>2, <3>3 DEF TypeOK
  <2> QED BY <1>1, <2>1, <2>2 DEF GossipDrain, TypeOK, handlers
<1>2. CASE GossipPost(n)
  <2>1. PICK C \in SUBSET gossip[n].left :
          /\ inbox' = [inbox EXCEPT ![gossip[n].to][n]["gossip"] = C]
          /\ gossip' = [gossip EXCEPT ![n].pc = "wait", ![n].left = @ \ C]
    BY <1>2 DEF GossipPost
  <2>2. C \in SUBSET Item /\ gossip[n].left \ C \in SUBSET Item
    BY Fields
  <2>3. inbox' \in [Node -> [Node -> [Thread -> SUBSET Item]]]
    BY <2>1, <2>2, Fields DEF TypeOK, Thread
  <2>4. gossip' \in [Node -> GossipState]
    <3>1. [[gossip[n] EXCEPT !.pc = "wait"] EXCEPT !.left = gossip[n].left \ C] \in GossipState
      BY <2>2, Fields, GossipUpdate
    <3> QED BY <2>1, <3>1 DEF TypeOK
  <2> QED BY <1>2, <2>3, <2>4 DEF GossipPost, TypeOK, handlers
<1>3. CASE GossipAnswer(n)
  <2>1. CASE gossip[n].left # {}
    <3>1. gossip' = [gossip EXCEPT ![n].pc = "post"] /\ backoff' = backoff
      BY <1>3, <2>1 DEF GossipAnswer
    <3>2. gossip' \in [Node -> GossipState]
      BY <3>1, Fields, GossipUpdate DEF TypeOK
    <3> QED BY <1>3, <3>1, <3>2 DEF GossipAnswer, TypeOK, handlers
  <2>2. CASE gossip[n].left = {}
    <3>1. /\ gossip' = [gossip EXCEPT ![n] = GossipNext(n, gossip[n].todo)]
          /\ backoff' = [backoff EXCEPT ![n] = @ \ {gossip[n].to}]
      BY <1>3, <2>2 DEF GossipAnswer
    <3>2. gossip' \in [Node -> GossipState]
      BY <3>1, Fields, ThreadTypes DEF TypeOK
    <3>3. backoff' \in [Node -> SUBSET Node]
      BY <3>1 DEF TypeOK
    <3> QED BY <1>3, <3>2, <3>3 DEF GossipAnswer, TypeOK, handlers
  <2> QED BY <2>1, <2>2
<1>4. ASSUME NEW p \in Node, GossipPeer(n, p) PROVE TypeOK'
  <2>1. gossip[n].todo \ {p} \in SUBSET Node
    BY Fields
  <2>2. GossipNext(n, gossip[n].todo \ {p}) \in GossipState
    BY <2>1, ThreadTypes
  <2>3. [[[[gossip[n] EXCEPT !.pc = "post"] EXCEPT !.to = p]
           EXCEPT !.todo = gossip[n].todo \ {p}]
           EXCEPT !.left = gossip[n].payload] \in GossipState
    BY <2>1, Fields, GossipUpdate
  <2>4. gossip' \in [Node -> GossipState]
    BY <1>4, <2>2, <2>3 DEF GossipPeer, TypeOK
  <2> QED BY <1>4, <2>4 DEF GossipPeer, TypeOK, handlers
<1> QED BY <1>1, <1>2, <1>3, <1>4 DEF GossipStep

LEMMA SyncStepTypes ==
  ASSUME TypeOK, NEW n \in Node, SyncStep(n)
  PROVE  TypeOK'
<1>1. CASE SyncStart(n)
  <2>1. sync' \in [Node -> SyncState]
    BY <1>1, Fields, SyncUpdate DEF SyncStart, TypeOK
  <2> QED BY <1>1, <2>1 DEF SyncStart, TypeOK, handlers
<1>2. CASE SyncIds(n)
  <2> DEFINE remote == Index(sync[n].to)
             want == (remote \ sync[n].local) \cap Covers[n]
             push == sync[n].local \ remote
  <2>1. remote \in SUBSET Item /\ want \in SUBSET Item /\ push \in SUBSET Item
    BY Fields, IndexType
  <2>2. sync' = [sync EXCEPT ![n].pc = "exchange", ![n].remote = remote,
                             ![n].want = want, ![n].push = push]
    BY <1>2 DEF SyncIds
  <2> HIDE DEF remote, want, push
  <2>3. [[[[sync[n] EXCEPT !.pc = "exchange"] EXCEPT !.remote = remote]
            EXCEPT !.want = want] EXCEPT !.push = push] \in SyncState
    BY <2>1, Fields, SyncUpdate
  <2>4. sync' \in [Node -> SyncState]
    BY <2>2, <2>3 DEF TypeOK
  <2> QED BY <1>2, <2>4 DEF SyncIds, TypeOK, handlers
<1>3. CASE SyncFetch(n)
  <2>1. PICK C \in SUBSET sync[n].want :
          sync' = [sync EXCEPT ![n].want = @ \ C, ![n].batch = C \cap Index(sync[n].to)]
    BY <1>3 DEF SyncFetch
  <2>2. sync[n].want \ C \in SUBSET Item /\ C \cap Index(sync[n].to) \in SUBSET Item
    BY Fields, IndexType
  <2>3. [[sync[n] EXCEPT !.want = sync[n].want \ C]
           EXCEPT !.batch = C \cap Index(sync[n].to)] \in SyncState
    BY <2>2, Fields, SyncUpdate
  <2>4. sync' \in [Node -> SyncState]
    BY <2>1, <2>3 DEF TypeOK
  <2> QED BY <1>3, <2>4 DEF SyncFetch, TypeOK, handlers
<1>4. CASE SyncMerge(n)
  <2>1. PICK i \in sync[n].batch :
          LET src == <<sync[n].to, "fetch">> IN
          \/ MergeOn(n, src, i) /\ sync' = sync
          \/ MergeEnd(n, src, i) /\ sync' = [sync EXCEPT ![n].batch = @ \ {i}]
    BY <1>4 DEF SyncMerge
  <2>2. i \in Item /\ sync[n].batch \ {i} \in SUBSET Item
    BY Fields
  <2>3. sync' \in [Node -> SyncState]
    <3>1. sync \in [Node -> SyncState]
      BY DEF TypeOK
    <3>2. [sync[n] EXCEPT !.batch = sync[n].batch \ {i}] \in SyncState
      BY <2>2, Fields, SyncUpdate
    <3>3. sync' = sync \/ sync' = [sync EXCEPT ![n].batch = @ \ {i}]
      BY <2>1
    <3> QED BY <3>1, <3>2, <3>3
  <2>4. <<sync[n].to, "fetch">> \in Source
    BY Fields DEF Source
  <2>5. /\ held' \in [Node -> SUBSET (Verified \cap Valid)]
        /\ \A m \in Node : IsFiniteSet(held'[m])
        /\ queue' \in [Node -> SUBSET Item]
        /\ merges' \in [Node -> SUBSET MergeState]
        /\ told' \in [Node -> SUBSET Item]
    BY <2>1, <2>2, <2>4, MergeTypes
  <2> QED BY <1>4, <2>3, <2>5 DEF SyncMerge, TypeOK
<1>5. CASE SyncPush(n)
  <2>1. PICK C \in SUBSET sync[n].push :
          /\ inbox' = [inbox EXCEPT ![sync[n].to][n]["sync"] = C]
          /\ sync' = [sync EXCEPT ![n].pc = "wait", ![n].push = @ \ C]
    BY <1>5 DEF SyncPush
  <2>2. C \in SUBSET Item /\ sync[n].push \ C \in SUBSET Item
    BY Fields
  <2>3. inbox' \in [Node -> [Node -> [Thread -> SUBSET Item]]]
    BY <2>1, <2>2, Fields DEF TypeOK, Thread
  <2>4. [[sync[n] EXCEPT !.pc = "wait"] EXCEPT !.push = sync[n].push \ C] \in SyncState
    BY <2>2, Fields, SyncUpdate
  <2>5. sync' \in [Node -> SyncState]
    BY <2>1, <2>4 DEF TypeOK
  <2> QED BY <1>5, <2>3, <2>5 DEF SyncPush, TypeOK, handlers
<1>6. CASE SyncAnswer(n)
  <2>1. sync' \in [Node -> SyncState]
    BY <1>6, Fields, SyncUpdate DEF SyncAnswer, TypeOK
  <2> QED BY <1>6, <2>1 DEF SyncAnswer, TypeOK, handlers
<1>7. CASE SyncPeerDone(n)
  BY <1>7, ThreadTypes DEF SyncPeerDone, TypeOK, handlers
<1>8. ASSUME NEW p \in Node, SyncSkip(n, p) PROVE TypeOK'
  <2>1. sync[n].todo \ {p} \in SUBSET Node
    BY Fields
  <2>2. sync' \in [Node -> SyncState]
    BY <1>8, <2>1, Fields, SyncUpdate DEF SyncSkip, TypeOK
  <2> QED BY <1>8, <2>2 DEF SyncSkip, TypeOK, handlers
<1>9. ASSUME NEW p \in Node, SyncProbe(n, p) PROVE TypeOK'
  <2>1. sync[n].todo \ {p} \in SUBSET Node
    BY Fields
  <2>2. [sync[n] EXCEPT !.todo = sync[n].todo \ {p}] \in SyncState
    BY <2>1, Fields, SyncUpdate
  <2>3. [[[[sync[n] EXCEPT !.pc = "ids"] EXCEPT !.to = p]
            EXCEPT !.todo = sync[n].todo \ {p}]
            EXCEPT !.local = Index(n)] \in SyncState
    BY <2>1, Fields, IndexType, SyncUpdate
  <2>4. sync' \in [Node -> SyncState]
    BY <1>9, <2>2, <2>3 DEF SyncProbe, TypeOK
  <2>5. backoff' \in [Node -> SUBSET Node]
    BY <1>9 DEF SyncProbe, TypeOK
  <2> QED BY <1>9, <2>4, <2>5 DEF SyncProbe, TypeOK, handlers
<1> QED BY <1>1, <1>2, <1>3, <1>4, <1>5, <1>6, <1>7, <1>8, <1>9 DEF SyncStep

LEMMA EnvironmentTypes ==
  ASSUME TypeOK, NEW n \in Node, Environment(n)
  PROVE  TypeOK'
<1> USE FederationAssumption
<1>1. CASE GossipFail(n)
  <2>1. gossip' \in [Node -> GossipState]
    BY <1>1, Fields, ThreadTypes DEF GossipFail, TypeOK
  <2>2. backoff' \in [Node -> SUBSET Node]
    BY <1>1, Fields DEF GossipFail, TypeOK
  <2>3. faults' \in 0 .. MaxFaults
    BY <1>1 DEF GossipFail, TypeOK
  <2> QED BY <1>1, <2>1, <2>2, <2>3 DEF GossipFail, TypeOK, handlers
<1>2. CASE SyncFail(n)
  <2>1. faults' \in 0 .. MaxFaults
    BY <1>2 DEF SyncFail, TypeOK
  <2>2. ASSUME backoff' = [backoff EXCEPT ![n] = @ \cup {sync[n].to}],
               sync' = [sync EXCEPT ![n] = SyncNext(n)]
        PROVE  TypeOK'
    <3>1. sync' \in [Node -> SyncState]
      BY <2>2, ThreadTypes DEF TypeOK
    <3>2. backoff' \in [Node -> SUBSET Node]
      BY <2>2, Fields DEF TypeOK
    <3> QED BY <1>2, <2>1, <3>1, <3>2 DEF SyncFail, TypeOK, handlers
  <2>3. ASSUME NEW p \in Node,
               backoff' = [backoff EXCEPT ![n] = @ \cup {p}],
               sync' = [sync EXCEPT ![n].todo = @ \ {p}]
        PROVE  TypeOK'
    <3>1. [sync[n] EXCEPT !.todo = sync[n].todo \ {p}] \in SyncState
      BY Fields, SyncUpdate
    <3>2. sync' \in [Node -> SyncState]
      BY <2>3, <3>1 DEF TypeOK
    <3>3. backoff' \in [Node -> SUBSET Node]
      BY <2>3 DEF TypeOK
    <3> QED BY <1>2, <2>1, <3>2, <3>3 DEF SyncFail, TypeOK, handlers
  <2>4. sync[n].todo \subseteq Node
    BY Fields
  <2> QED BY <1>2, <2>2, <2>3, <2>4 DEF SyncFail
<1>3. CASE Restart(n)
  <2>1. gossip' \in [Node -> GossipState]
    BY <1>3, Fields, ThreadTypes DEF Restart, TypeOK
  <2>2. sync' \in [Node -> SyncState]
    BY <1>3, ThreadTypes DEF Restart, TypeOK
  <2>3. backoff' \in [Node -> SUBSET Node]
    BY <1>3 DEF Restart, TypeOK
  <2>4. inbox' \in [Node -> [Node -> [Thread -> SUBSET Item]]]
    BY <1>3, ThreadTypes DEF Restart, TypeOK
  <2>5. peers' \in [Node -> SUBSET Node] /\ started' \subseteq Node
    BY <1>3 DEF Restart, TypeOK
  <2>6. queue' \in [Node -> SUBSET Item] /\ faults' \in 0 .. MaxFaults
    BY <1>3 DEF Restart, TypeOK
  <2>7. /\ merges' \in [Node -> SUBSET MergeState]
        /\ posts' \in [Node -> SUBSET PostState]
    BY <1>3 DEF Restart, TypeOK
  <2>8. told' \in [Node -> SUBSET Item]
    <3>1. held[n] \subseteq Item
      BY BodyAssumption DEF TypeOK
    <3> QED BY <1>3, <3>1 DEF Restart, TypeOK
  <2> QED BY <1>3, <2>1, <2>2, <2>3, <2>4, <2>5, <2>6, <2>7, <2>8 DEF Restart, TypeOK
<1>4. CASE Post(n)
  BY <1>4, PostTypes
<1>5. ASSUME NEW p \in Node, AddPeer(n, p) PROVE TypeOK'
  BY <1>5 DEF AddPeer, TypeOK, handlers
<1>6. ASSUME NEW p \in Node, RemovePeer(n, p) PROVE TypeOK'
  BY <1>6 DEF RemovePeer, TypeOK, handlers
<1>7. ASSUME NEW p \in Node, BackoffOver(n, p) PROVE TypeOK'
  BY <1>7 DEF BackoffOver, TypeOK, handlers
<1>8. ASSUME NEW m \in Node, NEW t \in Thread, RejectAltered(n, m, t) PROVE TypeOK'
  <2>1. inbox' \in [Node -> [Node -> [Thread -> SUBSET Item]]]
    BY <1>8 DEF RejectAltered, TypeOK
  <2>2. faults' \in 0 .. MaxFaults
    BY <1>8 DEF RejectAltered, TypeOK
  <2> QED BY <1>8, <2>1, <2>2 DEF RejectAltered, TypeOK, handlers
<1>9. CASE RejectFetched(n)
  <2>1. PICK i \in sync[n].batch : sync' = [sync EXCEPT ![n].batch = @ \ {i}]
    BY <1>9 DEF RejectFetched
  <2>2. sync' \in [Node -> SyncState]
    BY <2>1, Fields, SyncUpdate DEF TypeOK
  <2>3. faults' \in 0 .. MaxFaults
    BY <1>9 DEF RejectFetched, TypeOK
  <2> QED BY <1>9, <2>2, <2>3 DEF RejectFetched, TypeOK, handlers
<1> QED BY <1>1, <1>2, <1>3, <1>4, <1>5, <1>6, <1>7, <1>8, <1>9 DEF Environment

LEMMA TypeInvariant == TypeOK /\ [Next]_vars => TypeOK'
<1> SUFFICES ASSUME TypeOK, [Next]_vars PROVE TypeOK'
  OBVIOUS
<1>1. CASE UNCHANGED vars
  BY <1>1 DEF vars, handlers, TypeOK
<1>2. ASSUME NEW n \in Node, NEW m \in Node, NEW t \in Thread, HandleAnnounce(n, m, t)
      PROVE  TypeOK'
  <2>1. PICK i \in inbox[n][m][t] :
          \/ MergeOn(n, <<m, t>>, i) /\ inbox' = inbox
          \/ MergeEnd(n, <<m, t>>, i) /\ inbox' = [inbox EXCEPT ![n][m][t] = @ \ {i}]
    BY <1>2 DEF HandleAnnounce
  <2>2. i \in Item
    BY DEF TypeOK
  <2>3. inbox' \in [Node -> [Node -> [Thread -> SUBSET Item]]]
    <3>1. inbox \in [Node -> [Node -> [Thread -> SUBSET Item]]]
      BY DEF TypeOK
    <3>2. inbox' = inbox \/ inbox' = [inbox EXCEPT ![n][m][t] = @ \ {i}]
      BY <2>1
    <3>3. [inbox EXCEPT ![n][m][t] = @ \ {i}] \in [Node -> [Node -> [Thread -> SUBSET Item]]]
      BY <3>1
    <3> QED BY <3>1, <3>2, <3>3
  <2>4. <<m, t>> \in Source
    BY DEF Source
  <2>5. /\ held' \in [Node -> SUBSET (Verified \cap Valid)]
        /\ \A k \in Node : IsFiniteSet(held'[k])
        /\ queue' \in [Node -> SUBSET Item]
        /\ merges' \in [Node -> SUBSET MergeState]
        /\ told' \in [Node -> SUBSET Item]
    BY <2>1, <2>2, <2>4, MergeTypes
  <2> QED BY <1>2, <2>3, <2>5 DEF HandleAnnounce, TypeOK
<1> QED BY <1>1, <1>2, GossipStepTypes, SyncStepTypes, EnvironmentTypes DEF Next

\* Every variable has its type, and no node ever stores an item that does not
\* verify or that the semantic rules refuse (TypeOK; verified_merge).
THEOREM TypeCorrect == Spec => []TypeOK
<1>1. Init => TypeOK
  <2> SUFFICES ASSUME Init PROVE TypeOK
    OBVIOUS
  <2>1. gossip \in [Node -> GossipState] /\ sync \in [Node -> SyncState]
    BY DEF Init, GossipIdle, SyncIdle, GossipState, SyncState
  <2>2. inbox \in [Node -> [Node -> [Thread -> SUBSET Item]]]
    BY DEF Init, EmptyInbox
  <2>3. \A n \in Node : IsFiniteSet(held[n])
    BY FS_EmptySet DEF Init
  <2> QED BY <2>1, <2>2, <2>3, FederationAssumption DEF Init, TypeOK
<1> QED BY <1>1, TypeInvariant, PTL DEF Spec

-----------------------------------------------------------------------------
(***************************************************************************)
(* What travels is held and shared by its sender.  InFlightIsShared speaks   *)
(* of batches and requests; it is inductive together with the queue, the     *)
(* payload of a flush and the index kept for a pass, from which they are cut, *)
(* with the fact that a batch is merged before the next peer is chosen, and   *)
(* with what a handler knows of the item it has called the store for.         *)
(***************************************************************************)
QueueHeld    == \A n \in Node : queue[n] \subseteq held[n] \cap Covers[n]
GossipShared == \A n \in Node : /\ gossip[n].payload \subseteq Index(n)
                                /\ gossip[n].left \subseteq Index(n)
SyncShared   == \A n \in Node : /\ sync[n].local \subseteq Index(n)
                                /\ sync[n].push \subseteq Index(n)
                                /\ sync[n].batch \subseteq Index(sync[n].to)
                                /\ sync[n].pc # "exchange" => sync[n].batch = {}
InboxShared  == \A m, n \in Node : \A t \in Thread : inbox[m][n][t] \subseteq Index(n)

StoredHeld   == \A n \in Node : /\ \A g \in merges[n] : g.stored => g.item \in held[n]
                              /\ \A p \in posts[n] : p.stored => p.item \in held[n]

SharedInv == QueueHeld /\ StoredHeld /\ GossipShared /\ SyncShared /\ InboxShared

\* Item i reaches n in a batch it fetched from m or in a request m posted.
Delivered(n, m, i) ==
  \/ i \in sync[n].batch /\ m = sync[n].to
  \/ \E t \in Thread : i \in inbox[n][m][t]

Merging(n, m, s, i) == Delivered(n, m, i) /\ (MergeOn(n, s, i) \/ MergeEnd(n, s, i))

\* Only the merge of what was delivered, a POST and a restart touch the tables and
\* what the handlers of a node have in hand.
LEMMA StepKinds ==
  ASSUME TypeOK, [Next]_vars
  PROVE  \/ /\ UNCHANGED <<written, held, merges, posts, told>>
            /\ \A n \in Node : queue'[n] \subseteq queue[n]
         \/ \E n, m \in Node, s \in Source, i \in Item :
              Merging(n, m, s, i) /\ UNCHANGED <<written, posts>>
         \/ \E n \in Node : Post(n)
         \/ \E n \in Node : Restart(n)
<1> DEFINE Still == /\ UNCHANGED <<written, held, merges, posts, told>>
                    /\ \A n \in Node : queue'[n] \subseteq queue[n]
           Merges == \E n, m \in Node, s \in Source, i \in Item :
                       Merging(n, m, s, i) /\ UNCHANGED <<written, posts>>
<1>1. CASE UNCHANGED vars
  BY <1>1 DEF vars, handlers
<1>2. ASSUME NEW n \in Node, GossipStep(n) PROVE Still
  BY <1>2 DEF GossipStep, GossipDrain, GossipPost, GossipAnswer, GossipPeer, TypeOK, handlers
<1>3. ASSUME NEW n \in Node, SyncStep(n) PROVE Still \/ Merges
  <2>1. CASE SyncMerge(n)
    <3> DEFINE src == <<sync[n].to, "fetch">>
    <3>1. PICK i \in sync[n].batch : MergeOn(n, src, i) \/ MergeEnd(n, src, i)
      BY <2>1 DEF SyncMerge
    <3>2. i \in Item /\ sync[n].to \in Node /\ src \in Source
      BY Fields DEF Source
    <3>3. Merging(n, sync[n].to, src, i)
      BY <3>1 DEF Merging, Delivered
    <3>4. UNCHANGED <<written, posts>>
      BY <2>1 DEF SyncMerge
    <3> HIDE DEF src
    <3> QED BY <3>2, <3>3, <3>4
  <2>2. CASE ~SyncMerge(n)
    BY <1>3, <2>2 DEF SyncStep, SyncStart, SyncIds, SyncFetch, SyncPush, SyncAnswer,
                      SyncPeerDone, SyncSkip, SyncProbe, handlers
  <2> QED BY <2>1, <2>2
<1>4. ASSUME NEW n \in Node, Environment(n), ~Post(n), ~Restart(n) PROVE Still
  BY <1>4 DEF Environment, GossipFail, SyncFail, RejectFetched, AddPeer, RemovePeer,
              BackoffOver, RejectAltered, handlers
<1>5. ASSUME NEW n \in Node, NEW m \in Node, NEW t \in Thread, HandleAnnounce(n, m, t)
      PROVE  Merges
  <2>1. PICK i \in inbox[n][m][t] : MergeOn(n, <<m, t>>, i) \/ MergeEnd(n, <<m, t>>, i)
    BY <1>5 DEF HandleAnnounce
  <2>2. i \in Item /\ <<m, t>> \in Source
    BY DEF TypeOK, Source
  <2>3. Merging(n, m, <<m, t>>, i)
    BY <2>1 DEF Merging, Delivered
  <2>4. UNCHANGED <<written, posts>>
    BY <1>5 DEF HandleAnnounce
  <2> QED BY <2>2, <2>3, <2>4
<1> QED BY <1>1, <1>2, <1>3, <1>4, <1>5 DEF Next

\* The tables change by the store's calls of a POST and of a merge.
LEMMA HeldChange ==
  ASSUME TypeOK, [Next]_vars
  PROVE  \/ UNCHANGED <<written, held>>
         \/ \E n \in Node : \E p \in posts[n] : PostStore(n, p)
         \/ \E n, m \in Node, s \in Source, i \in Item :
              Delivered(n, m, i) /\ MergeStore(n, s, i) /\ UNCHANGED written
<1>1. ASSUME NEW n \in Node, NEW s, NEW i, MergeOn(n, s, i) \/ MergeEnd(n, s, i)
      PROVE  held' = held \/ MergeStore(n, s, i)
  BY <1>1 DEF MergeOn, MergeEnd, Admit, Skip, Refuse, Report
<1>2. ASSUME NEW n \in Node, Post(n)
      PROVE  UNCHANGED <<written, held>> \/ \E p \in posts[n] : PostStore(n, p)
  BY <1>2 DEF Post, PostBegin, PostRefuse, PostAnswer
<1>3. ASSUME NEW n \in Node, Restart(n) PROVE UNCHANGED <<written, held>>
  BY <1>3 DEF Restart
<1>4. ASSUME NEW n \in Node, NEW m \in Node, NEW s \in Source, NEW i \in Item,
             Merging(n, m, s, i), UNCHANGED <<written, posts>>
      PROVE  \/ UNCHANGED <<written, held>>
             \/ Delivered(n, m, i) /\ MergeStore(n, s, i) /\ UNCHANGED written
  BY <1>1, <1>4 DEF Merging
<1> QED BY StepKinds, <1>2, <1>3, <1>4

\* A node's table only grows.
LEMMA HeldGrows ==
  ASSUME TypeOK, [Next]_vars, NEW k \in Node
  PROVE  /\ held[k] \subseteq held'[k]
         /\ Index(k) \subseteq Index(k)'
<1>1. ASSUME NEW n \in Node, NEW i, held' = [held EXCEPT ![n] = @ \cup {i}]
      PROVE  held[k] \subseteq held'[k]
  BY <1>1 DEF TypeOK
<1>2. held[k] \subseteq held'[k]
  BY <1>1, HeldChange DEF PostStore, MergeStore
<1> QED BY <1>2 DEF Index

\* A node queues only what it holds.
LEMMA QueueStaysHeld ==
  ASSUME TypeOK, QueueHeld, StoredHeld, [Next]_vars
  PROVE  QueueHeld'
<1> SUFFICES ASSUME NEW k \in Node
             PROVE  queue'[k] \subseteq queue[k] \cup (held[k] \cap Covers[k])
  BY HeldGrows DEF QueueHeld
<1> DEFINE Goal == queue'[k] \subseteq queue[k] \cup (held[k] \cap Covers[k])
<1>1. ASSUME NEW n \in Node, NEW i \in held[n], queue' = Announce(n, i) PROVE Goal
  <2>1. queue' = queue \/ (i \in Covers[n] /\ queue' = [queue EXCEPT ![n] = @ \cup {i}])
    BY <1>1 DEF Announce
  <2>2. queue \in [Node -> SUBSET Item]
    BY DEF TypeOK
  <2>3. CASE queue' = queue
    BY <2>3
  <2>4. CASE i \in Covers[n] /\ queue' = [queue EXCEPT ![n] = @ \cup {i}]
    BY <1>1, <2>2, <2>4
  <2> QED BY <2>1, <2>3, <2>4
<1>2. ASSUME NEW n \in Node, NEW s, NEW i, MergeOn(n, s, i) \/ MergeEnd(n, s, i) PROVE Goal
  <2>1. CASE Report(n, s, i)
    <3>1. i \in held[n]
      BY <2>1 DEF Report, InHand, StoredHeld
    <3> QED BY <1>1, <2>1, <3>1 DEF Report
  <2>2. CASE ~Report(n, s, i)
    BY <1>2, <2>2 DEF MergeOn, MergeEnd, Admit, MergeStore, Skip, Refuse
  <2> QED BY <2>1, <2>2
<1>3. ASSUME NEW n \in Node, Post(n) PROVE Goal
  <2>1. ASSUME NEW p \in posts[n], PostAnswer(n, p) PROVE Goal
    <3>1. p.item \in held[n]
      BY <2>1 DEF PostAnswer, StoredHeld
    <3>2. queue' = queue \/ queue' = Announce(n, p.item)
      BY <2>1 DEF PostAnswer
    <3> QED BY <1>1, <3>1, <3>2
  <2> QED BY <1>3, <2>1 DEF Post, PostBegin, PostStore, PostRefuse
<1>4. ASSUME NEW n \in Node, Restart(n) PROVE Goal
  BY <1>4 DEF Restart, TypeOK
<1> QED BY StepKinds, <1>2, <1>3, <1>4 DEF Merging

\* What a merge or a POST has been told is stored is in the tables.
LEMMA StoredStaysHeld ==
  ASSUME TypeOK, StoredHeld, [Next]_vars
  PROVE  StoredHeld'
<1> SUFFICES ASSUME NEW k \in Node
             PROVE  /\ \A g \in merges'[k] : g.stored => g.item \in held'[k]
                    /\ \A p \in posts'[k] : p.stored => p.item \in held'[k]
  BY DEF StoredHeld
<1>1. /\ merges \in [Node -> SUBSET MergeState] /\ posts \in [Node -> SUBSET PostState]
      /\ held \in [Node -> SUBSET (Verified \cap Valid)]
      /\ held[k] \subseteq held'[k]
  BY HeldGrows DEF TypeOK
<1> DEFINE Fine(g) == g.stored => g.item \in held'[k]
<1>2. /\ \A g \in merges[k] : Fine(g)
      /\ \A p \in posts[k] : Fine(p)
  BY <1>1 DEF StoredHeld
<1>3. ASSUME NEW n \in Node, NEW s, NEW i, MergeOn(n, s, i) \/ MergeEnd(n, s, i)
      PROVE  \A g \in merges'[k] : Fine(g)
  <2>1. CASE Admit(n, s, i)
    BY <1>1, <1>2, <2>1 DEF Admit, InHand
  <2>2. CASE MergeStore(n, s, i)
    BY <1>1, <1>2, <2>2 DEF MergeStore, InHand
  <2>3. CASE Skip(n, s, i) \/ Refuse(n, s, i) \/ Report(n, s, i)
    BY <1>1, <1>2, <2>3 DEF Skip, Refuse, Report
  <2> QED BY <1>3, <2>1, <2>2, <2>3 DEF MergeOn, MergeEnd
<1>4. ASSUME NEW n \in Node, Post(n)
      PROVE  merges' = merges /\ \A p \in posts'[k] : Fine(p)
  <2>1. ASSUME NEW c, NEW i, PostBegin(n, c, i)
        PROVE  merges' = merges /\ \A p \in posts'[k] : Fine(p)
    BY <1>1, <1>2, <2>1 DEF PostBegin
  <2>2. ASSUME NEW q \in posts[n], PostStore(n, q)
        PROVE  merges' = merges /\ \A p \in posts'[k] : Fine(p)
    <3> DEFINE r == [q EXCEPT !.stored = TRUE]
    <3>1. q \in PostState
      BY <1>1
    <3>2. r.item = q.item
      BY <3>1 DEF PostState
    <3>3. q.item \in held'[n]
      BY <1>1, <2>2 DEF PostStore
    <3>4. merges' = merges /\ posts' = [posts EXCEPT ![n] = (@ \ {q}) \cup {r}]
      BY <2>2 DEF PostStore
    <3> HIDE DEF r
    <3> QED BY <1>1, <1>2, <3>2, <3>3, <3>4
  <2>3. ASSUME NEW q \in posts[n], PostRefuse(n, q) \/ PostAnswer(n, q)
        PROVE  merges' = merges /\ \A p \in posts'[k] : Fine(p)
    BY <1>1, <1>2, <2>3 DEF PostRefuse, PostAnswer
  <2> QED BY <1>4, <2>1, <2>2, <2>3 DEF Post
<1>5. ASSUME NEW n \in Node, Restart(n)
      PROVE  /\ \A g \in merges'[k] : Fine(g)
             /\ \A p \in posts'[k] : Fine(p)
  BY <1>1, <1>2, <1>5 DEF Restart
<1> QED BY StepKinds, <1>2, <1>3, <1>4, <1>5 DEF Merging

LEMMA GossipStaysShared ==
  ASSUME TypeOK, SharedInv, [Next]_vars
  PROVE  GossipShared'
<1> SUFFICES ASSUME NEW k \in Node
             PROVE  gossip'[k].payload \subseteq Index(k) /\ gossip'[k].left \subseteq Index(k)
  BY HeldGrows DEF GossipShared
<1>1. /\ gossip[k].payload \subseteq Index(k)
      /\ gossip[k].left \subseteq Index(k)
      /\ queue[k] \subseteq held[k] \cap Covers[k]
      /\ gossip \in [Node -> GossipState]
  BY DEF SharedInv, GossipShared, QueueHeld, TypeOK
<1>2. \A todo : /\ GossipNext(k, todo).payload \subseteq Index(k)
                /\ GossipNext(k, todo).left = {}
  BY <1>1 DEF GossipNext
<1>3. CASE gossip' = gossip
  BY <1>1, <1>3
<1>4. ASSUME NEW n \in Node, GossipDrain(n), gossip' # gossip
      PROVE  gossip'[k].payload \subseteq Index(k) /\ gossip'[k].left \subseteq Index(k)
  <2> DEFINE items == EntriesFor(n)
  <2>1. gossip' = [gossip EXCEPT ![n].todo = peers[n], ![n].payload = items]
    BY <1>4 DEF GossipDrain
  <2>2. n = k => items \subseteq Index(k)
    BY <1>1, FederationAssumption DEF EntriesFor, Index, Shares, TypeOK
  <2> HIDE DEF items
  <2>3. /\ gossip'[k].left = gossip[k].left
        /\ gossip'[k].payload = IF n = k THEN items ELSE gossip[k].payload
    BY <1>1, <2>1 DEF GossipState
  <2> QED BY <1>1, <2>2, <2>3
<1>5. ASSUME NEW n \in Node, GossipPost(n)
      PROVE  gossip'[k].payload \subseteq Index(k) /\ gossip'[k].left \subseteq Index(k)
  <2>1. PICK C \in SUBSET gossip[n].left :
          gossip' = [gossip EXCEPT ![n].pc = "wait", ![n].left = @ \ C]
    BY <1>5 DEF GossipPost
  <2>2. /\ gossip'[k].payload = gossip[k].payload
        /\ gossip'[k].left \subseteq gossip[k].left
    BY <1>1, <2>1 DEF GossipState
  <2> QED BY <1>1, <2>2
<1>6. ASSUME NEW n \in Node, GossipAnswer(n)
      PROVE  gossip'[k].payload \subseteq Index(k) /\ gossip'[k].left \subseteq Index(k)
  <2>1. \/ gossip' = [gossip EXCEPT ![n].pc = "post"]
        \/ gossip' = [gossip EXCEPT ![n] = GossipNext(n, gossip[n].todo)]
    BY <1>6 DEF GossipAnswer
  <2>2. CASE gossip' = [gossip EXCEPT ![n].pc = "post"]
    <3>1. /\ gossip'[k].payload = gossip[k].payload
          /\ gossip'[k].left = gossip[k].left
      BY <1>1, <2>2 DEF GossipState
    <3> QED BY <1>1, <3>1
  <2>3. CASE gossip' = [gossip EXCEPT ![n] = GossipNext(n, gossip[n].todo)]
    BY <1>1, <1>2, <2>3
  <2> QED BY <2>1, <2>2, <2>3
<1>7. ASSUME NEW n \in Node, NEW p \in Node, GossipPeer(n, p)
      PROVE  gossip'[k].payload \subseteq Index(k) /\ gossip'[k].left \subseteq Index(k)
  <2>1. CASE p \in backoff[n]
    <3>1. gossip' = [gossip EXCEPT ![n] = GossipNext(n, gossip[n].todo \ {p})]
      BY <1>7, <2>1 DEF GossipPeer
    <3> QED BY <1>1, <1>2, <3>1
  <2>2. CASE p \notin backoff[n]
    <3>1. gossip' = [gossip EXCEPT ![n].pc = "post", ![n].to = p, ![n].todo = @ \ {p},
                                   ![n].left = gossip[n].payload]
      BY <1>7, <2>2 DEF GossipPeer
    <3>2. /\ gossip'[k].payload = gossip[k].payload
          /\ gossip'[k].left = IF n = k THEN gossip[k].payload ELSE gossip[k].left
      BY <1>1, <3>1 DEF GossipState
    <3> QED BY <1>1, <3>2
  <2> QED BY <2>1, <2>2
<1>8. ASSUME NEW n \in Node, GossipFail(n)
      PROVE  gossip'[k].payload \subseteq Index(k) /\ gossip'[k].left \subseteq Index(k)
  <2>1. gossip' = [gossip EXCEPT ![n] = GossipNext(n, gossip[n].todo)]
    BY <1>8 DEF GossipFail
  <2> QED BY <1>1, <1>2, <2>1
<1>9. ASSUME NEW n \in Node, Restart(n)
      PROVE  gossip'[k].payload \subseteq Index(k) /\ gossip'[k].left \subseteq Index(k)
  <2>1. \/ gossip'[k] = GossipIdle(k)
        \/ gossip'[k] = GossipNext(k, gossip[k].todo)
        \/ gossip'[k] = gossip[k]
    BY <1>9 DEF Restart
  <2> QED BY <1>1, <1>2, <2>1 DEF GossipIdle
<1>10. ASSUME NEW n \in Node, SyncStep(n) PROVE gossip' = gossip
  BY <1>10 DEF SyncStep, SyncStart, SyncIds, SyncFetch, SyncMerge, SyncPush, SyncAnswer,
               SyncPeerDone, SyncSkip, SyncProbe
<1>11. ASSUME NEW n \in Node, Environment(n), ~GossipFail(n), ~Restart(n)
       PROVE  gossip' = gossip
  BY <1>11 DEF Environment, SyncFail, RejectFetched, Post, PostBegin, PostStore, PostRefuse,
               PostAnswer, AddPeer, RemovePeer, BackoffOver, RejectAltered
<1>12. ASSUME NEW n \in Node, NEW m \in Node, NEW t \in Thread, HandleAnnounce(n, m, t)
       PROVE  gossip' = gossip
  BY <1>12 DEF HandleAnnounce
<1>13. UNCHANGED vars => gossip' = gossip
  BY DEF vars
<1>14. ASSUME NEW n \in Node, GossipStep(n)
       PROVE  gossip'[k].payload \subseteq Index(k) /\ gossip'[k].left \subseteq Index(k)
  BY <1>3, <1>4, <1>5, <1>6, <1>7, <1>14 DEF GossipStep
<1> QED
  BY <1>3, <1>8, <1>9, <1>10, <1>11, <1>12, <1>13, <1>14 DEF Next

LEMMA SyncStaysShared ==
  ASSUME TypeOK, SharedInv, [Next]_vars
  PROVE  SyncShared'
<1> DEFINE Goal(k) == /\ sync'[k].local \subseteq Index(k)
                      /\ sync'[k].push \subseteq Index(k)
                      /\ sync'[k].batch \subseteq Index(sync'[k].to)
                      /\ sync'[k].pc # "exchange" => sync'[k].batch = {}
<1>0. \A k \in Node : sync'[k].to \in Node
  BY TypeInvariant DEF TypeOK, SyncState
<1> SUFFICES ASSUME NEW k \in Node PROVE Goal(k)
  BY <1>0, HeldGrows DEF SyncShared
<1>1. /\ sync[k].local \subseteq Index(k)
      /\ sync[k].push \subseteq Index(k)
      /\ sync[k].batch \subseteq Index(sync[k].to)
      /\ sync[k].pc # "exchange" => sync[k].batch = {}
      /\ sync \in [Node -> SyncState]
  BY DEF SharedInv, SyncShared, TypeOK
<1>2. /\ SyncNext(k).local = {} /\ SyncNext(k).push = {} /\ SyncNext(k).batch = {}
      /\ SyncIdle(k).local = {} /\ SyncIdle(k).push = {} /\ SyncIdle(k).batch = {}
  BY DEF SyncNext, SyncIdle
<1>3. CASE sync' = sync
  BY <1>1, <1>3
<1>4. ASSUME NEW n \in Node, SyncStart(n) PROVE Goal(k)
  <2>1. /\ sync'[k].local = sync[k].local /\ sync'[k].push = sync[k].push
        /\ sync'[k].batch = sync[k].batch /\ sync'[k].to = sync[k].to
        /\ sync'[k].pc = sync[k].pc
    BY <1>1, <1>4 DEF SyncStart, SyncState
  <2> QED BY <1>1, <2>1
<1>5. ASSUME NEW n \in Node, SyncIds(n) PROVE Goal(k)
  <2> DEFINE remote == Index(sync[n].to)
             want == (remote \ sync[n].local) \cap Covers[n]
             push == sync[n].local \ remote
  <2>1. sync' = [sync EXCEPT ![n].pc = "exchange", ![n].remote = remote,
                             ![n].want = want, ![n].push = push]
    BY <1>5 DEF SyncIds
  <2>2. push \subseteq sync[n].local
    OBVIOUS
  <2> HIDE DEF remote, want, push
  <2>3. /\ sync'[k].local = sync[k].local
        /\ sync'[k].push = IF n = k THEN push ELSE sync[k].push
        /\ sync'[k].pc = IF n = k THEN "exchange" ELSE sync[k].pc
        /\ sync'[k].batch = sync[k].batch /\ sync'[k].to = sync[k].to
    BY <1>1, <2>1 DEF SyncState
  <2> QED BY <1>1, <2>2, <2>3
<1>6. ASSUME NEW n \in Node, SyncFetch(n) PROVE Goal(k)
  <2> DEFINE S == Index(sync[n].to)
  <2>1. PICK C \in SUBSET sync[n].want :
          sync' = [sync EXCEPT ![n].want = @ \ C, ![n].batch = C \cap S]
    BY <1>6 DEF SyncFetch
  <2>2. sync[n].pc = "exchange"
    BY <1>6 DEF SyncFetch
  <2>3. n = k => C \cap S \subseteq Index(sync[k].to)
    OBVIOUS
  <2> HIDE DEF S
  <2>4. /\ sync'[k].local = sync[k].local /\ sync'[k].push = sync[k].push
        /\ sync'[k].to = sync[k].to /\ sync'[k].pc = sync[k].pc
        /\ sync'[k].batch = IF n = k THEN C \cap S ELSE sync[k].batch
    BY <1>1, <2>1 DEF SyncState
  <2> QED BY <1>1, <2>2, <2>3, <2>4
<1>7. ASSUME NEW n \in Node, SyncMerge(n) \/ RejectFetched(n), sync' # sync PROVE Goal(k)
  <2>1. PICK i \in sync[n].batch : sync' = [sync EXCEPT ![n].batch = @ \ {i}]
    BY <1>7 DEF SyncMerge, RejectFetched
  <2>2. /\ sync'[k].local = sync[k].local /\ sync'[k].push = sync[k].push
        /\ sync'[k].to = sync[k].to /\ sync'[k].pc = sync[k].pc
        /\ sync'[k].batch \subseteq sync[k].batch
    BY <1>1, <2>1 DEF SyncState
  <2> QED BY <1>1, <2>2
<1>8. ASSUME NEW n \in Node, SyncPush(n) PROVE Goal(k)
  <2>1. PICK C \in SUBSET sync[n].push :
          sync' = [sync EXCEPT ![n].pc = "wait", ![n].push = @ \ C]
    BY <1>8 DEF SyncPush
  <2>2. /\ sync'[k].local = sync[k].local /\ sync'[k].push \subseteq sync[k].push
        /\ sync'[k].batch = sync[k].batch /\ sync'[k].to = sync[k].to
        /\ sync'[k].pc = IF n = k THEN "wait" ELSE sync[k].pc
    BY <1>1, <2>1 DEF SyncState
  <2>3. sync[n].batch = {}
    BY <1>8 DEF SyncPush
  <2> QED BY <1>1, <2>2, <2>3
<1>9. ASSUME NEW n \in Node, SyncAnswer(n) PROVE Goal(k)
  <2>1. /\ sync'[k].local = sync[k].local /\ sync'[k].push = sync[k].push
        /\ sync'[k].batch = sync[k].batch /\ sync'[k].to = sync[k].to
        /\ sync'[k].pc = IF n = k THEN "exchange" ELSE sync[k].pc
    BY <1>1, <1>9 DEF SyncAnswer, SyncState
  <2> QED BY <1>1, <2>1
<1>10. ASSUME NEW n \in Node, SyncPeerDone(n) PROVE Goal(k)
  BY <1>1, <1>2, <1>10 DEF SyncPeerDone
<1>11. ASSUME NEW n \in Node, NEW p, sync' = [sync EXCEPT ![n].todo = @ \ {p}]
       PROVE  Goal(k)
  <2>1. /\ sync'[k].local = sync[k].local /\ sync'[k].push = sync[k].push
        /\ sync'[k].batch = sync[k].batch /\ sync'[k].to = sync[k].to
        /\ sync'[k].pc = sync[k].pc
    BY <1>1, <1>11 DEF SyncState
  <2> QED BY <1>1, <2>1
<1>12. ASSUME NEW n \in Node, NEW p \in Node, SyncSkip(n, p) PROVE Goal(k)
  BY <1>11, <1>12 DEF SyncSkip
<1>13. ASSUME NEW n \in Node, NEW p \in Node, SyncProbe(n, p) PROVE Goal(k)
  <2>1. CASE Index(n) = Index(p)
    BY <1>11, <1>13, <2>1 DEF SyncProbe
  <2>2. CASE Index(n) # Index(p)
    <3> DEFINE S == Index(n)
    <3>1. sync' = [sync EXCEPT ![n].pc = "ids", ![n].to = p, ![n].todo = @ \ {p},
                               ![n].local = S]
      BY <1>13, <2>2 DEF SyncProbe
    <3>2. sync[n].pc = "idle"
      BY <1>13 DEF SyncProbe
    <3>3. n = k => S \subseteq Index(k)
      OBVIOUS
    <3> HIDE DEF S
    <3>4. /\ sync'[k].local = IF n = k THEN S ELSE sync[k].local
          /\ sync'[k].push = sync[k].push
          /\ sync'[k].batch = sync[k].batch
          /\ n # k => sync'[k].to = sync[k].to /\ sync'[k].pc = sync[k].pc
      BY <1>1, <3>1 DEF SyncState
    <3> QED BY <1>1, <3>2, <3>3, <3>4
  <2> QED BY <2>1, <2>2
<1>14. ASSUME NEW n \in Node, SyncStep(n) PROVE Goal(k)
  BY <1>3, <1>4, <1>5, <1>6, <1>7, <1>8, <1>9, <1>10, <1>12, <1>13, <1>14 DEF SyncStep
<1>15. ASSUME NEW n \in Node, SyncFail(n) PROVE Goal(k)
  <2>1. CASE sync' = [sync EXCEPT ![n] = SyncNext(n)]
    BY <1>1, <1>2, <2>1
  <2> QED BY <1>11, <1>15, <2>1 DEF SyncFail
<1>16. ASSUME NEW n \in Node, Restart(n) PROVE Goal(k)
  <2>1. sync'[k] \in {SyncIdle(k), SyncNext(k), sync[k]}
    BY <1>16 DEF Restart
  <2> QED BY <1>1, <1>2, <2>1
<1>17. ASSUME NEW n \in Node, GossipStep(n) PROVE sync' = sync
  BY <1>17 DEF GossipStep, GossipDrain, GossipPost, GossipAnswer, GossipPeer
<1>18. ASSUME NEW n \in Node, Environment(n), ~SyncFail(n), ~RejectFetched(n), ~Restart(n)
       PROVE  sync' = sync
  BY <1>18 DEF Environment, GossipFail, Post, PostBegin, PostStore, PostRefuse, PostAnswer,
               AddPeer, RemovePeer, BackoffOver, RejectAltered
<1>19. ASSUME NEW n \in Node, NEW m \in Node, NEW t \in Thread, HandleAnnounce(n, m, t)
       PROVE  sync' = sync
  BY <1>19 DEF HandleAnnounce
<1>20. UNCHANGED vars => sync' = sync
  BY DEF vars
<1> QED
  BY <1>3, <1>7, <1>14, <1>15, <1>16, <1>17, <1>18, <1>19, <1>20 DEF Next

LEMMA InboxStaysShared ==
  ASSUME TypeOK, SharedInv, [Next]_vars
  PROVE  InboxShared'
<1> SUFFICES ASSUME NEW l \in Node, NEW k \in Node, NEW u \in Thread
             PROVE  inbox'[l][k][u] \subseteq Index(k)
  BY HeldGrows DEF InboxShared
<1>1. /\ inbox[l][k][u] \subseteq Index(k)
      /\ gossip[k].left \subseteq Index(k)
      /\ sync[k].push \subseteq Index(k)
      /\ inbox \in [Node -> [Node -> [Thread -> SUBSET Item]]]
  BY DEF SharedInv, InboxShared, GossipShared, SyncShared, TypeOK
<1>2. ASSUME NEW n \in Node, GossipPost(n) PROVE inbox'[l][k][u] \subseteq Index(k)
  <2>1. PICK C \in SUBSET gossip[n].left :
          inbox' = [inbox EXCEPT ![gossip[n].to][n]["gossip"] = C]
    BY <1>2 DEF GossipPost
  <2>2. inbox'[l][k][u] = inbox[l][k][u] \/ (n = k /\ inbox'[l][k][u] = C)
    BY <1>1, <2>1, Fields DEF Thread
  <2> QED BY <1>1, <2>2
<1>3. ASSUME NEW n \in Node, SyncPush(n) PROVE inbox'[l][k][u] \subseteq Index(k)
  <2>1. PICK C \in SUBSET sync[n].push :
          inbox' = [inbox EXCEPT ![sync[n].to][n]["sync"] = C]
    BY <1>3 DEF SyncPush
  <2>2. inbox'[l][k][u] = inbox[l][k][u] \/ (n = k /\ inbox'[l][k][u] = C)
    BY <1>1, <2>1, Fields DEF Thread
  <2> QED BY <1>1, <2>2
<1>4. ASSUME NEW m \in Node, NEW n \in Node, NEW t \in Thread,
             HandleAnnounce(m, n, t) \/ RejectAltered(m, n, t), inbox' # inbox
      PROVE  inbox'[l][k][u] \subseteq Index(k)
  <2>1. PICK i \in inbox[m][n][t] : inbox' = [inbox EXCEPT ![m][n][t] = @ \ {i}]
    BY <1>4 DEF HandleAnnounce, RejectAltered
  <2>2. inbox'[l][k][u] \subseteq inbox[l][k][u]
    BY <1>1, <2>1
  <2> QED BY <1>1, <2>2
<1>5. ASSUME NEW n \in Node, Restart(n) PROVE inbox'[l][k][u] \subseteq Index(k)
  <2>1. inbox' = [inbox EXCEPT ![n] = EmptyInbox]
    BY <1>5 DEF Restart
  <2> QED BY <1>1, <2>1 DEF EmptyInbox
<1>6. ASSUME NEW n \in Node, GossipStep(n), ~GossipPost(n) PROVE inbox' = inbox
  BY <1>6 DEF GossipStep, GossipDrain, GossipAnswer, GossipPeer
<1>7. ASSUME NEW n \in Node, SyncStep(n), ~SyncPush(n) PROVE inbox' = inbox
  BY <1>7 DEF SyncStep, SyncStart, SyncIds, SyncFetch, SyncMerge, SyncAnswer,
              SyncPeerDone, SyncSkip, SyncProbe
<1>8. ASSUME NEW n \in Node, Environment(n), ~Restart(n)
      PROVE  inbox'[l][k][u] \subseteq Index(k)
  BY <1>1, <1>4, <1>8 DEF Environment, GossipFail, SyncFail, RejectFetched, Post, PostBegin,
                          PostStore, PostRefuse, PostAnswer, AddPeer, RemovePeer, BackoffOver
<1>9. UNCHANGED vars => inbox' = inbox
  BY DEF vars
<1> QED
  BY <1>1, <1>2, <1>3, <1>4, <1>5, <1>6, <1>7, <1>8, <1>9 DEF Next

LEMMA SharedInvariant == Spec => []SharedInv
<1>1. Init => SharedInv
  <2> SUFFICES ASSUME Init PROVE SharedInv
    OBVIOUS
  <2>1. QueueHeld /\ StoredHeld
    BY DEF Init, QueueHeld, StoredHeld
  <2>2. GossipShared
    BY DEF Init, GossipShared, GossipIdle
  <2>3. SyncShared
    BY DEF Init, SyncShared, SyncIdle
  <2>4. InboxShared
    BY DEF Init, InboxShared, EmptyInbox
  <2> QED BY <2>1, <2>2, <2>3, <2>4 DEF SharedInv
<1>2. TypeOK /\ SharedInv /\ [Next]_vars => SharedInv'
  BY QueueStaysHeld, StoredStaysHeld, GossipStaysShared, SyncStaysShared, InboxStaysShared
     DEF SharedInv
<1> QED BY <1>1, <1>2, TypeCorrect, PTL DEF Spec

\* Nothing is under way that its sender does not hold and share, whatever was
\* lost, delayed or restarted (InFlightIsShared; _entries_for, handle_fetch and
\* reconcile_with read what they send from shareable_index).
THEOREM InFlightStaysShared == Spec => []InFlightIsShared
<1>1. SharedInv => InFlightIsShared
  BY DEF SharedInv, GossipShared, SyncShared, InboxShared, InFlightIsShared
<1> QED BY <1>1, SharedInvariant, PTL

-----------------------------------------------------------------------------
(***************************************************************************)
(* What a node stores is announced.  A merge that called the store has its    *)
(* item in hand until it reports it.  A POST decides by the size of a table:   *)
(* that the size it read first is never more than the present one makes the   *)
(* POST that stores an item find the table grown, however many other handlers *)
(* store in between, since tables do not shrink.                              *)
(***************************************************************************)
BeforeSmall == \A n \in Node : \A p \in posts[n] : p.before <= Cardinality(Table(n, p.item))

\* Item i was handed over, or some handler of n is still to do it.
Accounted(n, i) ==
  \/ i \in told[n]
  \/ \E g \in merges[n] : g.item = i /\ g.stored
  \/ \E p \in posts[n] : p.item = i /\ p.stored /\ Created(n, p)

LEMMA TableGrows ==
  ASSUME TypeOK, [Next]_vars, NEW n \in Node, NEW i
  PROVE  /\ Cardinality(Table(n, i)) \in Nat
         /\ Cardinality(Table(n, i)') \in Nat
         /\ Cardinality(Table(n, i)) <= Cardinality(Table(n, i)')
<1>1. Cardinality(Table(n, i)) \in Nat
  BY TableSize
<1>2. IsFiniteSet(held'[n])
  BY TypeInvariant DEF TypeOK
<1>3. Table(n, i)' \subseteq held'[n] /\ Table(n, i) \subseteq Table(n, i)'
  BY HeldGrows DEF Table
<1>4. IsFiniteSet(Table(n, i)')
  BY <1>2, <1>3, FS_Subset
<1> QED BY <1>1, <1>3, <1>4, FS_Subset, FS_CardinalityType

\* The table of an item that is stored gets larger by it.
LEMMA StoringGrows ==
  ASSUME TypeOK, NEW n \in Node, NEW i \in Item, i \notin held[n],
         held' = [held EXCEPT ![n] = @ \cup {i}]
  PROVE  Cardinality(Table(n, i)') = Cardinality(Table(n, i)) + 1
<1>1. IsFiniteSet(Table(n, i))
  BY TableSize
<1>2. held'[n] = held[n] \cup {i}
  BY DEF TypeOK
<1>3. Table(n, i)' = Table(n, i) \cup {i} /\ i \notin Table(n, i)
  BY <1>2 DEF Table, Record
<1> QED BY <1>1, <1>3, FS_AddElement

LEMMA BeforeStaysSmall ==
  ASSUME TypeOK, BeforeSmall, [Next]_vars
  PROVE  BeforeSmall'
<1> SUFFICES ASSUME NEW k \in Node, NEW p \in posts'[k]
             PROVE  p.before <= Cardinality(Table(k, p.item)')
  BY DEF BeforeSmall
<1>1. /\ posts \in [Node -> SUBSET PostState]
      /\ Cardinality(Table(k, p.item)) \in Nat
      /\ Cardinality(Table(k, p.item)') \in Nat
      /\ Cardinality(Table(k, p.item)) <= Cardinality(Table(k, p.item)')
  BY TableGrows DEF TypeOK
<1>2. ASSUME NEW q \in posts[k], q.item = p.item, q.before = p.before
      PROVE  p.before <= Cardinality(Table(k, p.item)')
  <2>1. q.before \in Nat /\ q.before <= Cardinality(Table(k, q.item))
    BY <1>1 DEF PostState, BeforeSmall
  <2> QED BY <1>1, <1>2, <2>1
<1>3. CASE p \in posts[k]
  BY <1>2, <1>3
<1>4. ASSUME NEW n \in Node, Post(n), p \notin posts[k]
      PROVE  p.before <= Cardinality(Table(k, p.item)')
  <2>1. ASSUME NEW c, NEW i, PostBegin(n, c, i)
        PROVE  p.before <= Cardinality(Table(k, p.item)')
    <3> DEFINE size == Cardinality(Table(n, i))
    <3>1. posts' = [posts EXCEPT ![n] = @ \cup {[client |-> c, item |-> i, stored |-> FALSE,
                                                 before |-> size]}]
      BY <2>1 DEF PostBegin
    <3> HIDE DEF size
    <3>2. n = k /\ p.item = i /\ p.before = size
      BY <1>1, <1>4, <3>1
    <3> QED BY <1>1, <3>2 DEF size
  <2>2. ASSUME NEW q \in posts[n], PostStore(n, q)
        PROVE  p.before <= Cardinality(Table(k, p.item)')
    <3> DEFINE r == [q EXCEPT !.stored = TRUE]
    <3>1. posts' = [posts EXCEPT ![n] = (@ \ {q}) \cup {r}]
      BY <2>2 DEF PostStore
    <3>2. q \in PostState
      BY <1>1
    <3>3. r.item = q.item /\ r.before = q.before
      BY <3>2 DEF PostState
    <3> HIDE DEF r
    <3>4. n = k /\ p = r
      BY <1>1, <1>4, <3>1
    <3> QED BY <1>2, <3>3, <3>4
  <2>3. ASSUME NEW q \in posts[n], PostRefuse(n, q) \/ PostAnswer(n, q) PROVE FALSE
    BY <1>1, <1>4, <2>3 DEF PostRefuse, PostAnswer
  <2> QED BY <1>4, <2>1, <2>2, <2>3 DEF Post
<1>5. ASSUME NEW n \in Node, Restart(n), p \notin posts[k] PROVE FALSE
  BY <1>1, <1>5 DEF Restart
<1> QED BY StepKinds, <1>3, <1>4, <1>5

LEMMA AccountedStays ==
  ASSUME TypeOK, BeforeSmall, NothingGoesUntold, [Next]_vars,
         NEW k \in Node, NEW i \in held'[k]
  PROVE  Accounted(k, i)'
<1>1. /\ merges \in [Node -> SUBSET MergeState] /\ posts \in [Node -> SUBSET PostState]
      /\ told \in [Node -> SUBSET Item]
      /\ held \in [Node -> SUBSET (Verified \cap Valid)]
  BY DEF TypeOK
<1>2. i \in held[k] => Accounted(k, i)
  BY DEF NothingGoesUntold, Accounted
<1>3. ASSUME NEW p \in PostState, Created(k, p) PROVE Created(k, p)'
  BY <1>3, TableGrows DEF Created, PostState
\* An item that was accounted for, of which no witness is taken away, still is.
<1>4. ASSUME i \in held[k], told[k] \subseteq told'[k],
             \A g \in merges[k] : g.item = i /\ g.stored => g \in merges'[k] \/ i \in told'[k],
             \A p \in posts[k] : p.item = i /\ p.stored /\ Created(k, p) =>
                                   p \in posts'[k] \/ i \in told'[k]
      PROVE  Accounted(k, i)'
  BY <1>1, <1>2, <1>3, <1>4 DEF Accounted
<1>5. CASE UNCHANGED <<written, held, merges, posts, told>>
  BY <1>4, <1>5
<1>6. ASSUME NEW n \in Node, NEW s, NEW j, MergeOn(n, s, j) \/ MergeEnd(n, s, j),
             UNCHANGED posts
      PROVE  Accounted(k, i)'
  <2>1. CASE Admit(n, s, j)
    BY <1>1, <1>4, <1>6, <2>1 DEF Admit
  <2>2. CASE MergeStore(n, s, j)
    <3>1. /\ held' = [held EXCEPT ![n] = @ \cup {j}] /\ told' = told
          /\ merges' = [merges EXCEPT ![n] = (@ \ {InHand(s, j, FALSE)})
                                               \cup {InHand(s, j, TRUE)}]
      BY <2>2 DEF MergeStore
    <3>2. InHand(s, j, TRUE).item = j /\ InHand(s, j, TRUE).stored = TRUE
          /\ InHand(s, j, FALSE).stored = FALSE
      BY DEF InHand
    <3>3. CASE i \in held[k]
      BY <1>1, <1>4, <1>6, <3>1, <3>2, <3>3
    <3>4. CASE i \notin held[k]
      <4>1. n = k /\ i = j
        BY <1>1, <3>1, <3>4
      <4>2. InHand(s, j, TRUE) \in merges'[k]
        BY <1>1, <3>1, <4>1
      <4> QED BY <3>2, <4>1, <4>2 DEF Accounted
    <3> QED BY <3>3, <3>4
  <2>3. CASE Skip(n, s, j)
    BY <1>4, <1>6, <2>3 DEF Skip
  <2>4. CASE Refuse(n, s, j)
    BY <1>1, <1>4, <1>6, <2>4 DEF Refuse, InHand
  <2>5. CASE Report(n, s, j)
    BY <1>1, <1>4, <1>6, <2>5 DEF Report, InHand
  <2> QED BY <1>6, <2>1, <2>2, <2>3, <2>4, <2>5 DEF MergeOn, MergeEnd
<1>7. ASSUME NEW n \in Node, Post(n) PROVE Accounted(k, i)'
  <2>1. ASSUME NEW c, NEW j, PostBegin(n, c, j) PROVE Accounted(k, i)'
    BY <1>1, <1>4, <2>1 DEF PostBegin
  <2>2. ASSUME NEW q \in posts[n], PostStore(n, q) PROVE Accounted(k, i)'
    <3> DEFINE r == [q EXCEPT !.stored = TRUE]
    <3>1. /\ posts' = [posts EXCEPT ![n] = (@ \ {q}) \cup {r}]
          /\ held' = [held EXCEPT ![n] = @ \cup {q.item}]
          /\ merges' = merges /\ told' = told /\ ~q.stored
      BY <2>2 DEF PostStore
    <3>2. q \in PostState /\ q.item \in Item /\ q.before \in Nat
      BY <1>1 DEF PostState
    <3>3. r.item = q.item /\ r.before = q.before /\ r.stored = TRUE
      BY <3>2 DEF PostState
    <3> HIDE DEF r
    <3>4. CASE i \in held[k]
      BY <1>1, <1>4, <3>1, <3>4
    <3>5. CASE i \notin held[k]
      <4>1. n = k /\ i = q.item
        BY <1>1, <3>1, <3>5
      <4>2. /\ q.before <= Cardinality(Table(k, i))
            /\ Cardinality(Table(k, i)) \in Nat
        BY <4>1, TableGrows DEF BeforeSmall
      <4>3. Cardinality(Table(k, i)') = Cardinality(Table(k, i)) + 1
        BY <3>1, <3>2, <3>5, <4>1, StoringGrows
      <4>4. Created(k, r)'
        BY <3>2, <3>3, <4>1, <4>2, <4>3 DEF Created
      <4>5. r \in posts'[k]
        BY <1>1, <3>1, <4>1
      <4> QED BY <3>3, <4>1, <4>4, <4>5 DEF Accounted
    <3> QED BY <3>4, <3>5
  <2>3. ASSUME NEW q \in posts[n], PostRefuse(n, q) PROVE Accounted(k, i)'
    BY <1>1, <1>4, <2>3 DEF PostRefuse
  <2>4. ASSUME NEW q \in posts[n], PostAnswer(n, q) PROVE Accounted(k, i)'
    <3>1. /\ held' = held /\ merges' = merges
          /\ posts' = [posts EXCEPT ![n] = @ \ {q}]
          /\ told[k] \subseteq told'[k]
          /\ Created(n, q) => q.item \in told'[n]
      BY <1>1, <2>4 DEF PostAnswer
    <3> QED BY <1>1, <1>4, <3>1
  <2> QED BY <1>7, <2>1, <2>2, <2>3, <2>4 DEF Post
<1>8. ASSUME NEW n \in Node, Restart(n) PROVE Accounted(k, i)'
  <2>1. /\ held' = held
        /\ told' = [told EXCEPT ![n] = @ \cup held[n]]
        /\ merges' = [merges EXCEPT ![n] = {}] /\ posts' = [posts EXCEPT ![n] = {}]
    BY <1>8 DEF Restart
  <2> QED BY <1>1, <1>4, <2>1
<1> QED BY StepKinds, <1>5, <1>6, <1>7, <1>8 DEF Merging

\* No stored item is left untold, in whatever order the threads of a node check,
\* store and announce (NothingGoesUntold; verified_merge and the POST handlers).
THEOREM NothingIsLeftUntold == Spec => []NothingGoesUntold
<1>1. Init => BeforeSmall /\ NothingGoesUntold
  BY DEF Init, BeforeSmall, NothingGoesUntold
<1>2. TypeOK /\ BeforeSmall /\ NothingGoesUntold /\ [Next]_vars
        => BeforeSmall' /\ NothingGoesUntold'
  <2> SUFFICES ASSUME TypeOK, BeforeSmall, NothingGoesUntold, [Next]_vars
               PROVE  NothingGoesUntold'
    BY BeforeStaysSmall
  <2> QED BY AccountedStays DEF NothingGoesUntold, Accounted
<1> QED BY <1>1, <1>2, TypeCorrect, PTL DEF Spec

-----------------------------------------------------------------------------
(* The federation implements the grow-only replicas of Commons. *)

\* What is delivered to n from m is an item that m holds and shares.
LEMMA DeliveredIsShared ==
  ASSUME SharedInv, NEW n \in Node, NEW m \in Node, NEW i, Delivered(n, m, i)
  PROVE  i \in held[m] \cap Shares[m]
BY DEF SharedInv, SyncShared, InboxShared, Delivered, Index

LEMMA StepRefines ==
  ASSUME TypeOK, SharedInv, [Next]_vars
  PROVE  [GrowOnly!Next]_<<written, held>>
<1>1. ASSUME NEW n \in Node, NEW p \in posts[n], PostStore(n, p) PROVE GrowOnly!Next
  <2>1. p.item \in Item
    BY DEF TypeOK, PostState
  <2>2. GrowOnly!Write(n, p.item)
    BY <1>1 DEF PostStore, GrowOnly!Write
  <2> QED BY <2>1, <2>2 DEF GrowOnly!Next
<1>2. ASSUME NEW n \in Node, NEW m \in Node, NEW s \in Source, NEW i \in Item,
             Delivered(n, m, i), MergeStore(n, s, i), UNCHANGED written
      PROVE  GrowOnly!Next
  <2>1. GrowOnly!Copy(n, m, i)
    BY <1>2, DeliveredIsShared DEF MergeStore, GrowOnly!Copy
  <2> QED BY <2>1 DEF GrowOnly!Next
<1> QED BY <1>1, <1>2, HeldChange

\* Every behaviour of the protocol is one in which replicas only grow, by their
\* clients' writes and by copies of what another replica shares
\* (ImplementsCommons; "replicas merge by set union").
THEOREM FederationImplementsCommons == Spec => ImplementsCommons
<1>1. Init => GrowOnly!Init
  BY DEF Init, GrowOnly!Init
<1> QED
  BY <1>1, StepRefines, TypeCorrect, SharedInvariant, PTL
     DEF Spec, ImplementsCommons, GrowOnly!Spec

\* Token-tier items leave only the nodes that opted in (TokensStayHome).  It
\* follows from the refinement: a copy is of something its holder shares.
THEOREM TokenTierStaysHome == Spec => []TokensStayHome
<1>1. Init => TokensStayHome
  BY DEF Init, TokensStayHome
<1>2. TypeOK /\ SharedInv /\ TokensStayHome /\ [Next]_vars => TokensStayHome'
  <2> SUFFICES ASSUME TypeOK, SharedInv, TokensStayHome, [Next]_vars
               PROVE  TokensStayHome'
    OBVIOUS
  <2>1. CASE UNCHANGED <<written, held>>
    BY <2>1 DEF TokensStayHome
  <2>2. ASSUME NEW n \in Node, NEW i \in Item, GrowOnly!Write(n, i)
        PROVE  TokensStayHome'
    <3>1. /\ \A m \in Node : written[m] \subseteq written'[m]
          /\ \A m \in Node : held'[m] \subseteq held[m] \cup written'[m]
      BY <2>2 DEF GrowOnly!Write, TypeOK
    <3> QED BY <3>1, FederationAssumption DEF TokensStayHome
  <2>3. ASSUME NEW n \in Node, NEW m \in Node, NEW i \in Item, GrowOnly!Copy(n, m, i)
        PROVE  TokensStayHome'
    <3>1. i \in TokenTier => m \in OptIn /\ i \in held[m]
      BY <2>3 DEF GrowOnly!Copy, Shares
    <3>2. i \in TokenTier => \E w \in OptIn : i \in written[w]
      BY <3>1 DEF TokensStayHome
    <3>3. /\ \A k \in Node : held'[k] \subseteq held[k] \cup {i}
          /\ written' = written
      BY <2>3 DEF GrowOnly!Copy, TypeOK
    <3> QED BY <3>2, <3>3 DEF TokensStayHome
  <2> QED BY <2>1, <2>2, <2>3, StepRefines DEF GrowOnly!Next
<1> QED BY <1>1, <1>2, TypeCorrect, SharedInvariant, PTL DEF Spec

-----------------------------------------------------------------------------
(***************************************************************************)
(* A pass exchanges everything.  The invariant follows each item that either *)
(* side had when the pass began: what the node is to pull is held by now, or *)
(* wanted, or in the batch at hand; what the peer is to get is held there by *)
(* now, or still to be pushed, or in the request that is under way.          *)
(*                                                                           *)
(* It needs receivers that take what senders hold.  A retraction by an heir  *)
(* is refused until the successions have arrived, and one by a stranger for  *)
(* ever, so the theorem is about universes in which who retracts a record is *)
(* who made it.                                                              *)
(***************************************************************************)
SourcesRetract ==
  \A r \in Retraction : Body[r].retracts \in Record =>
    /\ Body[r].retracts \notin Succession
    /\ Body[r].source = Body[Body[r].retracts].source

UnderWay(k) == IF sync[k].pc = "wait" THEN inbox[sync[k].to][k]["sync"] ELSE {}

PassOK(k) ==
  sync[k].pc \in {"exchange", "wait"} =>
    /\ sync[k].want \subseteq held[sync[k].to] \cap Shares[sync[k].to]
    /\ sync[k].remote \cap Covers[k] \subseteq
         held[k] \cup sync[k].want \cup sync[k].batch \cup Altered
    /\ sync[k].local \subseteq held[sync[k].to] \cup sync[k].push \cup UnderWay(k) \cup Altered

PassInv == \A k \in Node : PassOK(k)

\* A key is of its own lineage.
LEMMA OwnLineage ==
  ASSUME NEW F, NEW B, NEW k \in Key
  PROVE  k \in LineageVia(F, B, k)
BY DEF LineageVia, Ancestors, Descendants

LEMMA HeldIsAccepted ==
  ASSUME SourcesRetract, NEW n \in Node, NEW i \in Verified \cap Valid
  PROVE  Accepts(n, i)
<1> DEFINE S == held[n] \cap Succession
<1>1. ASSUME i \in Retraction PROVE RetractionSourceOk(held[n], S, S, i)
  <2>1. Body[i].source \in Key
    BY <1>1, BodyAssumption DEF Retraction, ContentBody, AssertionBody, EnrichmentBody,
                                RetractionBody, SuccessionBody
  <2>2. Body[i].source \in LineageVia(S, S, Body[i].source)
    BY <2>1, OwnLineage
  <2>3. TargetHeld(held[n], i) => /\ Body[i].retracts \notin Succession
                                  /\ Body[i].source = Body[Body[i].retracts].source
    BY <1>1 DEF SourcesRetract, TargetHeld
  <2> QED BY <2>2, <2>3 DEF RetractionSourceOk
<1> QED BY <1>1 DEF Accepts

\* What a node holds any other node has stored when it is through with the merge.
LEMMA DeliveredIsStored ==
  ASSUME TypeOK, SharedInv, SourcesRetract,
         NEW n \in Node, NEW m \in Node, NEW s, NEW i, Delivered(n, m, i), MergeEnd(n, s, i)
  PROVE  i \in held'[n]
<1>1. i \in Verified \cap Valid
  BY DeliveredIsShared DEF TypeOK
<1>2. Accepts(n, i)
  BY <1>1, HeldIsAccepted
<1>3. CASE Skip(n, s, i)
  BY <1>3 DEF Skip
<1>4. CASE Report(n, s, i)
  BY <1>4 DEF Report, InHand, SharedInv, StoredHeld
<1> QED BY <1>2, <1>3, <1>4 DEF MergeEnd, Refuse

\* A pass is untouched by a step of others that takes nothing from its request but
\* what the peer then holds or what was altered.
LEMMA PassKept ==
  ASSUME TypeOK, [Next]_vars, NEW k \in Node, PassOK(k), sync'[k] = sync[k],
         sync[k].pc = "wait" =>
           inbox[sync[k].to][k]["sync"] \subseteq
             inbox'[sync[k].to][k]["sync"] \cup held'[sync[k].to] \cup Altered
  PROVE  PassOK(k)'
<1>1. sync[k].to \in Node
  BY Fields
<1>2. held[k] \subseteq held'[k] /\ held[sync[k].to] \subseteq held'[sync[k].to]
  BY <1>1, HeldGrows
<1>3. UnderWay(k) \subseteq UnderWay(k)' \cup held'[sync[k].to] \cup Altered
  BY DEF UnderWay
<1> QED BY <1>2, <1>3 DEF PassOK

\* A pass that has no exchange under way promises nothing yet.
LEMMA PassNotBegun ==
  ASSUME NEW k \in Node, sync'[k].pc \notin {"exchange", "wait"}
  PROVE  PassOK(k)'
BY DEF PassOK

LEMMA PassStep ==
  ASSUME TypeOK, SharedInv, SourcesRetract, [Next]_vars, NEW k \in Node, PassOK(k), SyncStep(k)
  PROVE  PassOK(k)'
<1>1. /\ sync[k] \in SyncState /\ sync \in [Node -> SyncState]
      /\ sync[k].to \in Node /\ sync'[k].to \in Node
  BY Fields, TypeInvariant DEF TypeOK, SyncState
<1>2. /\ held[k] \subseteq held'[k]
      /\ \A p \in Node : held[p] \subseteq held'[p]
  BY HeldGrows
<1>3. ASSUME NEW p, sync[k].pc = "idle", sync' = [sync EXCEPT ![k].todo = p]
      PROVE  PassOK(k)'
  <2>1. sync'[k].pc = "idle"
    BY <1>1, <1>3 DEF SyncState
  <2> QED BY <2>1, PassNotBegun
<1>4. CASE SyncStart(k)
  <2>1. sync[k] = SyncIdle(k) /\ sync' = [sync EXCEPT ![k].todo = peers[k]]
    BY <1>4 DEF SyncStart
  <2>2. sync[k].pc = "idle"
    BY <2>1 DEF SyncIdle
  <2>3. sync'[k].pc = "idle"
    BY <1>1, <2>1, <2>2 DEF SyncState
  <2> QED BY <2>3, PassNotBegun
<1>5. CASE SyncIds(k)
  <2> DEFINE remote == Index(sync[k].to)
             want == (remote \ sync[k].local) \cap Covers[k]
             push == sync[k].local \ remote
  <2>1. /\ sync' = [sync EXCEPT ![k].pc = "exchange", ![k].remote = remote,
                                ![k].want = want, ![k].push = push]
        /\ held' = held
    BY <1>5 DEF SyncIds
  <2>2. /\ want \subseteq held[sync[k].to] \cap Shares[sync[k].to]
        /\ remote \cap Covers[k] \subseteq held[k] \cup want
        /\ sync[k].local \subseteq held[sync[k].to] \cup push
    BY DEF SharedInv, SyncShared, Index
  <2> HIDE DEF remote, want, push
  <2>3. /\ sync'[k].remote = remote /\ sync'[k].want = want /\ sync'[k].push = push
        /\ sync'[k].local = sync[k].local /\ sync'[k].to = sync[k].to
    BY <1>1, <2>1 DEF SyncState
  <2> QED BY <2>1, <2>2, <2>3 DEF PassOK
<1>6. CASE SyncFetch(k)
  <2> DEFINE S == Index(sync[k].to)
  <2>1. PICK C \in SUBSET sync[k].want :
          sync' = [sync EXCEPT ![k].want = @ \ C, ![k].batch = C \cap S]
    BY <1>6 DEF SyncFetch
  <2>2. /\ held' = held /\ inbox' = inbox
        /\ sync[k].pc = "exchange" /\ sync[k].batch = {}
    BY <1>6 DEF SyncFetch
  <2>3. sync[k].want \subseteq S
    BY <2>2 DEF PassOK, Index
  <2> HIDE DEF S
  <2>4. /\ sync'[k].remote = sync[k].remote /\ sync'[k].local = sync[k].local
        /\ sync'[k].push = sync[k].push /\ sync'[k].to = sync[k].to /\ sync'[k].pc = "exchange"
        /\ sync'[k].want = sync[k].want \ C /\ sync'[k].batch = C \cap S
    BY <1>1, <2>1, <2>2 DEF SyncState
  <2>5. C \subseteq sync'[k].batch
    BY <2>3, <2>4
  <2>6. UnderWay(k) = {} /\ UnderWay(k)' = {}
    BY <2>2, <2>4 DEF UnderWay
  <2> QED BY <2>2, <2>4, <2>5, <2>6 DEF PassOK
<1>7. CASE SyncMerge(k)
  <2> DEFINE src == <<sync[k].to, "fetch">>
  <2>1. PICK i \in sync[k].batch :
          \/ UNCHANGED sync
          \/ MergeEnd(k, src, i) /\ sync' = [sync EXCEPT ![k].batch = @ \ {i}]
    BY <1>7 DEF SyncMerge
  <2>2. inbox' = inbox /\ sync[k].pc = "exchange"
    BY <1>7 DEF SyncMerge
  <2>3. CASE UNCHANGED sync
    BY <2>2, <2>3, PassKept
  <2>4. CASE MergeEnd(k, src, i) /\ sync' = [sync EXCEPT ![k].batch = @ \ {i}]
    <3>1. i \in held'[k]
      <4>1. Delivered(k, sync[k].to, i)
        BY <2>1 DEF Delivered
      <4> QED BY <1>1, <2>4, <4>1, DeliveredIsStored
    <3>2. /\ sync'[k].remote = sync[k].remote /\ sync'[k].local = sync[k].local
          /\ sync'[k].push = sync[k].push /\ sync'[k].to = sync[k].to
          /\ sync'[k].pc = "exchange" /\ sync'[k].want = sync[k].want
          /\ sync'[k].batch = sync[k].batch \ {i}
      BY <1>1, <2>2, <2>4 DEF SyncState
    <3>3. UnderWay(k) = {} /\ UnderWay(k)' = {}
      BY <2>2, <3>2 DEF UnderWay
    <3> QED BY <1>1, <1>2, <2>2, <3>1, <3>2, <3>3 DEF PassOK
  <2> QED BY <2>1, <2>3, <2>4
<1>8. CASE SyncPush(k)
  <2>1. PICK C \in SUBSET sync[k].push :
          /\ inbox' = [inbox EXCEPT ![sync[k].to][k]["sync"] = C]
          /\ sync' = [sync EXCEPT ![k].pc = "wait", ![k].push = @ \ C]
    BY <1>8 DEF SyncPush
  <2>2. held' = held /\ sync[k].pc = "exchange"
    BY <1>8 DEF SyncPush
  <2>3. /\ sync'[k].remote = sync[k].remote /\ sync'[k].local = sync[k].local
        /\ sync'[k].push = sync[k].push \ C /\ sync'[k].to = sync[k].to /\ sync'[k].pc = "wait"
        /\ sync'[k].want = sync[k].want /\ sync'[k].batch = sync[k].batch
    BY <1>1, <2>1 DEF SyncState
  <2>4. inbox'[sync[k].to][k]["sync"] = C
    BY <1>1, <2>1 DEF TypeOK, Thread
  <2>5. UnderWay(k) = {} /\ UnderWay(k)' = C
    BY <2>2, <2>3, <2>4 DEF UnderWay
  <2> QED BY <2>2, <2>3, <2>5 DEF PassOK
<1>9. CASE SyncAnswer(k)
  <2>1. /\ held' = held /\ sync[k].pc = "wait" /\ inbox[sync[k].to][k]["sync"] = {}
        /\ sync' = [sync EXCEPT ![k].pc = "exchange"]
    BY <1>9 DEF SyncAnswer
  <2>2. /\ sync'[k].remote = sync[k].remote /\ sync'[k].local = sync[k].local
        /\ sync'[k].push = sync[k].push /\ sync'[k].to = sync[k].to /\ sync'[k].pc = "exchange"
        /\ sync'[k].want = sync[k].want /\ sync'[k].batch = sync[k].batch
    BY <1>1, <2>1 DEF SyncState
  <2>3. UnderWay(k) = {} /\ UnderWay(k)' = {}
    BY <2>1, <2>2 DEF UnderWay
  <2> QED BY <2>1, <2>2, <2>3 DEF PassOK
<1>10. CASE SyncPeerDone(k)
  <2>1. sync'[k].pc = "idle"
    BY <1>1, <1>10 DEF SyncPeerDone, SyncNext, SyncIdle
  <2> QED BY <2>1, PassNotBegun
<1>11. ASSUME NEW p \in Node, SyncSkip(k, p) PROVE PassOK(k)'
  BY <1>3, <1>11 DEF SyncSkip
<1>12. ASSUME NEW p \in Node, SyncProbe(k, p) PROVE PassOK(k)'
  <2>1. CASE Index(k) = Index(p)
    BY <1>3, <1>12, <2>1 DEF SyncProbe
  <2>2. CASE Index(k) # Index(p)
    <3> DEFINE S == Index(k)
    <3>1. sync' = [sync EXCEPT ![k].pc = "ids", ![k].to = p, ![k].todo = @ \ {p}, ![k].local = S]
      BY <1>12, <2>2 DEF SyncProbe
    <3> HIDE DEF S
    <3>2. sync'[k].pc = "ids"
      BY <1>1, <3>1 DEF SyncState
    <3> QED BY <3>2, PassNotBegun
  <2> QED BY <2>1, <2>2
<1> QED BY <1>4, <1>5, <1>6, <1>7, <1>8, <1>9, <1>10, <1>11, <1>12 DEF SyncStep

LEMMA PassInvariant ==
  ASSUME TypeOK, SharedInv, SourcesRetract, PassInv, [Next]_vars
  PROVE  PassInv'
<1> SUFFICES ASSUME NEW k \in Node PROVE PassOK(k)'
  BY DEF PassInv
<1>1. /\ PassOK(k) /\ sync[k] \in SyncState /\ sync[k].to \in Node
      /\ sync \in [Node -> SyncState]
      /\ inbox \in [Node -> [Node -> [Thread -> SUBSET Item]]]
  BY Fields DEF PassInv, TypeOK
<1>2. ASSUME sync' = sync, inbox' = inbox PROVE PassOK(k)'
  BY <1>1, <1>2, PassKept
<1>3. ASSUME NEW n \in Node, SyncStep(n), n # k PROVE PassOK(k)'
  <2>1. sync'[k] = sync[k]
    BY <1>1, <1>3 DEF SyncStep, SyncStart, SyncIds, SyncFetch, SyncMerge, SyncPush, SyncAnswer,
                      SyncPeerDone, SyncSkip, SyncProbe
  <2>2. inbox'[sync[k].to][k]["sync"] = inbox[sync[k].to][k]["sync"]
    <3>1. CASE SyncPush(n)
      <4>1. PICK C \in SUBSET sync[n].push :
              inbox' = [inbox EXCEPT ![sync[n].to][n]["sync"] = C]
        BY <3>1 DEF SyncPush
      <4> QED BY <1>1, <1>3, <4>1
    <3>2. CASE ~SyncPush(n)
      BY <1>3, <3>2 DEF SyncStep, SyncStart, SyncIds, SyncFetch, SyncMerge, SyncAnswer,
                        SyncPeerDone, SyncSkip, SyncProbe
    <3> QED BY <3>1, <3>2
  <2> QED BY <1>1, <2>1, <2>2, PassKept
<1>4. ASSUME NEW n \in Node, GossipStep(n) PROVE PassOK(k)'
  <2>1. sync' = sync
    BY <1>4 DEF GossipStep, GossipDrain, GossipPost, GossipAnswer, GossipPeer
  <2>2. inbox'[sync[k].to][k]["sync"] = inbox[sync[k].to][k]["sync"]
    <3>1. CASE GossipPost(n)
      <4>1. PICK C \in SUBSET gossip[n].left :
              inbox' = [inbox EXCEPT ![gossip[n].to][n]["gossip"] = C]
        BY <3>1 DEF GossipPost
      <4> QED BY <1>1, <4>1 DEF Thread
    <3>2. CASE ~GossipPost(n)
      BY <1>4, <3>2 DEF GossipStep, GossipDrain, GossipAnswer, GossipPeer
    <3> QED BY <3>1, <3>2
  <2> QED BY <1>1, <2>1, <2>2, PassKept
<1>5. ASSUME NEW m \in Node, NEW n \in Node, NEW t \in Thread, NEW i \in inbox[m][n][t],
             sync' = sync, inbox' = [inbox EXCEPT ![m][n][t] = @ \ {i}],
             i \in held'[m] \cup Altered
      PROVE  PassOK(k)'
  <2>1. inbox[sync[k].to][k]["sync"] \subseteq
          inbox'[sync[k].to][k]["sync"] \cup held'[sync[k].to] \cup Altered
    <3>1. CASE m = sync[k].to
      BY <1>1, <1>5, <3>1 DEF Thread
    <3>2. CASE m # sync[k].to
      BY <1>1, <1>5, <3>2
    <3> QED BY <3>1, <3>2
  <2> QED BY <1>1, <1>5, <2>1, PassKept
<1>6. ASSUME NEW m \in Node, NEW n \in Node, NEW t \in Thread, HandleAnnounce(m, n, t)
      PROVE  PassOK(k)'
  <2>1. PICK i \in inbox[m][n][t] :
          \/ UNCHANGED inbox
          \/ MergeEnd(m, <<n, t>>, i) /\ inbox' = [inbox EXCEPT ![m][n][t] = @ \ {i}]
    BY <1>6 DEF HandleAnnounce
  <2>2. sync' = sync
    BY <1>6 DEF HandleAnnounce
  <2>3. CASE inbox' = inbox
    BY <1>2, <2>2, <2>3
  <2>4. CASE MergeEnd(m, <<n, t>>, i) /\ inbox' = [inbox EXCEPT ![m][n][t] = @ \ {i}]
    <3>1. Delivered(m, n, i)
      BY DEF Delivered
    <3>2. i \in held'[m]
      BY <2>4, <3>1, DeliveredIsStored
    <3> QED BY <1>5, <2>2, <2>4, <3>2
  <2> QED BY <2>1, <2>3, <2>4
<1>7. ASSUME NEW m \in Node, NEW n \in Node, NEW t \in Thread, RejectAltered(m, n, t)
      PROVE  PassOK(k)'
  <2>1. PICK i \in inbox[m][n][t] \cap Altered : inbox' = [inbox EXCEPT ![m][n][t] = @ \ {i}]
    BY <1>7 DEF RejectAltered
  <2> QED BY <1>5, <1>7, <2>1 DEF RejectAltered
<1>8. ASSUME NEW n \in Node, SyncFail(n) PROVE PassOK(k)'
  <2>1. inbox' = inbox
    BY <1>8 DEF SyncFail
  <2>2. CASE n # k
    <3>1. sync'[k] = sync[k]
      BY <1>1, <1>8, <2>2 DEF SyncFail
    <3> QED BY <1>1, <2>1, <3>1, PassKept
  <2>3. CASE n = k
    <3>1. CASE sync' = [sync EXCEPT ![n] = SyncNext(n)]
      <4>1. sync'[k].pc = "idle"
        BY <1>1, <2>3, <3>1 DEF SyncNext, SyncIdle
      <4> QED BY <4>1, PassNotBegun
    <3>2. ASSUME NEW p \in sync[n].todo, sync[n].pc = "idle",
                 sync' = [sync EXCEPT ![n].todo = @ \ {p}]
          PROVE  PassOK(k)'
      <4>1. sync'[k].pc = "idle"
        BY <1>1, <2>3, <3>2 DEF SyncState
      <4> QED BY <4>1, PassNotBegun
    <3> QED BY <1>8, <3>1, <3>2 DEF SyncFail
  <2> QED BY <2>2, <2>3
<1>9. ASSUME NEW n \in Node, RejectFetched(n) PROVE PassOK(k)'
  <2>1. PICK i \in sync[n].batch \cap Altered : sync' = [sync EXCEPT ![n].batch = @ \ {i}]
    BY <1>9 DEF RejectFetched
  <2>2. inbox' = inbox /\ held' = held
    BY <1>9 DEF RejectFetched
  <2>3. /\ sync'[k].remote = sync[k].remote /\ sync'[k].local = sync[k].local
        /\ sync'[k].push = sync[k].push /\ sync'[k].to = sync[k].to /\ sync'[k].pc = sync[k].pc
        /\ sync'[k].want = sync[k].want
        /\ sync[k].batch \subseteq sync'[k].batch \cup Altered
    BY <1>1, <2>1 DEF SyncState
  <2>4. UnderWay(k)' = UnderWay(k)
    BY <2>2, <2>3 DEF UnderWay
  <2> QED BY <1>1, <2>2, <2>3, <2>4 DEF PassOK
<1>10. ASSUME NEW n \in Node, Restart(n) PROVE PassOK(k)'
  <2>1. CASE sync'[k] \in {SyncIdle(k), SyncNext(k)}
    <3>1. sync'[k].pc = "idle"
      BY <2>1 DEF SyncNext, SyncIdle
    <3> QED BY <3>1, PassNotBegun
  <2>2. CASE sync'[k] \notin {SyncIdle(k), SyncNext(k)}
    <3>1. sync'[k] = sync[k] /\ (sync[k].pc = "wait" => sync[k].to # n)
      BY <1>10, <2>2 DEF Restart
    <3>2. inbox' = [inbox EXCEPT ![n] = EmptyInbox]
      BY <1>10 DEF Restart
    <3>3. sync[k].pc = "wait" => inbox'[sync[k].to] = inbox[sync[k].to]
      BY <1>1, <3>1, <3>2
    <3> QED BY <1>1, <3>1, <3>3, PassKept
  <2> QED BY <2>1, <2>2
<1>11. ASSUME NEW n \in Node, Environment(n) PROVE PassOK(k)'
  <2>1. ASSUME ~SyncFail(n), ~RejectFetched(n), ~Restart(n),
               ~\E m \in Node, t \in Thread : RejectAltered(n, m, t)
        PROVE  sync' = sync /\ inbox' = inbox
    BY <1>11, <2>1 DEF Environment, GossipFail, Post, PostBegin, PostStore, PostRefuse,
                       PostAnswer, AddPeer, RemovePeer, BackoffOver
  <2> QED BY <1>2, <1>7, <1>8, <1>9, <1>10, <2>1
<1>12. CASE UNCHANGED vars
  BY <1>2, <1>12 DEF vars
<1>13. ASSUME NEW n \in Node, SyncStep(n) PROVE PassOK(k)'
  BY <1>1, <1>3, <1>13, PassStep
<1> QED BY <1>4, <1>6, <1>11, <1>12, <1>13 DEF Next

\* A pass that ends has exchanged everything, over any number of requests, next to any
\* other passes, flushes, losses and restarts (PassExchangesAll; reconcile_with, "a
\* single pass converges both replicas"), where who retracts a record is who made it.
THEOREM PassesExchangeAll == ASSUME SourcesRetract PROVE Spec => PassExchangesAll
<1>1. Init => PassInv
  BY DEF Init, PassInv, PassOK, SyncIdle
<1>2. TypeOK /\ SharedInv /\ PassInv /\ [Next]_vars => PassInv'
  BY PassInvariant
<1>3. PassInv => \A n \in Node : SyncPeerDone(n) =>
                   /\ sync[n].remote \cap Covers[n] \subseteq held[n] \cup Altered
                   /\ sync[n].local \subseteq held[sync[n].to] \cup Altered
  BY DEF PassInv, PassOK, UnderWay, SyncPeerDone
<1> QED BY <1>1, <1>2, <1>3, TypeCorrect, SharedInvariant, PTL DEF Spec, PassExchangesAll
=============================================================================
