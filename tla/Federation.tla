------------------------------ MODULE Federation ------------------------------
(***************************************************************************)
(* Live federation between store nodes (FederationManager).  Every node runs *)
(* a gossip thread, which pushes newly stored items to its peers, and an     *)
(* anti-entropy thread, which compares sets with one peer after another,     *)
(* pulls what it lacks and pushes what the peer lacks.  Requests that a peer *)
(* pushes and requests of clients are served by handler threads next to the  *)
(* node's own threads.  Messages are lost, answers come too late, copies     *)
(* arrive altered, peers back off, and nodes crash and restart.              *)
(*                                                                           *)
(* No lock spans the merge of an item or a client's write: whether the item  *)
(* is held, the call of the store, and the announcement of what is new are   *)
(* three steps, and other threads of the node run in between.  The call of   *)
(* the store is one step here; the race between its gates and its insert is  *)
(* in Store.  A node's successions give each key one successor, so the       *)
(* lineage does not depend on the order in which they were stored.           *)
(*                                                                           *)
(* A "variant" of a definition is what a likely mistake would make of it; no *)
(* action uses one, and PROJECT.json says which property would notice.       *)
(***************************************************************************)
EXTENDS Provenance

CONSTANTS Node,
          OptIn,       \* nodes that federate the token tier
          Covers,      \* Covers[n]: the items in n's shard
          Configured,  \* Configured[n]: peers n is started with
          Joins,       \* <<n, p>>: peers that are added while n runs
          Leaves,      \* <<n, p>>: peers that are removed while n runs
          Writes,      \* Writes[n]: items that clients may POST to n
          Reposts,     \* those of them that clients POST again and again
          Client,      \* bound on the POSTs that a node serves at a time
          Rank,        \* the sort order of identifiers
          Altered,     \* items of which a copy may arrive that does not verify
          Batch,       \* items in one request
          MaxFaults    \* bound on lost requests, late answers, altered items, crashes

ASSUME FederationAssumption ==
  /\ OptIn \subseteq Node
  /\ Covers \in [Node -> SUBSET Item]
  /\ Configured \in [Node -> SUBSET Node]
  /\ Joins \subseteq Node \X Node
  /\ Leaves \subseteq Node \X Node
  /\ Writes \in [Node -> SUBSET Item]
  /\ Rank \in [Item -> Nat]
  /\ Altered \subseteq Item
  /\ Batch \in Nat \ {0}
  /\ MaxFaults \in Nat

\* Rule 11: one successor per key, and no key succeeds itself.
ASSUME SuccessionAssumption ==
  /\ \A s, t \in Succession : s # t => /\ Body[s].predecessor # Body[t].predecessor
                                       /\ Body[s].successor # Body[t].successor
  /\ \A s \in Succession : ~WalkDiverges(Succession, Succession, Body[s].predecessor)

VARIABLES written,  \* written[n]: items accepted from n's clients (history)
          held,     \* held[n]: identifiers in n's content and provenance tables
          peers,    \* peers[n]: current peer list
          started,  \* nodes whose background threads run
          queue,    \* queue[n]: identifiers pending gossip
          merges,   \* merges[n]: the items that n's threads have in hand
          posts,    \* posts[n]: the clients' POSTs that n is serving
          told,     \* told[n]: items that on_local_write was called with, and
                    \* those that were in the tables when n last started (history)
          gossip,   \* gossip[n]: the gossip thread
          sync,     \* sync[n]: the anti-entropy thread
          inbox,    \* inbox[m][n][t]: what m has still to merge of the request
                    \* that thread t of n posted
          backoff,  \* backoff[n]: peers that n leaves alone for a while
          faults    \* faults so far

handlers == <<merges, posts, told>>
vars == <<written, held, peers, started, queue, handlers, gossip, sync, inbox, backoff, faults>>

Thread == {"gossip", "sync"}

\* The batches a node merges: of a request that a thread of n posted, <<n, t>>, and
\* the one that its own anti-entropy thread fetched from n, <<n, "fetch">>.
Source == Node \X (Thread \cup {"fetch"})

\* Item i of batch s passed the test of what is held; it is stored by now or not.
InHand(s, i, stored) == [of |-> s, item |-> i, stored |-> stored]

\* A thread that is between peers has pc "idle", and todo holds the peers left.
GossipIdle(n) == [pc |-> "idle", to |-> n, todo |-> {}, payload |-> {}, left |-> {}]
SyncIdle(n)   == [pc |-> "idle", to |-> n, todo |-> {}, local |-> {}, remote |-> {},
                  want |-> {}, batch |-> {}, push |-> {}]
EmptyInbox    == [n \in Node |-> [t \in Thread |-> {}]]

\* The thread is through with its current peer; after the last one the payload of
\* a flush is gone.
GossipNext(n, todo) ==
  [pc |-> "idle", to |-> n, todo |-> todo,
   payload |-> IF todo = {} THEN {} ELSE gossip[n].payload, left |-> {}]

SyncNext(n) == [SyncIdle(n) EXCEPT !.todo = sync[n].todo]

-----------------------------------------------------------------------------
(* What a node shares. *)

\* Variant: one opted-in node opts in the whole federation.
SharesIfAnyOptsIn  == [n \in Node |-> (IF OptIn # {} THEN Item ELSE Item \ TokenTier) \cap Covers[n]]

\* The token boundary and the shard boundary of local_index().
Shares == [n \in Node |-> (IF n \in OptIn THEN Item ELSE Item \ TokenTier) \cap Covers[n]]

Index(n) == held[n] \cap Shares[n]

\* Variants: the signature is not checked; a retraction must follow its target.
AcceptsUnverified(n, i) ==
  /\ i \in Valid
  /\ i \in Retraction =>
       LET S == held[n] \cap Succession IN RetractionSourceOk(held[n], S, S, i)

AcceptsClosedWorld(n, i) ==
  /\ AcceptsUnverified(n, i)
  /\ i \in Verified
  /\ i \in Retraction => TargetHeld(held[n], i)

\* The gates of put and force_merge_record for an item that is not held.
Accepts(n, i) ==
  /\ i \in Verified
  /\ i \in Valid
  /\ i \in Retraction =>
       LET S == held[n] \cap Succession IN RetractionSourceOk(held[n], S, S, i)

\* put_record at a client's POST also has the taxonomy gate.
AcceptsPost(n, i) ==
  /\ Accepts(n, i)
  /\ i \in Enrichment /\ Body[i].field \in CheckedField => ~WouldCycle(held[n], i)

\* Variant: the shard is not looked at.
AnnounceOutsideShard(n, i) ==
  IF peers[n] # {} /\ (n \in OptIn \/ i \notin TokenId)
    THEN [queue EXCEPT ![n] = @ \cup {i}]
    ELSE queue

\* on_local_write: queue an identifier unless there is nobody to tell, it names
\* token-tier content, or it lies outside the shard.
Announce(n, i) ==
  IF peers[n] # {} /\ (n \in OptIn \/ i \notin TokenId) /\ i \in Covers[n]
    THEN [queue EXCEPT ![n] = @ \cup {i}]
    ELSE queue

\* Variant: everything queued is sent.
EntriesUnfiltered(n) == queue[n]

\* _entries_for: the items of a flush; token-tier records drop out here.
EntriesFor(n) == IF n \in OptIn THEN queue[n] ELSE queue[n] \ TokenTier

-----------------------------------------------------------------------------
(* verified_merge at node n: one item i of batch s.  Admit and MergeStore are *)
(* the steps on the way, after the others the thread is through with i.       *)

Between(n, s) == \A g \in merges[n] : g.of # s

\* n does not hold i, as far as this thread ever looks.
Admit(n, s, i) ==
  /\ Between(n, s)
  /\ i \notin held[n]
  /\ merges' = [merges EXCEPT ![n] = @ \cup {InHand(s, i, FALSE)}]
  /\ UNCHANGED <<held, queue, told>>

\* put, force_merge_record: stored, or held by now, which is no error.
MergeStore(n, s, i) ==
  /\ InHand(s, i, FALSE) \in merges[n]
  /\ i \in held[n] \/ Accepts(n, i)
  /\ held' = [held EXCEPT ![n] = @ \cup {i}]
  /\ merges' = [merges EXCEPT ![n] = (@ \ {InHand(s, i, FALSE)}) \cup {InHand(s, i, TRUE)}]
  /\ UNCHANGED <<queue, told>>

\* Variant: what is already held is announced as well.
SkipAnnounced(n, s, i) ==
  /\ Between(n, s)
  /\ i \in held[n]
  /\ queue' = Announce(n, i)
  /\ UNCHANGED <<held, merges, told>>

Skip(n, s, i) ==
  /\ Between(n, s)
  /\ i \in held[n]
  /\ UNCHANGED <<held, queue, merges, told>>

Refuse(n, s, i) ==
  /\ InHand(s, i, FALSE) \in merges[n]
  /\ i \notin held[n] /\ ~Accepts(n, i)
  /\ merges' = [merges EXCEPT ![n] = @ \ {InHand(s, i, FALSE)}]
  /\ UNCHANGED <<held, queue, told>>

\* on_new
Report(n, s, i) ==
  /\ InHand(s, i, TRUE) \in merges[n]
  /\ merges' = [merges EXCEPT ![n] = @ \ {InHand(s, i, TRUE)}]
  /\ queue' = Announce(n, i)
  /\ told' = [told EXCEPT ![n] = @ \cup {i}]
  /\ UNCHANGED held

MergeOn(n, s, i)  == Admit(n, s, i) \/ MergeStore(n, s, i)
MergeEnd(n, s, i) == Skip(n, s, i) \/ Refuse(n, s, i) \/ Report(n, s, i)

\* verified_merge takes content before records; a sorted batch keeps its order.
IsNext(B, i) ==
  /\ i \in B
  /\ i \in Content \/ B \cap Content = {}

IsNextById(B, i) ==
  /\ IsNext(B, i)
  /\ \A j \in B : IsNext(B, j) => Rank[i] <= Rank[j]

\* A batch out of S: Batch items, or all of S when it has fewer.  A gossip batch
\* takes content first; an anti-entropy batch is the first Batch identifiers.
IsChunk(C, S) ==
  /\ C \subseteq S
  /\ Cardinality(C) = IF Cardinality(S) < Batch THEN Cardinality(S) ELSE Batch

IsGossipChunk(C, S) == IsChunk(C, S) /\ \A i \in C, j \in S \ C : j \in Content => i \in Content
IsSyncChunk(C, S)   == IsChunk(C, S) /\ \A i \in C, j \in S \ C : Rank[i] <= Rank[j]

-----------------------------------------------------------------------------
Init ==
  /\ written = [n \in Node |-> {}]
  /\ held = [n \in Node |-> {}]
  /\ peers = Configured
  /\ started = {n \in Node : Configured[n] # {}}
  /\ queue = [n \in Node |-> {}]
  /\ merges = [n \in Node |-> {}]
  /\ posts = [n \in Node |-> {}]
  /\ told = [n \in Node |-> {}]
  /\ gossip = [n \in Node |-> GossipIdle(n)]
  /\ sync = [n \in Node |-> SyncIdle(n)]
  /\ inbox = [n \in Node |-> EmptyInbox]
  /\ backoff = [n \in Node |-> {}]
  /\ faults = 0

(* Requests from clients and operators. *)

\* POST /objects, POST /records: the size of the table an item goes to, the call
\* of the store, and the announcement if the table has grown since, by whomever.
Table(n, i) == held[n] \cap (IF i \in Content THEN Content ELSE Record)

PostBegin(n, c, i) ==
  /\ i \in Writes[n]
  /\ i \in written[n] => i \in Reposts
  /\ \A p \in posts[n] : p.client # c
  /\ posts' = [posts EXCEPT ![n] = @ \cup {[client |-> c, item |-> i, stored |-> FALSE,
                                             before |-> Cardinality(Table(n, i))]}]
  /\ UNCHANGED <<written, held, peers, started, queue, merges, told, gossip, sync, inbox,
                 backoff, faults>>

PostStore(n, p) ==
  /\ ~p.stored
  /\ p.item \in held[n] \/ AcceptsPost(n, p.item)
  /\ held' = [held EXCEPT ![n] = @ \cup {p.item}]
  /\ written' = [written EXCEPT ![n] = @ \cup {p.item}]
  /\ posts' = [posts EXCEPT ![n] = (@ \ {p}) \cup {[p EXCEPT !.stored = TRUE]}]
  /\ UNCHANGED <<peers, started, queue, merges, told, gossip, sync, inbox, backoff, faults>>

PostRefuse(n, p) ==
  /\ ~p.stored
  /\ p.item \notin held[n] /\ ~AcceptsPost(n, p.item)
  /\ posts' = [posts EXCEPT ![n] = @ \ {p}]
  /\ UNCHANGED <<written, held, peers, started, queue, merges, told, gossip, sync, inbox,
                 backoff, faults>>

\* Variant: the table must have grown by this item only.
CreatedAlone(n, p) == Cardinality(Table(n, p.item)) = p.before + 1

Created(n, p) == Cardinality(Table(n, p.item)) > p.before

PostAnswer(n, p) ==
  /\ p.stored
  /\ posts' = [posts EXCEPT ![n] = @ \ {p}]
  /\ IF Created(n, p)
       THEN /\ queue' = Announce(n, p.item)
            /\ told' = [told EXCEPT ![n] = @ \cup {p.item}]
       ELSE UNCHANGED <<queue, told>>
  /\ UNCHANGED <<written, held, peers, started, merges, gossip, sync, inbox, backoff, faults>>

Post(n) ==
  \/ \E c \in Client, i \in Item : PostBegin(n, c, i)
  \/ \E p \in posts[n] : PostStore(n, p) \/ PostRefuse(n, p) \/ PostAnswer(n, p)

\* POST /sync/peers.  It starts no threads: only main() does, for a node that
\* was configured with peers.
AddPeer(n, p) ==
  /\ <<n, p>> \in Joins
  /\ p \notin peers[n]
  /\ peers' = [peers EXCEPT ![n] = @ \cup {p}]
  /\ UNCHANGED <<written, held, started, queue, handlers, gossip, sync, inbox, backoff, faults>>

RemovePeer(n, p) ==
  /\ <<n, p>> \in Leaves
  /\ p \in peers[n]
  /\ peers' = [peers EXCEPT ![n] = @ \ {p}]
  /\ UNCHANGED <<written, held, started, queue, handlers, gossip, sync, inbox, backoff, faults>>

(* The gossip thread: flush_gossip. *)

\* Drain the queue and look the items up.
GossipDrain(n) ==
  /\ n \in started
  /\ gossip[n] = GossipIdle(n)
  /\ queue[n] # {}
  /\ queue' = [queue EXCEPT ![n] = {}]
  /\ gossip' = IF EntriesFor(n) = {} \/ peers[n] = {} THEN gossip
               ELSE [gossip EXCEPT ![n].todo = peers[n], ![n].payload = EntriesFor(n)]
  /\ UNCHANGED <<written, held, peers, started, handlers, sync, inbox, backoff, faults>>

\* The next peer: skipped while it is backed off.
GossipPeer(n, p) ==
  /\ gossip[n].pc = "idle"
  /\ p \in gossip[n].todo
  /\ gossip' = IF p \in backoff[n]
                 THEN [gossip EXCEPT ![n] = GossipNext(n, @.todo \ {p})]
                 ELSE [gossip EXCEPT ![n].pc = "post", ![n].to = p, ![n].todo = @ \ {p},
                                     ![n].left = gossip[n].payload]
  /\ UNCHANGED <<written, held, peers, started, queue, handlers, sync, inbox, backoff, faults>>

\* POST /sync/announce reaches the peer.  A thread whose earlier request timed
\* out waits for the peer's handler of that one to end.
GossipPost(n) ==
  LET p == gossip[n].to IN
  /\ gossip[n].pc = "post"
  /\ inbox[p][n]["gossip"] = {}
  /\ \E C \in SUBSET gossip[n].left :
       /\ IsGossipChunk(C, gossip[n].left)
       /\ inbox' = [inbox EXCEPT ![p][n]["gossip"] = C]
       /\ gossip' = [gossip EXCEPT ![n].pc = "wait", ![n].left = @ \ C]
  /\ UNCHANGED <<written, held, peers, started, queue, handlers, sync, backoff, faults>>

\* The answer: the next batch, or the peer is done and its backoff is cleared.
GossipAnswer(n) ==
  LET p == gossip[n].to IN
  /\ gossip[n].pc = "wait"
  /\ inbox[p][n]["gossip"] = {}
  /\ IF gossip[n].left # {}
       THEN /\ gossip' = [gossip EXCEPT ![n].pc = "post"]
            /\ UNCHANGED backoff
       ELSE /\ gossip' = [gossip EXCEPT ![n] = GossipNext(n, @.todo)]
            /\ backoff' = [backoff EXCEPT ![n] = @ \ {p}]
  /\ UNCHANGED <<written, held, peers, started, queue, handlers, sync, inbox, faults>>

\* No answer: the request was lost ("post"), or the answer is late or lost
\* ("wait") and the peer's handler goes on.  The rest of the payload is dropped.
GossipFail(n) ==
  /\ faults < MaxFaults
  /\ faults' = faults + 1
  /\ gossip[n].pc \in {"post", "wait"}
  /\ gossip' = [gossip EXCEPT ![n] = GossipNext(n, @.todo)]
  /\ backoff' = [backoff EXCEPT ![n] = @ \cup {gossip[n].to}]
  /\ UNCHANGED <<written, held, peers, started, queue, handlers, sync, inbox>>

(* The anti-entropy thread: reconcile_once over the peers, reconcile_with. *)

\* Variant: a pass over the peers the node was started with.
SyncStartConfigured(n) ==
  /\ n \in started
  /\ sync[n] = SyncIdle(n)
  /\ peers[n] # {}
  /\ sync' = [sync EXCEPT ![n].todo = Configured[n]]
  /\ UNCHANGED <<written, held, peers, started, queue, handlers, gossip, inbox, backoff, faults>>

\* The interval is over: a pass over the peers of now.
SyncStart(n) ==
  /\ n \in started
  /\ sync[n] = SyncIdle(n)
  /\ peers[n] # {}
  /\ sync' = [sync EXCEPT ![n].todo = peers[n]]
  /\ UNCHANGED <<written, held, peers, started, queue, handlers, gossip, inbox, backoff, faults>>

SyncSkip(n, p) ==
  /\ sync[n].pc = "idle"
  /\ p \in sync[n].todo \cap backoff[n]
  /\ sync' = [sync EXCEPT ![n].todo = @ \ {p}]
  /\ UNCHANGED <<written, held, peers, started, queue, handlers, gossip, inbox, backoff, faults>>

\* GET /sync/manifest.  The root stands for the set it is computed from; the
\* peer's is compared with the local index, which is kept for the pass.
SyncProbe(n, p) ==
  /\ sync[n].pc = "idle"
  /\ p \in sync[n].todo \ backoff[n]
  /\ backoff' = [backoff EXCEPT ![n] = @ \ {p}]
  /\ sync' = IF Index(n) = Index(p)
               THEN [sync EXCEPT ![n].todo = @ \ {p}]
               ELSE [sync EXCEPT ![n].pc = "ids", ![n].to = p, ![n].todo = @ \ {p},
                                 ![n].local = Index(n)]
  /\ UNCHANGED <<written, held, peers, started, queue, handlers, gossip, inbox, faults>>

\* GET /sync/ids: what to pull, within the own shard, and what to push.
SyncIds(n) ==
  LET remote == Index(sync[n].to) IN
  /\ sync[n].pc = "ids"
  /\ sync' = [sync EXCEPT ![n].pc = "exchange",
                          ![n].remote = remote,
                          ![n].want = (remote \ sync[n].local) \cap Covers[n],
                          ![n].push = sync[n].local \ remote]
  /\ UNCHANGED <<written, held, peers, started, queue, handlers, gossip, inbox, backoff, faults>>

\* POST /sync/fetch: handle_fetch serves what the peer's index has.
SyncFetch(n) ==
  /\ sync[n].pc = "exchange"
  /\ sync[n].want # {}
  /\ sync[n].batch = {}
  /\ \E C \in SUBSET sync[n].want :
       /\ IsSyncChunk(C, sync[n].want)
       /\ sync' = [sync EXCEPT ![n].want = @ \ C, ![n].batch = C \cap Index(sync[n].to)]
  /\ UNCHANGED <<written, held, peers, started, queue, handlers, gossip, inbox, backoff, faults>>

\* verified_merge of the fetched batch: a step with one item.
SyncMerge(n) ==
  LET s == <<sync[n].to, "fetch">> IN
  /\ sync[n].pc = "exchange"
  /\ \E i \in sync[n].batch :
       /\ IsNextById(sync[n].batch, i)
       /\ \/ MergeOn(n, s, i) /\ UNCHANGED sync
          \/ MergeEnd(n, s, i) /\ sync' = [sync EXCEPT ![n].batch = @ \ {i}]
  /\ UNCHANGED <<written, peers, started, posts, gossip, inbox, backoff, faults>>

\* A fetched copy that does not verify is rejected and the rest is merged.
RejectFetched(n) ==
  /\ faults < MaxFaults
  /\ faults' = faults + 1
  /\ sync[n].pc = "exchange"
  /\ Between(n, <<sync[n].to, "fetch">>)
  /\ \E i \in sync[n].batch \cap Altered : sync' = [sync EXCEPT ![n].batch = @ \ {i}]
  /\ UNCHANGED <<written, held, peers, started, queue, handlers, gossip, inbox, backoff>>

\* POST /sync/announce of what the peer lacked, once nothing is left to pull.
SyncPush(n) ==
  LET p == sync[n].to IN
  /\ sync[n].pc = "exchange"
  /\ sync[n].want \cup sync[n].batch = {}
  /\ sync[n].push # {}
  /\ inbox[p][n]["sync"] = {}
  /\ \E C \in SUBSET sync[n].push :
       /\ IsSyncChunk(C, sync[n].push)
       /\ inbox' = [inbox EXCEPT ![p][n]["sync"] = C]
       /\ sync' = [sync EXCEPT ![n].pc = "wait", ![n].push = @ \ C]
  /\ UNCHANGED <<written, held, peers, started, queue, handlers, gossip, backoff, faults>>

SyncAnswer(n) ==
  /\ sync[n].pc = "wait"
  /\ inbox[sync[n].to][n]["sync"] = {}
  /\ sync' = [sync EXCEPT ![n].pc = "exchange"]
  /\ UNCHANGED <<written, held, peers, started, queue, handlers, gossip, inbox, backoff, faults>>

\* The pass with this peer is complete.
SyncPeerDone(n) ==
  /\ sync[n].pc = "exchange"
  /\ sync[n].want \cup sync[n].batch \cup sync[n].push = {}
  /\ sync' = [sync EXCEPT ![n] = SyncNext(n)]
  /\ UNCHANGED <<written, held, peers, started, queue, handlers, gossip, inbox, backoff, faults>>

\* A request of the pass fails: the pass with this peer ends where it is.
SyncFail(n) ==
  /\ faults < MaxFaults
  /\ faults' = faults + 1
  /\ \/ /\ sync[n].pc \in {"ids", "exchange", "wait"}
        /\ sync[n].pc = "exchange" => /\ sync[n].batch = {}
                                      /\ sync[n].want \cup sync[n].push # {}
        /\ backoff' = [backoff EXCEPT ![n] = @ \cup {sync[n].to}]
        /\ sync' = [sync EXCEPT ![n] = SyncNext(n)]
     \/ /\ sync[n].pc = "idle"
        /\ \E p \in sync[n].todo \ backoff[n] :
             /\ backoff' = [backoff EXCEPT ![n] = @ \cup {p}]
             /\ sync' = [sync EXCEPT ![n].todo = @ \ {p}]
  /\ UNCHANGED <<written, held, peers, started, queue, handlers, gossip, inbox>>

(* The handlers of POST /sync/announce: handle_announce. *)

\* Handler at m of a request of n's thread t: a step with one item of the batch.
HandleAnnounce(m, n, t) ==
  /\ \E i \in inbox[m][n][t] :
       /\ IF t = "sync" THEN IsNextById(inbox[m][n][t], i) ELSE IsNext(inbox[m][n][t], i)
       /\ \/ MergeOn(m, <<n, t>>, i) /\ UNCHANGED inbox
          \/ MergeEnd(m, <<n, t>>, i) /\ inbox' = [inbox EXCEPT ![m][n][t] = @ \ {i}]
  /\ UNCHANGED <<written, peers, started, posts, gossip, sync, backoff, faults>>

\* A copy that does not verify is rejected and the rest of the request goes on.
RejectAltered(m, n, t) ==
  /\ faults < MaxFaults
  /\ faults' = faults + 1
  /\ Between(m, <<n, t>>)
  /\ \E i \in inbox[m][n][t] \cap Altered : inbox' = [inbox EXCEPT ![m][n][t] = @ \ {i}]
  /\ UNCHANGED <<written, held, peers, started, queue, handlers, gossip, sync, backoff>>

(* Time and crashes. *)

BackoffOver(n, p) ==
  /\ p \in backoff[n]
  /\ backoff' = [backoff EXCEPT ![n] = @ \ {p}]
  /\ UNCHANGED <<written, held, peers, started, queue, handlers, gossip, sync, inbox, faults>>

\* n stops and is started again: the tables are on disk, everything else starts
\* afresh.  A thread that waited for an answer of n sees the connection end.
Restart(n) ==
  LET cut(th) == {m \in Node : th[m].pc = "wait" /\ th[m].to = n} IN
  /\ faults < MaxFaults
  /\ faults' = faults + 1
  /\ peers' = [peers EXCEPT ![n] = Configured[n]]
  /\ started' = IF Configured[n] # {} THEN started \cup {n} ELSE started \ {n}
  /\ queue' = [queue EXCEPT ![n] = {}]
  /\ merges' = [merges EXCEPT ![n] = {}]
  /\ posts' = [posts EXCEPT ![n] = {}]
  /\ told' = [told EXCEPT ![n] = @ \cup held[n]]
  /\ inbox' = [inbox EXCEPT ![n] = EmptyInbox]
  /\ gossip' = [m \in Node |->
                  IF m = n THEN GossipIdle(n)
                  ELSE IF m \in cut(gossip)
                    THEN GossipNext(m, gossip[m].todo)
                    ELSE gossip[m]]
  /\ sync' = [m \in Node |->
                IF m = n THEN SyncIdle(n)
                ELSE IF m \in cut(sync)
                  THEN SyncNext(m)
                  ELSE sync[m]]
  /\ backoff' = [m \in Node |->
                   IF m = n THEN {}
                   ELSE IF m \in cut(gossip) \cup cut(sync) THEN backoff[m] \cup {n}
                   ELSE backoff[m]]
  /\ UNCHANGED <<written, held>>

-----------------------------------------------------------------------------
GossipStep(n) ==
  \/ GossipDrain(n) \/ GossipPost(n) \/ GossipAnswer(n)
  \/ \E p \in Node : GossipPeer(n, p)

SyncStep(n) ==
  \/ SyncStart(n) \/ SyncIds(n) \/ SyncFetch(n) \/ SyncMerge(n)
  \/ SyncPush(n) \/ SyncAnswer(n) \/ SyncPeerDone(n)
  \/ \E p \in Node : SyncSkip(n, p) \/ SyncProbe(n, p)

Environment(n) ==
  \/ GossipFail(n) \/ SyncFail(n) \/ RejectFetched(n) \/ Restart(n)
  \/ Post(n)
  \/ \E p \in Node : AddPeer(n, p) \/ RemovePeer(n, p) \/ BackoffOver(n, p)
  \/ \E m \in Node, t \in Thread : RejectAltered(n, m, t)

Next ==
  \E n \in Node : \/ GossipStep(n) \/ SyncStep(n) \/ Environment(n)
                  \/ \E m \in Node, t \in Thread : HandleAnnounce(n, m, t)

Spec == Init /\ [][Next]_vars

\* Background threads and handler threads are scheduled, and a backoff expires.
\* Writes, faults and changes of the peer list may happen or not.
Fairness ==
  \A n \in Node :
    /\ WF_vars(GossipStep(n))
    /\ WF_vars(SyncStep(n))
    /\ \A m \in Node : /\ WF_vars(BackoffOver(n, m))
                       /\ \A t \in Thread : WF_vars(HandleAnnounce(n, m, t))

FairSpec == Spec /\ Fairness

-----------------------------------------------------------------------------
(* Properties. *)

GossipState == [pc : {"idle", "post", "wait"}, to : Node, todo : SUBSET Node,
                payload : SUBSET Item, left : SUBSET Item]
SyncState   == [pc : {"idle", "ids", "exchange", "wait"}, to : Node,
                todo : SUBSET Node, local : SUBSET Item, remote : SUBSET Item,
                want : SUBSET Item, batch : SUBSET Item, push : SUBSET Item]

MergeState  == [of : Source, item : Item, stored : BOOLEAN]
PostState   == [client : Client, item : Item, stored : BOOLEAN, before : Nat]

\* Every variable has its type; a node holds nothing that its gates refuse to
\* verify, and everything its own clients wrote.
TypeOK ==
  /\ written \in [Node -> SUBSET Item]
  /\ held \in [Node -> SUBSET (Verified \cap Valid)]
  /\ \A n \in Node : IsFiniteSet(held[n])
  /\ peers \in [Node -> SUBSET Node]
  /\ started \subseteq Node
  /\ queue \in [Node -> SUBSET Item]
  /\ merges \in [Node -> SUBSET MergeState]
  /\ posts \in [Node -> SUBSET PostState]
  /\ told \in [Node -> SUBSET Item]
  /\ gossip \in [Node -> GossipState]
  /\ sync \in [Node -> SyncState]
  /\ inbox \in [Node -> [Node -> [Thread -> SUBSET Item]]]
  /\ backoff \in [Node -> SUBSET Node]
  /\ faults \in 0 .. MaxFaults

\* The token tier stays home: a token-tier item that is at a node whose clients
\* did not write it was written at a node that opted in to federating tokens.
\* (on_local_write, _entries_for, local_index.)
TokensStayHome ==
  \A n \in Node : \A i \in held[n] \cap TokenTier :
    i \in written[n] \/ \E w \in OptIn : i \in written[w]

\* Whatever is on its way to be merged is held, and shared, by the node that
\* sent it: nothing travels that its sender could not show, even when the sender
\* has restarted since.
InFlightIsShared ==
  \A n \in Node :
    /\ gossip[n].left \subseteq Index(n)
    /\ sync[n].push \subseteq Index(n)
    /\ sync[n].batch \subseteq Index(sync[n].to)
    /\ \A m \in Node, t \in Thread : inbox[m][n][t] \subseteq Index(n)

\* What a node stores is announced: whichever thread stored it, and whatever the
\* others stored meanwhile, an item in the tables has been handed to on_local_write
\* or some thread is still to hand it over, as a merge that stored it or as a POST
\* that will find its table grown.  Only a crash in between leaves one untold.
NothingGoesUntold ==
  \A n \in Node : \A i \in held[n] \ told[n] :
    \/ \E g \in merges[n] : g.item = i /\ g.stored
    \/ \E p \in posts[n] : p.item = i /\ p.stored /\ Created(n, p)

\* A reconciliation pass that runs to its end, over however many requests, leaves
\* both sides with everything that either had when it began: within n's shard for
\* what n pulls, and but for copies altered on the way.  It is about universes in
\* which a node takes whatever another one holds, in any order: no retraction but
\* by the source of its target.
PassExchangesAll ==
  [][\A n \in Node : SyncPeerDone(n) =>
       /\ sync[n].remote \cap Covers[n] \subseteq held[n] \cup Altered
       /\ sync[n].local \subseteq held[sync[n].to] \cup Altered]_vars

\* Two nodes agree on what both of them share.
Agree(n, p) == Index(n) \cap Shares[p] = Index(p) \cap Shares[n]

\* Every node ends up agreeing with its peers, after losses, late answers,
\* altered copies and crashes have stopped.
PeersConverge == <>[](\A n \in Node : \A p \in peers[n] : Agree(n, p))

\* Gossip dies down: the queues end up empty and stay so.
GossipQuiesces == <>[](\A n \in Node : queue[n] = {})

\* The federation implements the grow-only set of replicas.
GrowOnly == INSTANCE Commons
ImplementsCommons == GrowOnly!Spec
=============================================================================
