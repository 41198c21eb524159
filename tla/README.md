# A verification project for Causalontology

Causalontology is a content-addressed commons of causal knowledge. Two of its
programs are modelled here. One is the store node (`store/server`,
`store/client`) on the reference SDK in Python (`bindings/python/causalontology`):
nodes keep immutable content objects and signed, add-only provenance records,
apply the write rules of an enforcing tier, and federate with one another without
a coordinator. The other is the Go SDK 4.0.0 (`bindings/go/v4`): identity,
schemas, the semantic rules of causal claims, the in-memory store with all its
views, and the conformance runner that tests them. This directory holds
TLA+ models of that program, the TLC configurations that check them on small
instances, and theorems about them that the TLA+ proof system checks for every
value of the constants.

All source paths below are relative to the repository.

## 1. The system

### Components

| component | state | operations | made hard by |
|---|---|---|---|
| **Store rules** `bindings/python/.../store.py` | `objects`, `records` (insertion order), `quarantine` | `put`, `put_record`, `force_merge_record`; views `get`, `assertions_about`, `enrichments_about`, `resolve`, `gaps`; `lineage` | gates read the tables, the insert comes later, no lock; verdicts depend on the order of arrival |
| **HTTP server** `store/server/server.py` | `demand`, `store`, `federation`, `shard_map` | GET/POST endpoints, pagination, demand gaps, reputation, `merge_bundle`, legacy `persist`/`restore`, `main` | one thread per request; `created` from two table sizes; offsets as cursors |
| **Persistent storage** `store/server/storage.py` | SQLite tables `content`, `provenance`, `quarantine`, four derived tables, `derived_dirty` | `put_content`, `put_record`, `put_quarantine`, `write_derived`, `drop_derived`, `rebuild_views`, start-up | crashes between statements; derived data going stale |
| **Federation** `store/server/federation.py` | `_peers`, `_gossip_queue`, `_backoff`, the two background threads | `on_local_write`, `flush_gossip`, `reconcile_once`, `reconcile_with`, `handle_announce`, `handle_fetch`, `verified_merge`, `add_peer`, `remove_peer` | lost and late messages, backoff, restarts, a local index kept over many requests |
| **Sharding** `store/server/sharding.py` | `ShardConfig.nibbles`, `ShardMap` | `parse`, `to_spec`, `covers`, `coverage_report`, `nodes_for` | boundary cases of ranges |
| **Snapshots** `store/server/snapshot*.py` | none (files) | `export_snapshot`, `verify_snapshot`, `import_snapshot`, token classification | an import that stops half way |
| **Light client** `store/client/light_client.py` | cache, trust policy, known nodes | `get_object`, `get_record`, `believe_about`, `resolve`, `discover_shards` | nodes that answer wrongly or not at all |
| **Replication tool** `store/server/replicate.py` | none (files) | `merge`, `verify`, `as_store` | |
| **Python SDK, pure part** `canonical.py`, `signing.py`, `ed25519.py`, `schema.py`, `semantics.py` | none | identifiers, signatures, validation | |
| **Go identity** `bindings/go/v4/.../canonical.go`, `jcs.go`, `json.go`, `signing.go` | none | `InferKind`, `IdentityBearing`, `Identify`, `SignRecord`, `VerifyRecord`, number literals | numbers that are equal and written differently |
| **Go schemas** `schema.go`, `embed.go`, `spec_schema` | the directory pinned, the parsed schemas | `ValidateSchema`, `ConditionalRequired`, `loadSchemaFile`, `SetSchemaDir`, `CheckEmbeddedSchemaDrift` | three places that schemas may come from; a cache |
| **Go semantic rules** `semantics.go` | none | local rules, windows and ticks, conflict, refinement, bridges, hierarchies, strata, seams, conduits, covering laws, predictions, cycles | two dimensions of time; documents that contradict each other; verdicts on what is held so far |
| **Go in-memory store** `store.go` | `objects`, `records` and their order, `quarantine` | `Put`, `PutRecord`, `ForceMergeRecord`; `Lineage`, `Get`, `AssertionsAbout`, `EnrichmentsAbout`, `Resolve`, `Gaps` | every view is computed anew from records in any order, merged ones included |
| **Go conformance runner** `conformance/main.go` | the environment, failures | root search, guard of installed mode, drift check, internal checks, 137 vectors, exit code | a run must test the module it is about |
| **Go SDK 2.0.0** `bindings/go/causalontology` | as above | the superseded edition | |
| **Bindings in the other languages** `bindings/*` | ports of the same rules | | |

### How they interact

A request handler of the server calls the store, and after a successful write the
federation manager's `on_local_write`, which queues the identifier. The gossip
thread drains the queue and posts the items to every peer; the peer's handler
calls `verified_merge`, which calls the store's `put` and `force_merge_record` and
announces what was new in turn. The anti-entropy thread reads a peer's manifest
and identifiers over HTTP, fetches what it lacks and merges it, then posts what
the peer lacks. The store's tables are SQLite tables under one lock per statement;
nothing locks a store operation as a whole, or joins the question whether an item
is held, the call of the store and the announcement. The snapshot module supplies the
classification that keeps the token tier local, and the sharding module the
predicate that bounds what a partial node advertises and pulls.

In the Go SDK a caller completes a document (type, identifier), and the store's
`Put` asks the schema interpreter and then the local semantic rules; `PutRecord`
asks the signature, the retraction gate (which walks lineages) and the cycle gate
(which searches the taxonomy graph). `Gaps` reads both tables and asks the
semantic rules about pairs of what is held. The conformance runner decides which
schemas the interpreter reads, then calls everything.

### What makes each component correct

* *Store rules*: on an enforcing tier the `subsumes` and `part_of` graphs stay
  acyclic; a retraction comes from the source or its lineage; what is withdrawn
  stays withdrawn; one row per identifier; every request is answered.
* *Federation*: replicas only grow, by their clients and by copies of what another
  replica shares; the token tier stays home; nothing travels that its sender does
  not hold; a pass that ends has exchanged everything; what is stored is announced,
  whichever threads race, and announcements die down;
  peers agree in the end in spite of losses, late answers and crashes.
* *Storage*: the source tables are add-only; derived tables that are marked clean
  are what the source tables give.
* *Server*: `created` is true for exactly one writer; a reader that follows
  cursors sees every item that was there when it started; a persisted state file
  is never older than what an answered write left.
* *Sharding*: `parse` and `to_spec` are inverse; the report names the uncovered
  prefixes.
* *Snapshots*: what verifies is what was exported; an import is the union of
  store and snapshot.
* *Light client*: what it returns verified, whatever the nodes answer; it misses
  nothing that answering nodes held, and only a source's lineage takes an
  assertion from it.
* *Taxonomy view*: no cycle is left, only records that lead into one are lost, and
  the loop ends.
* *Go semantic rules*: windows overlap when a delay fits both; conflict is mutual;
  a valid refinement is no rival; bridges lead downwards; a verdict that had all
  its facts is not revised by later writes.
* *Go in-memory store*: it holds what its gates let through, under identifiers
  that are never given a second meaning; an invitation to supply something stands
  until it is supplied; a lineage is what the successions connect; the search
  finds a cycle whenever there is one; `Get` and `Resolve` tell the same story, and
  the same one in whatever order the records came.
* *Go conformance runner*: exit code 0 means that this module, with the schemas it
  is shipped with, gave what every vector asks.

## 2. The modules

    Provenance      items, token tier, lineage, retraction, taxonomy graph
      |
      +-- Store ------------- StoreProofs
      |     +-- MCStore           (4 configurations)
      +-- CycleBreaking           abstract: what a cycle-broken view is
      +-- TaxonomyView ------ TaxonomyViewProofs
      |     +-- MCTaxonomyView    (2 configurations); implements CycleBreaking
      +-- Commons                 abstract: replicas as growing sets
      +-- Federation -------- FederationProofs
      |     +-- MCFederation      (3 configurations); implements Commons
      +-- LightClient ------- LightClientProofs
            +-- MCLightClient

    Identity        documents, identifiers, signatures, number literals   (Go SDK)
      |
      +-- Semantics --------- SemanticsProofs
      +-- Schema
            |
      MemoryStore ----------- MemoryStoreProofs
        |                     extends both: the store's operations as operators
        +-- OfferedStore ---- OfferedStoreProofs     (extends MemoryStoreProofs)
        |     +-- MCOfferedStore
        +-- Fixtures              builders and fixtures of the vectors
              +-- VectorsCore, VectorsStrata, VectorsToken
                    +-- Vectors           the suite, in the order of the run

    Conformance ------------- ConformanceProofs
      +-- MCConformance           runs the suite of Vectors

**Provenance** is data and pure rules. An *item* is an identifier: the hash of
the content, so an item never changes and only what a store holds does. `Body`
gives the few fields that the rules read. Two verdicts are constants: `Verified`
(the hash or the Ed25519 signature checks) and `Valid` (schema and local semantic
rules). `TokenTier` is `is_token_content` and `record_touches_token` of
`snapshot.py`. `LineageVia` is the closure that `lineage()` walks;
`WalkDiverges` says when its pointer walk has no end. `WouldCycle` is
`_would_cycle`, with the cycle test stated declaratively (a set of edges in which
every edge leads to another one of the set) and not as the depth-first search.

**Store** is one node under the server's handler threads. `records` is a sequence,
the rowid order, because `lineage()` lets the last of two rival successions win.
`put_record` is two steps, `Admit` (all gates) and `Insert` (the `INSERT OR
IGNORE`), as nothing locks the two together; `Put` is the whole of `put`, whose
check and insert commute with every other step. A handler that walks a cyclic
succession chain goes to `walking` and stays there. `Posted` are items that
clients post, `Merged` those that arrive through `force_merge_record`, and
`Altered` the records of which a copy that does not verify arrives (a signature is
not part of the identifier, so both copies have the same one). The model is of
the persistent store, whose `put_content` refuses an identifier that is not the
hash of its object.

**CycleBreaking** is what the cycle-broken view of a taxonomy field promises:
records leave the graph one at a time, only such from which one could walk for
ever, until there is no cycle.

**TaxonomyView** is `_active_taxonomy_edges` with `_find_cycle_records`. The
recursive search is a state machine: `color` is the dictionary `state`, `path` is
`path_records`, `tried` says which records of the concepts on the path have been
looked at. `Begin` and `Finish` are the loop over the concepts, `Follow` a
recursive call, `Leave` its return, `PassBy` and `Exclude` the two other cases of
the loop over a concept's records; `Exclude` goes on to the rest of the outer
loop. `rowid` is the insertion order that decides where the search goes.

**Commons** is what a federation promises with the protocol left out: each
replica is a set that grows by what its clients write (`Write`) and by copies of
what another one holds and shares (`Copy`).

**Federation** is `FederationManager` at every node. For each node: `held`,
`peers`, `queue` (the gossip queue), `gossip` and `sync` (program counters and
locals of the two background threads), `backoff`, and `inbox`, what the handlers
at a node have still to merge of the request that a given thread of a given node
posted. `merges` holds the items that a thread of the node is in the middle of
merging, `posts` the clients' POSTs that it is serving, each with the table size it
read first. `written` and `told` (what was handed to `on_local_write`) are history
variables, and `faults` counts lost requests, late answers, altered copies and
crashes. The call of the store is one step; its own race is in Store.

| action | code |
|---|---|
| `PostBegin`, `PostStore` or `PostRefuse`, `PostAnswer` | `do_POST` on `/objects`, `/records`: the table size; the call of the store; the size again and, if it has grown by whomever, the announcement |
| `AddPeer`, `RemovePeer` | `do_POST` on `/sync/peers` |
| `GossipDrain`, `GossipPeer`, `GossipPost`, `GossipAnswer`, `GossipFail` | `flush_gossip`: the drain and `_entries_for`; the loop over peers; a request; its answer; the `except` |
| `SyncStart`, `SyncSkip`, `SyncProbe`, `SyncIds`, `SyncFetch`, `SyncMerge`, `SyncPush`, `SyncAnswer`, `SyncPeerDone`, `SyncFail` | `reconcile_once` and `reconcile_with`, request by request, the merge step by step |
| `HandleAnnounce` | `handle_announce`, a step of `verified_merge` with one item |
| `Admit`, `MergeStore`, `Report`; `Skip`, `Refuse` (parts of `SyncMerge` and `HandleAnnounce`) | `verified_merge`: the item is not held, it is stored, it is reported to `on_new`; it is held, it is rejected |
| `RejectAltered`, `RejectFetched` | `verified_merge`, the branches that reject a copy |
| `BackoffOver`, `Restart` | the passage of time; a stop and `main()` again |

A late answer is a `GossipFail` or `SyncFail` while the peer's handler still has
items in `inbox`: it goes on merging. `Restart` keeps what is in SQLite tables and
loses everything else, and ends the connections of those who wait for the node.

**LightClient** is `believe_about` with the requests it makes, against nodes that
go on storing records. `listing[n][q]` is what node n lists for a query, in
insertion order; it is what the listing endpoints compute from the table when
they are asked, kept up to date by `Store`. `Open`, `Read` and `Miss` are
`_get_all`: a first page, each page (`Page` is `paginate`), a failure, after which
the code makes do with what it has. `AskRetractions`, `AskSuccessions` and
`Decide` are the rest of `believe_about`. Its store is not modelled by the module
Store, as one thread fills it, but by the same retraction gate, of Provenance.
Nodes may hold any records in any order, those that an enforcing node would have
refused included: the client is meant to trust none of them.

**Identity** has the documents of the Go SDK: a JSON object is a record with the
fields that it has, so a missing key is a field that is not in its `DOMAIN`. An
identifier is a kind and the identity-bearing fields themselves, which is what an
injective digest of the canonical form amounts to; two documents have one
identifier exactly when they agree on those fields. A number literal is a record of
its digits, and what `jcs.go` writes for it is modelled digit by digit.

**Semantics** is `semantics.go` rule by rule, as operators on documents and on the
maps that the code passes (occurrents, strata, ports, laws, tokens). A rule that
lists reasons gives the set of their names. Windows are compared by one number per
dimension, seconds or ticks.

**Schema** is the interpreter of the JSON Schema keywords that the twenty-one
schemas use, with the schemas as data: one record per kind, with the fields that it
admits and those of them that are optional. A fault is what is wrong and where.

**MemoryStore** has one operator per operation of `store.go`, on `objs`
(identifier to object) and `recs` (the records in the order of storage): `Put`,
`Write` (which is `PutRecord` with the gates and `ForceMergeRecord` without),
`Quarantined`, `Lineage`, `Materialized` (the body of `Get`), `Resolve`, the
listings that make up `Gaps`. A record is known by its position in the order of
storage. The loops of the code are steps that a recursive function repeats:
`WalkStep` goes to the next key of a lineage, and `Walk` repeats it as often as there
are records; `SearchStep` is one step of the depth-first search of
`findCycleRecords`, on the path, the edges tried and the finished nodes, and
`FindCycle` repeats it `SearchSteps` times, which is more than any search takes
(proved); `LatestInCycle` picks the edge to exclude, and `ExcludedEdges` is the loop
around it, once for each edge at most.

**OfferedStore** makes a state machine of it. A *catalogue* is what callers have in
hand; each of its documents and records may be written at any time, in any order and
again, and each record may also arrive by a forced merge. No two calls overlap: the
SDK starts no goroutine and the store has no lock. The properties are stated over
what the read operations answer in every state that is reached.

**Fixtures** and the **Vectors** modules are the conformance suite of
`conformance/main.go`: each vector is a predicate that is true when the SDK, as
modelled, gives what the vector asks. They are a second reading of the rules that
Semantics, Schema and MemoryStore translate, and a slip in the translation of one
fails a vector as it would in the code.

**Conformance** is the runner: `FindRepoRoot`, `ChooseSchemas` (with
`assertOutsideRepo` and the look at `CAUSALONTOLOGY_SPEC`),
`CheckEmbeddedSchemaDrift`, `InternalChecks`, `RunVector`, `Report`, over every
environment that the runner may find: schemas on disk and compiled in that agree,
are stale, missing or left over; a binding in the module cache or not; a variable
that is set or not. What the vectors find is a constant, `Verdicts`, so that the
theorem about the runner holds for any suite; MCConformance gives it the verdicts
of the modelled SDK.

**Variants.** Next to some definitions stands a variant, marked as such in its
comment: the definition with a likely mistake in it. No action uses one. Each
property of a passing run is violated when the definition is replaced by the
variant that `PROJECT.json` pairs it with, so the property does say something
about the code.

## 3. The runs

Passing runs:

| run | instance | shows |
|---|---|---|
| `store_gates` | one handler; two enrichments that close a cycle, a retraction, its retraction, a predecessor's retraction, successions that loop; posted and merged | `TaxonomyAcyclic`, `KnownTargetAuthorised`, `RefusedOnlyForOwnCycle`, `RetractionStands` over every order of arrival |
| `store_threads` | two handlers racing over six items, posted and merged | `TypeOK`, with its one row per identifier |
| `federation_tokens` | a chain of three; the middle node opted in and has a token, the first one keeps an assertion about it home; an object, an item that does not verify; a peer may be removed; one fault | `TypeOK`, `TokensStayHome`, `ImplementsCommons` |
| `federation_converge` | one side runs threads; requests of one item; a peer joins while the threads run; one fault; an assertion and its retraction, the first of them possibly altered on the way | `PassExchangesAll` and, under fairness, `PeersConverge` |
| `federation_shards` | a full and a partial node, each the other's peer; the partial node's clients write outside its shard, and post the same again and again; a stranger's retraction that the partial node takes or refuses; one fault | `InFlightIsShared`, `NothingGoesUntold` and, under fairness, `GossipQuiesces` |
| `view_web` | five enrichments over three concepts, with two cycles that share a record and one of length one; any subset, in any order of insertion | `TypeOK`, `ImplementsCycleBreaking`, `EveryStepCounts` and, under fairness, `ViewSettles` |
| `client_heir` | two nodes, pages of one record; an assertion, one that does not verify, a retraction by an heir two successions away and one by a stranger; every record may be stored at any time, every request may fail | `TypeOK`, `MissesNothing`, `HonoursRetractions`, `OnlyLineageWithdraws` and, under fairness, `ClientReturns` |
| `memory` | seven catalogues, each about one part of the store: claims that refine, rival and name each other; strata and bridges; hierarchies and tokens; aliases; successions that branch and loop; retractions by the source, an heir and a stranger before and after the successions; taxonomy records with cycles that share a record; written in every order, again, and merged | `TypeOK`, `OverlapIsACommonDelay`, `RivalryIsSound`, `NoGapIsLost`, `GapsCloseOnlyByWork`, `BridgesDescend`, `VerdictsStand`, `LineageIsWhatSuccessionsConnect`, `RetractionsHaveAuthority`, `SearchFindsEveryCycle`, `GateBlamesTheCulprit`, `WritesCloseNoCycle`, `ShownTaxonomyIsAcyclic`, `ResolveAgreesWithGet`, `ViewsForgetOrder` |
| `conformance` | every environment: mode, place of the binding, variable, directories that are fresh, stale or short of a file; all 137 vectors | `AllVectorsPass`, `VerdictIsAboutTheModule` |

The runner stops when it has its exit code, so `conformance` does not ask for
deadlock.

Runs that show the code to differ from what its documents say:

| run | what TLC finds |
|---|---|
| `store_race` | both halves of a cycle, posted at once, pass the cycle gate: an enforcing tier holds a cycle |
| `store_loop` | two keys that succeed each other: the retraction gate walks for ever and the request is not answered |
| `view_tail` | the search takes the whole path from where it began for the cycle, so a record that only leads to a cycle can be the one excluded; whether it is depends on the order of insertion, which differs between replicas |

Further disagreements were met and have no run of their own. In the store node:

* `verified_merge` looks whether an item is held, stores it and reports it without a
  lock, and the store returns normally for what is held by then. So two threads that
  both found the item absent both report it, although "an item already held is never
  reported as new" (`federation.py:126`); likewise a POST of a held item is taken for
  a new one when another write makes the table grow meanwhile (`server.py:728`). The
  item is gossiped again, and no more: `federation_shards` has these races, and falls
  silent in the end.
* A stranger's retraction is taken where it arrives before its target and refused
  where it arrives after (`federation.py:155`), so two nodes never agree, against
  `federation.py:39`. `federation_converge` has no stranger's retraction;
  `federation_shards` has one and does not ask for agreement.
* A pass sends identifiers in sorted order (`federation.py:429`), a successor's
  retraction before the succession that authorises it, so the receiver refuses it;
  "a single pass converges both replicas" (`federation.py:395`) then takes a second
  pass. The universe of `federation_converge` has no such pair.
* A light client asks for the successions of the sources and of the retracting keys
  only (`light_client.py:293`), so it does not learn of a lineage of four keys and
  does not honour the retraction of an heir three successions away, against
  `light_client.py:286`. In `client_heir` the heir is two successions away.
* Of two rival successions the last one stored is followed (`store.py:111`);
  `spec/provenance.md:36` says "conflicting successions freeze automatic
  following". The liveness runs and LightClient assume that there are none.
* A node started without peers has no background threads (`server.py:906`), so a
  peer added to it later gets nothing, although "peers can be added or removed at
  any time without downtime" (`federation.py:217`). In the runs every node either
  starts with a peer or never has one.
* A full node pushes to a partial one what its shard does not cover, and it is
  merged (`federation.py:449`), against `federation.py:176`, "without either being
  forced to hold prefixes outside its coverage".
* A cyclic succession chain makes the light client's own lineage walk endless,
  like that of a node (`store_loop`); `LineAssumption` excludes it.

Two more concern the gates. A stranger's retraction that is stored before its target
is never judged again and withdraws the target when it arrives (`store.py:103`,
against `spec/semantics.md:51`); it is why `KnownTargetAuthorised` speaks of targets
stored *before* the retraction. And since `_would_cycle` asks whether the whole graph
has a cycle, once a merge has brought one in, every later enrichment of that field is
refused, on the cycle or not (`store.py:195`, against `spec/semantics.md:149` and the
reason that `store.py:82` gives); `RefusedOnlyForOwnCycle` is therefore checked
without merged enrichments.

In the Go SDK, whose store has the rules of the Python one and so its limits:

* A cycle that a merge brought in makes the gate refuse every later enrichment of
  that field, and the view may exclude a record that only leads to a cycle
  (`store.go:414`), as in `view_tail`. `GateBlamesTheCulprit` is therefore about
  taxonomies that have no cycle yet. "No cycle is left" is checked
  (`ShownTaxonomyIsAcyclic`), "only members of cycles are lost" is not true.
* `occurrent_subsumes` and `occurrent_part_of` are hierarchies too, and pass
  neither gate nor view.
* An identifier that comes with a document is taken as it is, although
  `spec/store.md:36` says "id recomputed"; a write under an identifier that is held
  succeeds before anything is validated. So claims may refine each other in a
  circle, which `refinesEachOther` of MCOfferedStore does, and `NoGapIsLost` needs
  its argument. Records are not validated against their schemas at all.
* Rival successions make a lineage depend on the order of storage;
  `LineageIsWhatSuccessionsConnect` is about stores without rivals, and so is
  `RetractionsHaveAuthority`: a rival that is stored later can take the heir that
  retracted out of the lineage. A retraction that came before its target is not
  judged at all, as in the store node, but it counts.
* With cycles in a taxonomy the view depends on the order of the records, because the
  search does. `ViewsForgetOrder` says that nothing else in it does; it is about
  what a view and an answer contain, for the lists in them keep the order of storage.
* The comment on `SeamWellformed` (`semantics.go:731`) asks of a drawn chain that it
  is "an adjacent-stratum path spanning the two endpoints' strata"; the code asks
  that it lies strictly between the endpoints and is strictly monotone, so it may
  have gaps.
* The comment at `schema.go:118` names `CAUSALONTOLOGY_ROOT`; the code asks
  `CAUSALONTOLOGY_SPEC`. A change of the variable does not empty the cache.
* A stratum that is named and not held reads as scheme "" and ordinal 0. A token
  that is not held has the empty instant, so a claim whose effect is not held counts
  as retrocausal; `VerdictsStand` is therefore about claims whose ends are held.
* Identity depends on the order of arrays such as `causes`, and so does
  `RefinementValid`. `-0` and integer literals of 22 or more digits keep their text
  while an equal float is written another way, so equal numbers there have two
  identifiers.
* The `dangling_reference` gap looks at claims and at realizable fields only; an
  attitude towards a claim that is stored itself is listed as a conflict with it.

### Bounds, and why they are enough

* *Items.* Each universe is the smallest that has the case: a cycle needs two
  enrichments, an effective retraction one record and its retraction, an
  authorised one by a successor also the succession. Two of a kind that play the
  same part add states and no behaviour.
* `Client` bounds the POSTs that a node serves at a time, in the runs to one. What
  stores between its two looks at the table size are then the merges of the node's
  other threads; the theorem has any number of POSTs. `Reposts` are the items that
  clients post more than once.
* *Nodes.* Two nodes have every interleaving of a pair. Forwarding, and a token
  tier that passes through a third party, need a chain of three; so does a peer
  that joins a node whose threads run.
* *Concepts of the view.* Cycles of length one, two and three, two of them with a
  record in common, are every way in which finished concepts, the path and a cycle
  can meet; the proof covers all others.
* `PageSize` is the page of a listing (100 by default); 1 with listings of two
  makes requests with cursors. `N` nodes are asked, in their order; which key is
  asked for first is open, as the code iterates over a set.
* `Batch` is the batch size of a request (200 to 500 in the code); 1 or 2 with
  more items than that gives passes of several requests.
* `MaxFaults` bounds lost requests, late answers, altered copies and crashes
  together. Under fairness a bound is also what the promise needs: convergence is
  promised once faults stop.
* *Requests in flight.* A thread that timed out waits to post to that peer until
  the peer's handler of the earlier request has ended; so `inbox` has one request
  per pair and thread.
* *Backoff* is set by every failure and may be over at any time after it. In the
  code it lasts a delay that doubles with each failure in a row, up to a maximum.
* `SyncProbe` compares the peer's root with the local index in one step, where the
  code reads one after the other. A write in between makes the code begin a pass
  whose difference is empty, or skip one that the next interval makes.
* *Catalogues* of the in-memory store are seven instead of one, as claims, strata,
  aliases, successions and taxonomies do not read one another; within each, every
  order is explored. The one about authority has a target, two successions in a row
  and a retraction by each of its source, its heir and a stranger: every order of the
  successions and the retraction that they entitle. Successions have branches, a
  chain of four keys and a loop;
  taxonomies two cycles that share a record and one record that leads into them.
* *Documents* have names for digests where a vector only needs an identifier.
  Numbers between 0 and 1 are counted in hundredths, instants are whole numbers,
  number literals have at most `MaxDigits` = 9 digits, and documents nest at most
  three deep, which is what the schemas allow.
* `MCRank` (which of two records made at the same time comes later), `MCCanonLabel`
  and `MCNormAlias` (the free texts of the vectors) give the functions of text that
  `MemoryStore` leaves open. The theorems hold for any, with a `Rank` that tells
  enrichments apart, as the comparison of two different identifiers does.
* *Schema directories* have two of the twenty-one files, as every file is treated
  alike: one that vectors read first and one that they read late.
* The root of a manifest stands for the set it is computed from; SHA-256 is taken
  to be injective.

### Fairness

`FairSpec` of Federation has weak fairness of each background thread, each
handler, and the end of each backoff: threads are loops around a timed wait that
catch every exception, the server gives each request a thread, and a backoff is a
deadline on a clock. No fairness is asked of the POSTs
of clients, peer changes or faults: that what is stored gets announced is an
invariant, and convergence does not rest on it, as anti-entropy reads the tables.
`FairSpec` of Store has it for `Insert`, a thread that has passed its gates. In
TaxonomyView it is the function that runs until it returns, in LightClient the
client's loop: a request is answered or times out, it may fail each time.

## 4. The theorems

| module | theorem | statement |
|---|---|---|
| StoreProofs | `TypeCorrect` | `Spec => []TypeOK`, any number of handlers |
| | `RetractionsStand` | what is withdrawn stays withdrawn, any number of handlers |
| | `TaxonomyStaysAcyclic` | with one handler and no merged enrichments, `Spec => []TaxonomyAcyclic` |
| | `KnownTargetsAuthorised` | with one handler, `Spec => []KnownTargetAuthorised` |
| | `RefusalsAreOwnCycles` | with one handler and no merged enrichments, `Spec => []RefusedOnlyForOwnCycle` |
| FederationProofs | `TypeCorrect` | `Spec => []TypeOK` |
| | `NothingIsLeftUntold` | `Spec => []NothingGoesUntold`, any number of clients |
| | `InFlightStaysShared` | `Spec => []InFlightIsShared` |
| | `FederationImplementsCommons` | `Spec => ImplementsCommons` |
| | `TokenTierStaysHome` | `Spec => []TokensStayHome` |
| | `PassesExchangeAll` | with retractions by the source only, `Spec => PassExchangesAll` |
| TaxonomyViewProofs | `TypeCorrect` | `Spec => []TypeOK` |
| | `ViewImplementsCycleBreaking` | `Spec => ImplementsCycleBreaking` |
| | `NoStepIsWasted` | `Spec => EveryStepCounts` |
| LightClientProofs | `TypeCorrect` | `Spec => []TypeOK` |
| | `PagesMissNothing` | `Spec => []MissesNothing` |
| | `OnlyTheLineageWithdraws` | `Spec => []OnlyLineageWithdraws` |
| | `RetractionsAreHonoured` | with lineages of at most two successions, `Spec => []HonoursRetractions` |
| SemanticsProofs | `RefinementsGainDetail` | a valid refinement has every optional field of its parent and at least one more |
| | `OneEdgeMore` | an edge closes a cycle in a graph without one exactly when its end reaches its beginning |
| MemoryStoreProofs | `LineageConnects` | without rival successions, the lineage of a key is all that successions connect with it |
| | `SearchIsComplete` | `FindCycle` reports a cycle exactly when the edges have one |
| | `ExclusionBreaksCycles` | what `ExcludedEdges` leaves has no cycle |
| OfferedStoreProofs | `TypeCorrect` | `Spec => []TypeOK`, any catalogues |
| | `RivalriesAreSound` | `Spec => []RivalryIsSound` |
| | `NoGapLost` | `Spec => []NoGapIsLost` |
| | `GapsCloseByWork` | `Spec => GapsCloseOnlyByWork` |
| | `VerdictsAreFinal` | `Spec => VerdictsStand` |
| | `BridgesLeadDown` | `Spec => []BridgesDescend` |
| | `OverlapsAreCommonDelays` | `Spec => []OverlapIsACommonDelay` |
| | `LineagesAreSuccessions` | `Spec => []LineageIsWhatSuccessionsConnect` |
| | `RetractionsKeepAuthority` | `Spec => []RetractionsHaveAuthority` |
| | `SearchesFindEveryCycle` | `Spec => []SearchFindsEveryCycle` |
| | `GatesBlameTheCulprit` | `Spec => []GateBlamesTheCulprit` |
| | `EnforcedWritesCloseNoCycle` | `Spec => WritesCloseNoCycle` |
| | `ShownTaxonomiesAreAcyclic` | `Spec => []ShownTaxonomyIsAcyclic` |
| | `ResolveAndGetAgree` | `Spec => []ResolveAgreesWithGet` |
| | `OrderIsForgotten` | `Spec => []ViewsForgetOrder` |
| | `ViewsAreOfTheRecords` | the same for any rearrangement of the records, not only the reverse |
| ConformanceProofs | `VerdictIsAboutModule` | `Spec => []VerdictIsAboutTheModule`, any environments and vectors |
| | `ExitZeroMeansPassed` | exit code 0 only when the internal checks and every vector were true |
| | `NoFalseFailures` | if every vector's verdict is true, `Spec => []AllVectorsPass` |

*Assumptions.* The proofs use `BodyAssumption`, `StoreAssumption`,
`FederationAssumption`, `ViewAssumption`, `ClientAssumption`,
`CatalogueAssumption`, `OrderAssumption` and `SuiteAssumption`, which say what type
the constants have: among others that ordinals, delays and timestamps are numbers,
that different identifiers compare as different, and that the suite is long enough
to read both schema files. They do not use `SuccessionAssumption`, which the liveness
runs need (without it lineages depend on the order of arrival), nor
`LineAssumption`. Five hypotheses are explicit in the theorems that need them, and
say under which use of the code the promise holds:

* `OneHandler`, as with two the run `store_race` shows the property false;
* `NoMergedEnrichment`, as a replica merge has no cycle gate;
* `SourcesRetract`: whoever retracts a record made it. A retraction by an heir is
  refused until the successions have come, and one by a stranger for ever, so a pass
  may end without it. The universe of `federation_converge` has a retraction and
  fulfils it;
* `ShortLineages`: no three successions in a row. The client asks for the successions
  of the keys it has met once, so of a longer line it misses the middle. The universe
  of `client_heir` has the longest line allowed;
* the verdicts of the vectors are true, in `NoFalseFailures`. That they are is a
  computation, which the run `conformance` carries out for the modelled SDK; the
  theorem adds that no environment turns them into a failure.

*Argument, Store.* `TypeOK` is inductive: `Insert` appends only what is not in the
table. The two gate theorems need a strengthening, `GateStillHolds`: the record a
handler has admitted and not yet stored would pass its gate on the table of now.
With one handler nothing is stored between the two steps, so the gate's verdict is
about the very table that the insert extends. `RefusedOnlyForOwnCycle` follows from
`TaxonomyAcyclic`: in a graph without a cycle that one more edge gives one, the end
of that edge reaches its beginning.

*Argument, Federation.* The invariant is `SharedInv`: what a node has queued it
holds; what a merge or a POST was told is stored is in the tables (`StoredHeld`);
what a gossip flush, a pass or a request in flight carries is held and shared by its
sender; and a batch is empty outside an exchange. It is inductive because tables only
grow, and because what enters a queue is what a handler has had stored. From it every
`MergeStore` is a `Copy` of Commons and every `PostStore` a `Write`
(`StepRefines`), so the protocol refines Commons. `NothingGoesUntold` needs
`BeforeSmall`: the table size that a POST read first is at most the present one. So
the POST that adds an item finds its table larger than it was (tables are finite, and
one element more is counted), and still does after whatever others store. A
token-tier item that arrives by a `Copy` comes from an opted-in node; with induction
along the copies it was written at such a node, which is `TokensStayHome`. `PassInv` follows what either side had when a pass
began: an item to pull is held by now, or wanted, or in the batch; an item to push is held
by the peer, or still to be pushed, or in the request under way. A pass ends only
with nothing wanted, pushed or under way. The invariant needs receivers that store
what senders hold, which is where `SourcesRetract` comes in.

*Argument, TaxonomyView.* `SearchInv` says that the path is a walk that meets each
concept once and these are the grey ones (`PathInv`), that a record that was tried
leads to a finished concept or is on the path (`TriedInv`), and that finished
concepts lead only to finished ones and have no cycle among them (`BlackInv`).
When a concept is finished, all its records lead to finished ones, so a cycle
through it would be one among those. When the scan ends nothing is grey, so the
whole graph is finished: no cycle was missed. When a record leads back to the path,
from every record of the path one can go on to another, which is what CycleBreaking
asks of an excluded one. `EveryStepCounts` is what is left of termination without
fairness: what a search has tried, visited and finished only grows until a record is
excluded, every step adds to one of them (by `PathInv` the concept that is left is grey,
so it was not finished before), and there are finitely many of each.

*Argument, LightClient.* `PagesInv` says of a listing that is being read that all
before the offset has been collected. New records come last, so what a node listed
at the beginning is before the end that the last page reaches. The retraction
gate of the client's own store is asked about assertions it holds, so every
retraction that it honours comes from the lineage. That it honours every one needs
the successions between the two sources (`DecidedInv`): with at most two, each
touches a source or the key of a retraction, so it is in a listing that was asked for
and, by `PagesInv`, read to its end.

*Argument, in-memory store.* `StoreInv` says that each object held passed its gates
(`ObjectsOK`) and that records have distinct identifiers and valid signatures
(`RecordsOK`). Objects only extend (`ObjectsExtend`): a write under an identifier
that is held changes nothing. So a verdict whose facts are all held reads the same
facts later, which is `VerdictsStand`, and a gap of a claim goes away only when the
claim becomes refined. `NoGapIsLost` needs more, as refinements can be written in
any order and identifiers are free: along a valid refinement the number of optional
fields strictly grows (`RefinementsGainDetail`), so among the claims that one
reaches from a refined one there is a most detailed one, and that is not refined.
It has the fields, or it is on the list. Along a bridge the schemas make both ends
occurrents that name strata, and its own rule makes the ordinal fall, so bridges have
no cycle. Two windows that overlap share the later of their beginnings.

*Argument, in-memory store's gates.* The gate searches the stored graph with the
record in it, so by `SearchIsComplete` it refuses exactly when that graph has a cycle
(`GateSearches`). In an acyclic graph this is so exactly when the record's entry reaches
what it is about (`OneEdgeMore`). A write adds at most the edge of its record, and a
retraction or a record of another field none (`ConceptsGrowByOne`), so an enforced
write of an acyclic taxonomy leaves it acyclic. Of retractions, `AuthorityInv` records
the verdict of each gate: the retracting key was in the lineage of the target's source
by the records stored until then. That is inductive whatever the successions, as it is
about the past. Without rivals the lineage of now contains the one of then
(`LineageGrows`), because both are what the successions connect and successions are
only added.

*Argument, in-memory store's loops.* Each is a recursive function, unfolded step by
step (`Iteration`), with an invariant and a measure. A walk along successions meets no
key twice and there are finitely many, so it stops where no succession is left or
where it began. Of the search, `SearchInv` is the invariant of TaxonomyView in terms
of positions, and each step adds to an effort (roots begun, records tried and records
finished) that `SearchSteps` bounds; so the search has halted, with a cycle found or all
concepts finished. The exclusion either takes out one more record or has stopped,
and it stops at a graph without a cycle (`OneIsLatest`: in a cycle exactly one record
is the latest, as `Rank` decides between those made at the same time). With these the
four properties of the store follow from `StoreInv`, and from `RecordsSound`, which
says of every record held that it meets the semantic rules of its kind: an alias is
never excluded, since only records of the two taxonomies are.

*Argument, in-memory store's order.* Retractions, enrichments and the edges of a
taxonomy are each a function of the set of records (`RetractedForgetsOrder`,
`EnrichmentsForgetOrder`, `TaxonomyForgetsOrder`). Only the search looks at positions,
and in a graph without a cycle it finds nothing in any order (`SearchIsComplete`), so
nothing is excluded (`NothingIsExcluded`) and the views agree.

*Argument, conformance runner.* `RunnerInv` says which directory schemas come from
once the mode is known (`ModeInv`), that every cached schema is the compiled-in one
(`CacheInv`; before the drift check the cache is empty, after it the directory on
disk is the compiled-in one), and that a vector whose schema is missing has failed
(`NeedsInv`). The verdicts of the vectors are arbitrary. `CountInv` keeps count: as
long as no failure is counted, all vectors so far and the internal checks were true, and
the exit code is computed from that count. Conversely, a module that carries both schemas
finds them in either mode (`SchemasAreFound`): in repository mode the drift check has
compared the directory on disk with the compiled-in one.

*Only model-checked:* liveness (`PeersConverge`, `GossipQuiesces`, `ViewSettles`,
`ClientReturns`, `HandlersAnswer`), which needs fairness and `ENABLED`; and that the
verdicts of the 137 vectors are true, which is a computation. Every other property of a
passing run has a theorem.

## 5. What is not modelled, and the plan

Not to be modelled: string escapes and key order of RFC 8785, SHA-256, Ed25519 and
the RFC test data of the runner (identifiers and signatures are injective terms);
the Go SDK 2.0.0, which has the functions of 4.0.0 without ticks, seams, attitudes,
predictions and embedded schemas; the ports to other languages, held to the same
vectors; the static data and the dashboard. Of the Python SDK the pure functions are
verdicts (constants) in Store and Federation, and modelled as the Go SDK has them.

Planned, in this order:

1. **Fetch**: `get_object` and `get_record` of the light client, with the pointers
   of partial nodes, the shard map and its discovery; nodes that answer anything.
   To prove: what is returned is what was asked for, and no node is asked twice.
2. **Endpoint**: the answers of the write endpoints (what `created` tells the client),
   cursors of the default views, the demand counter, legacy `persist` and
   `restore` under handler threads.
3. **Snapshot**: export, verification and import in order, an import that stops.
4. **SqliteStore**: tables, the transaction that is open, the derived tables and
   the dirty flag, crashes between statements, start-up; abstract specification: a
   source table and a view computed from it. To prove: derived tables marked clean
   are current, and the source tables are add-only.
5. **Sharding**: `parse`, `to_spec`, `coverage_report`, `nodes_for` as operators
   over a small alphabet, checked against their definitions.
6. Proofs: the storage invariant, add-only tables, soundness of Fetch.
