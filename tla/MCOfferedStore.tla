----------------------------- MODULE MCOfferedStore -----------------------------
(***************************************************************************)
(* The in-memory store for TLC: catalogues small enough that every order of  *)
(* writing is explored, each about one part of the store.                    *)
(***************************************************************************)
EXTENDS OfferedStore, Fixtures

\* Identifiers are ranked by the day on which their record was made.
MCRank(id) == IF Has(id.digest, "timestamp") THEN id.digest.timestamp ELSE 0

MCCanonLabel(text) == IF text = "Press Button" THEN "press_button" ELSE text

MCNormAlias(text) == IF text \in {"push  it", "Push it"} THEN "push it" ELSE text

-----------------------------------------------------------------------------
A == sym("occurrent", "A")
B == sym("occurrent", "B")

Seconds(min, max) == [minimum_delay |-> min, maximum_delay |-> max, unit |-> "seconds"]
Minutes(min, max) == [minimum_delay |-> min, maximum_delay |-> max, unit |-> "minutes"]
Ticks(min, max)   == [minimum_delay |-> min, maximum_delay |-> max, unit |-> "ticks"]

bare      == cro(<<A>>, <<B>>, <<>>)
soon      == cro(<<A>>, <<B>>, [refines |-> bare.id, temporal |-> Seconds(0, 60)])
soonCause == cro(<<A>>, <<B>>, [refines |-> soon.id, temporal |-> Seconds(0, 60),
                                modality |-> "sufficient"])

\* A rival that calls itself a refinement; it begins where the other windows end.
rival == cro(<<A>>, <<B>>, [refines |-> soonCause.id, temporal |-> Seconds(0, 60),
                            modality |-> "preventive", context |-> <<B>>])
later == cro(<<A>>, <<B>>, [temporal |-> Minutes(1, 2), modality |-> "preventive"])
ticks == cro(<<A>>, <<B>>, [temporal |-> Ticks(0, 60), modality |-> "preventive"])

\* Two claims, with identifiers given by hand, that refine each other; neither
\* adds anything.
x == sym("causal_relation_object", "x")
y == sym("causal_relation_object", "y")
refinesEachOther == {[type |-> "causal_relation_object", id |-> p[1], refines |-> p[2],
                      causes |-> <<A>>, effects |-> <<B>>] : p \in {<<x, y>>, <<y, x>>}}

inverted == cro(<<A>>, <<B>>, [temporal |-> Seconds(9, 3)])
nameless == [type |-> "causal_relation_object", causes |-> <<A>>]

ClaimCatalogue ==
  [docs |-> {bare, soon, soonCause, rival, later, ticks, inverted, nameless} \cup refinesEachOther,
   recs |-> {}, enforcing |-> TRUE]

-----------------------------------------------------------------------------
coarse == occAt("coarse", neuro[6])
level  == occAt("level", neuro[6])
fine   == occAt("fine", neuro[4])

\* The same identifier for an occurrent at another stratum.
impostor == With(coarse, "stratum", neuro[4].id)

StrataCatalogue ==
  [docs |-> {neuro[4], neuro[6], coarse, level, fine, impostor,
             bridge(coarse.id, <<fine.id>>, "constitutes"),
             bridge(coarse.id, <<level.id>>, "constitutes"),
             bridge(level.id, <<coarse.id>>, "constitutes"),
             bridge(fine.id, <<coarse.id>>, "constitutes"),
             cro(<<coarse.id>>, <<fine.id>>, <<>>)},
   recs |-> {}, enforcing |-> TRUE]

reach == reachFixture
cause  == token(A, [start |-> 2], <<>>)
effect == token(B, [start |-> 1], <<>>)

HierarchyCatalogue ==
  [docs |-> {reach.parent, cause, effect, tcc(<<cause.id>>, <<effect.id>>, <<>>),
             With(effect, "interval", [start |-> 3])}
            \cup reach.bridges \cup {reach.claims[m] : m \in DOMAIN reach.claims}
            \cup {With(reach.claims[m], "effects", <<A>>) : m \in DOMAIN reach.claims},
   recs |-> {}, enforcing |-> TRUE]

-----------------------------------------------------------------------------
press == occ("press_button", <<>>)
push  == occ("push", <<>>)

alias(of, lang, text, who, day) ==
  signed("enrichment", [about |-> of.id, field |-> "aliases", entry |-> [lang |-> lang, text |-> text]],
         who, day)

retract(rec, who, day) == signed("retraction", [retracts |-> rec.id], who, day)

fromAlice == alias(press, "en", "push  it", "alice", 1)

AliasCatalogue ==
  [docs |-> {press, push},
   recs |-> {fromAlice, alias(press, "en", "Push it", "bob", 2), alias(push, "ja", "Press Button", "bob", 3),
             retract(fromAlice, "alice", 4), retract(fromAlice, "mallory", 5),
             With(fromAlice, "timestamp", 9)},
   enforcing |-> TRUE]

heir(from, to, day) == signed("succession", [successor |-> key(to)], from, day)

LineageCatalogue ==
  [docs |-> {}, enforcing |-> TRUE,
   recs |-> {heir("k1", "k2", 1), heir("k2", "k3", 2), heir("k3", "k4", 3), heir("k1", "k3", 4),
             heir("k4", "k1", 5)}]

\* Made by the first of three keys; retracted by the last, by a stranger, and by a key
\* that only a later record makes an heir.
AuthorityCatalogue ==
  [docs |-> {}, enforcing |-> TRUE,
   recs |-> {alias(press, "en", "push  it", "k1", 1), heir("k1", "k2", 2), heir("k2", "k3", 3)}
            \cup {retract(alias(press, "en", "push  it", "k1", 1), who, 4) : who \in {"k1", "k3", "mallory"}}]

under(from, to, day) ==
  signed("enrichment", [about |-> sym("continuant", from), field |-> "subsumes",
                        entry |-> sym("continuant", to)], "taxo", day)

TaxonomyCatalogue ==
  [docs |-> {}, enforcing |-> TRUE,
   recs |-> {under("a", "b", 1), under("b", "a", 2), under("b", "c", 3), under("c", "b", 4),
             under("d", "a", 5), retract(under("b", "a", 2), "taxo", 6)}]

MCCatalogues == {ClaimCatalogue, StrataCatalogue, HierarchyCatalogue, AliasCatalogue,
                 LineageCatalogue, AuthorityCatalogue, TaxonomyCatalogue}
=============================================================================
