----------------------------- MODULE MCFederation -----------------------------
(***************************************************************************)
(* Small federations for model checking.                                     *)
(***************************************************************************)
EXTENDS Federation, TLC

CONSTANTS na, nb, nc,               \* nodes
          occ, tok,                 \* a type-tier and a token-tier object
          aOcc, aTok,               \* assertions about them
          rOld, rOther,             \* retractions of aOcc: by its source, by a stranger
          k1, k2                    \* keys

Keys == {k1, k2}

Universe ==
  occ  :> [type |-> "content", token |-> FALSE] @@
  tok  :> [type |-> "content", token |-> TRUE] @@
  aOcc :> [type |-> "assertion", source |-> k1, about |-> occ] @@
  aTok :> [type |-> "assertion", source |-> k1, about |-> tok] @@
  rOld :> [type |-> "retraction", source |-> k1, retracts |-> aOcc] @@
  rOther :> [type |-> "retraction", source |-> k2, retracts |-> aOcc]

\* Identifiers sort by their scheme: assertion, occurrent, retraction, token.
Order == <<aOcc, aTok, occ, rOld, rOther, tok>>
RankOf(S) == [i \in S |-> CHOOSE n \in 1 .. Len(Order) : Order[n] = i]

BodyOf(S) == [i \in S |-> Universe[i]]

AllCovered == [n \in Node |-> Item]
NoPairs    == {}

EachOther == na :> {nb} @@ nb :> {na}
Chain     == na :> {nb} @@ nb :> {nc} @@ nc :> {}
Grown     == na :> {nb} @@ nb :> {} @@ nc :> {}

\* Along a chain of three: a token from the node that opted in, an assertion about
\* it from one that keeps its token tier home, and an assertion that does not verify.
ChainItems    == {tok, aTok, occ, aOcc}
ChainBody     == BodyOf(ChainItems)
ChainRank     == RankOf(ChainItems)
ChainWrites   == na :> {aTok} @@ nb :> {tok} @@ nc :> {aOcc}
ChainVerified == ChainItems \ {aOcc}

\* An assertion and its retraction at the node that joins late.
GrownItems  == {occ, aOcc, rOld}
GrownBody   == BodyOf(GrownItems)
GrownRank   == RankOf(GrownItems)
GrownWrites == na :> {} @@ nb :> {} @@ nc :> {aOcc, rOld}

\* nb's shard is without the assertion, which its own clients write; a stranger's
\* retraction comes from na, and is refused or taken according to which is first.
ShardItems  == {occ, aOcc, rOther}
ShardBody   == BodyOf(ShardItems)
ShardRank   == RankOf(ShardItems)
ShardWrites == na :> {rOther} @@ nb :> {aOcc}
HalfCovered == na :> ShardItems @@ nb :> {occ, rOther}

\* nb, or nc, may become na's peer or leave it while all run.
AToB == {<<na, nb>>}
AToC == {<<na, nc>>}
=============================================================================
