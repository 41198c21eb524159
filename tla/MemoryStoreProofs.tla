-------------------------- MODULE MemoryStoreProofs --------------------------
(***************************************************************************)
(* What the operators of the in-memory store compute for any records: the    *)
(* walk along successions, and the search for cycles of a taxonomy.  Each is *)
(* a recursive function on the first numbers; it is unfolded once, and then  *)
(* reasoned about step by step.                                              *)
(***************************************************************************)
EXTENDS MemoryStore, SemanticsProofs, SequenceTheorems

-----------------------------------------------------------------------------
(* Iteration. *)

LEMMA AllNaturals ==
  ASSUME NEW S, 0 \in S, \A n \in Nat : n \in S => n + 1 \in S
  PROVE  Nat \subseteq S
<1> SUFFICES ASSUME Nat \ S # {} PROVE FALSE
  OBVIOUS
<1>1. PICK m \in Nat \ S : \A k \in Nat \ S : m <= k
  <2> DEFINE T == Nat \ S
  <2>1. T \in SUBSET Nat /\ T # {}
    OBVIOUS
  <2> HIDE DEF T
  <2>2. PICK m \in T : \A k \in T : m <= k
    BY <2>1, SomeLeast
  <2>3. QED
    BY <2>2 DEF T
<1>2. m - 1 \in Nat /\ m - 1 \in S
  BY <1>1
<1>3. QED
  BY <1>1, <1>2

LEMMA UpTo ==
  ASSUME NEW K \in Nat, NEW S, 0 \in S, \A n \in Nat : n < K /\ n \in S => n + 1 \in S
  PROVE  0 .. K \subseteq S
<1> DEFINE T == {n \in Nat : n <= K => n \in S}
<1>1. 0 \in T
  OBVIOUS
<1>2. \A n \in Nat : n \in T => n + 1 \in T
  OBVIOUS
<1> HIDE DEF T
<1>3. Nat \subseteq T
  BY <1>1, <1>2, AllNaturals
<1>4. QED
  BY <1>3 DEF T

LEMMA Stays ==
  ASSUME NEW K \in Nat, NEW f, NEW X, f[0] \in X,
         \A n \in 1 .. K : f[n - 1] \in X => f[n] \in X
  PROVE  \A n \in 0 .. K : f[n] \in X
<1> DEFINE S == {n \in Nat : f[n] \in X}
<1>1. 0 \in S
  OBVIOUS
<1>2. ASSUME NEW n \in Nat, n < K, n \in S
      PROVE  n + 1 \in S
  <2>1. f[n] \in X /\ n + 1 \in 1 .. K /\ (n + 1) - 1 = n
    BY <1>2
  <2>2. QED
    BY <2>1
<1> HIDE DEF S
<1>3. 0 .. K \subseteq S
  BY <1>1, <1>2, UpTo
<1>4. QED
  BY <1>3 DEF S

Iterates(f, X, b, s, K) ==
  f \in [0 .. K -> X] /\ f[0] = b /\ \A n \in 1 .. K : f[n] = s[f[n - 1]]

\* A function is iterated on a value as often as wanted.
LEMMA Iteration ==
  ASSUME NEW X, NEW b \in X, NEW s \in [X -> X], NEW K \in Nat
  PROVE  \E f : Iterates(f, X, b, s, K)
<1> DEFINE Good(k) == \E f \in [0 .. k -> X] : f[0] = b /\ \A n \in 1 .. k : f[n] = s[f[n - 1]]
           S == {k \in Nat : Good(k)}
<1>1. Good(0)
  <2> DEFINE f == [n \in 0 .. 0 |-> b]
  <2>1. f \in [0 .. 0 -> X] /\ f[0] = b /\ \A n \in 1 .. 0 : f[n] = s[f[n - 1]]
    OBVIOUS
  <2>2. QED
    BY <2>1
<1>2. ASSUME NEW k \in Nat, Good(k)
      PROVE  Good(k + 1)
  <2>1. PICK g \in [0 .. k -> X] : g[0] = b /\ \A n \in 1 .. k : g[n] = s[g[n - 1]]
    BY <1>2
  <2> DEFINE f == [n \in 0 .. k + 1 |-> IF n = k + 1 THEN s[g[k]] ELSE g[n]]
  <2>2. f \in [0 .. k + 1 -> X]
    <3>1. \A n \in 0 .. k + 1 : n = k + 1 \/ n \in 0 .. k
      OBVIOUS
    <3>2. QED
      BY <3>1
  <2>3. f[0] = b
    BY <2>1
  <2>4. \A n \in 1 .. k + 1 : f[n] = s[f[n - 1]]
    <3> SUFFICES ASSUME NEW n \in 1 .. k + 1 PROVE f[n] = s[f[n - 1]]
      OBVIOUS
    <3>1. CASE n = k + 1
      BY <3>1
    <3>2. CASE n # k + 1
      <4>1. n \in 1 .. k /\ n - 1 \in 0 .. k + 1 /\ n - 1 # k + 1 /\ n \in 0 .. k + 1
        BY <3>2
      <4>2. QED
        BY <2>1, <4>1
    <3>3. QED
      BY <3>1, <3>2
  <2>5. QED
    BY <2>2, <2>3, <2>4
<1> HIDE DEF Good
<1>3. 0 \in S /\ \A n \in Nat : n \in S => n + 1 \in S
  BY <1>1, <1>2
<1> HIDE DEF S
<1>4. K \in S
  BY <1>3, AllNaturals
<1>5. QED
  BY <1>4 DEF S, Good, Iterates

Recurs(f, X, b, s, K) ==
  f \in [0 .. K -> X] /\ f = [n \in 0 .. K |-> IF n = 0 THEN b ELSE s[f[n - 1]]]

\* A recursive definition on the first numbers has a solution.
LEMMA Recursion ==
  ASSUME NEW X, NEW b \in X, NEW s \in [X -> X], NEW K \in Nat
  PROVE  \E f : Recurs(f, X, b, s, K)
<1>1. PICK f : Iterates(f, X, b, s, K)
  BY Iteration
<1> USE DEF Iterates
<1> DEFINE g == [n \in 0 .. K |-> IF n = 0 THEN b ELSE s[f[n - 1]]]
<1>2. ASSUME NEW n \in 0 .. K
      PROVE  f[n] = g[n]
  <2>1. CASE n = 0
    BY <1>1, <2>1
  <2>2. CASE n # 0
    <3>1. n \in 1 .. K
      BY <2>2
    <3>2. QED
      BY <1>1, <2>2, <3>1
  <2>3. QED
    BY <2>1, <2>2
<1>3. f = [n \in 0 .. K |-> f[n]] /\ g = [n \in 0 .. K |-> g[n]]
  BY <1>1
<1> HIDE DEF g
<1>4. f = g
  BY <1>2, <1>3
<1>5. QED
  BY <1>1, <1>4 DEF g, Recurs

LEMMA ImageIsFinite ==
  ASSUME NEW S, IsFiniteSet(S), NEW g, NEW T, T = {g[x] : x \in S}
  PROVE  IsFiniteSet(T) /\ Cardinality(T) <= Cardinality(S)
<1> DEFINE h == [x \in S |-> g[x]]
<1>1. h \in Surjection(S, T)
  BY DEF Surjection
<1> HIDE DEF h
<1>2. QED
  BY <1>1, FS_Surjection

\* Sets of at most K members that grow until they stop have stopped, or have all of
\* them, after K steps.
LEMMA GrowthEnds ==
  ASSUME NEW K \in Nat, NEW T, IsFiniteSet(T), Cardinality(T) <= K, NEW a, NEW Stop,
         \A n \in 0 .. K : a[n] \subseteq T,
         \A n \in Nat : n < K =>
           IF n \in Stop THEN n + 1 \in Stop ELSE a[n] \subseteq a[n + 1] /\ a[n] # a[n + 1]
  PROVE  K \in Stop \/ a[K] = T
<1> DEFINE S == {n \in Nat : n <= K => n \in Stop \/ Cardinality(a[n]) >= n}
<1>1. \A n \in 0 .. K : IsFiniteSet(a[n]) /\ Cardinality(a[n]) \in Nat
  BY FS_Subset, FS_CardinalityType
<1>2. 0 \in S
  BY <1>1
<1>3. ASSUME NEW n \in Nat, n < K, n \in S
      PROVE  n + 1 \in S
  <2>1. n \in 0 .. K /\ n + 1 \in 0 .. K
    BY <1>3
  <2>2. CASE n \in Stop
    BY <1>3, <2>2
  <2>3. CASE n \notin Stop
    <3>1. a[n] \subseteq a[n + 1] /\ a[n] # a[n + 1] /\ Cardinality(a[n]) >= n
      BY <1>3, <2>1, <2>3
    <3>2. Cardinality(a[n]) <= Cardinality(a[n + 1]) /\ Cardinality(a[n]) # Cardinality(a[n + 1])
      BY <3>1, <2>1, <1>1, FS_Subset
    <3>3. Cardinality(a[n + 1]) >= n + 1
      BY <3>1, <3>2, <2>1, <1>1
    <3>4. QED
      BY <3>3
  <2>4. QED
    BY <2>2, <2>3
<1> HIDE DEF S
<1>4. 0 .. K \subseteq S
  BY <1>2, <1>3, UpTo
<1>5. K \in Stop \/ Cardinality(a[K]) >= K
  BY <1>4 DEF S
<1>6. Cardinality(a[K]) >= K => a[K] = T
  <2>1. a[K] \subseteq T /\ Cardinality(a[K]) \in Nat /\ Cardinality(T) \in Nat
    BY <1>1, FS_CardinalityType
  <2>2. QED
    BY <2>1, FS_Subset
<1>7. QED
  BY <1>5, <1>6

-----------------------------------------------------------------------------
(* The walk along successions. *)

\* The keys that successions lead to.
Tos(recs, to) == {recs[i][to] : i \in RecordsOf(recs, "succession")}

LEMMA NextKeysAreTos ==
  ASSUME NEW recs, NEW at, NEW from, NEW to
  PROVE  NextKeys(recs, at, from, to) \subseteq Tos(recs, to)
BY DEF NextKeys, Tos

\* There is at most one next key.
LEMMA OneNextKey ==
  ASSUME NEW D, NEW recs \in Seq(D), NEW at, NEW from, NEW to,
         NEW k \in NextKeys(recs, at, from, to), NEW l \in NextKeys(recs, at, from, to)
  PROVE  k = l
<1> DEFINE hits == {i \in RecordsOf(recs, "succession") : recs[i][from] = at}
           last == {j \in hits : \A m \in hits : m <= j}
<1>1. PICK i \in last : k = recs[i][to]
  BY DEF NextKeys
<1>2. PICK j \in last : l = recs[j][to]
  BY DEF NextKeys
<1>3. i \in Int /\ j \in Int /\ i <= j /\ j <= i
  BY DEF RecordsOf
<1>4. i = j
  BY <1>3
<1>5. QED
  BY <1>1, <1>2, <1>4

WalkStates(recs, key, chain, to) ==
  LET keys == chain \cup {key} \cup Tos(recs, to) IN [at : keys, chain : SUBSET keys]

LEMMA WalkStepType ==
  ASSUME NEW recs, NEW key, NEW chain, NEW from, NEW to, NEW s \in WalkStates(recs, key, chain, to)
  PROVE  WalkStep(recs, s, from, to) \in WalkStates(recs, key, chain, to)
<1> DEFINE next == NextKeys(recs, s.at, from, to) \ s.chain
           k    == CHOOSE k \in next : TRUE
<1>1. CASE next = {}
  BY <1>1 DEF WalkStep
<1>2. CASE next # {}
  <2>1. k \in next
    BY <1>2
  <2>2. next \subseteq Tos(recs, to)
    BY NextKeysAreTos
  <2>3. WalkStep(recs, s, from, to) = [at |-> k, chain |-> s.chain \cup next]
    BY <1>2 DEF WalkStep
  <2> HIDE DEF next, k
  <2>4. QED
    BY <2>1, <2>2, <2>3 DEF WalkStates
<1>3. QED
  BY <1>1, <1>2

IsWalk(w, recs, key, chain, from, to) ==
  /\ w[0] = [at |-> key, chain |-> chain]
  /\ \A n \in 1 .. Len(recs) : w[n] = WalkStep(recs, w[n - 1], from, to)
  /\ Walk(recs, key, chain, from, to) = w[Len(recs)].chain

LEMMA WalkUnfolds ==
  ASSUME NEW D, NEW recs \in Seq(D), NEW key, NEW chain, NEW from, NEW to
  PROVE  \E w : IsWalk(w, recs, key, chain, from, to)
<1> DEFINE X == WalkStates(recs, key, chain, to)
           K == Len(recs)
           b == [at |-> key, chain |-> chain]
           s == [x \in X |-> WalkStep(recs, x, from, to)]
           walk[n \in 0 .. Len(recs)] ==
             IF n = 0 THEN [at |-> key, chain |-> chain] ELSE WalkStep(recs, walk[n - 1], from, to)
<1>1. Walk(recs, key, chain, from, to) = walk[Len(recs)].chain
  BY DEF Walk
<1>2. b \in X
  BY DEF WalkStates
<1>3. s \in [X -> X]
  BY WalkStepType
<1>4. \A x \in X : s[x] = WalkStep(recs, x, from, to)
  OBVIOUS
<1>5. K \in Nat
  OBVIOUS
<1>6. PICK f : Recurs(f, X, b, s, K)
  <2> HIDE DEF X, K, b, s, walk
  <2>1. QED
    BY <1>2, <1>3, <1>5, Recursion
<1> USE DEF Recurs
<1>7. \A n \in 0 .. K : f[n] = IF n = 0 THEN b ELSE s[f[n - 1]]
  BY <1>6
<1>8. \A n \in 1 .. K : f[n] = WalkStep(recs, f[n - 1], from, to) /\ n - 1 \in 0 .. K
  <2> HIDE DEF X, K, b, s, walk
  <2> SUFFICES ASSUME NEW n \in 1 .. K PROVE f[n] = WalkStep(recs, f[n - 1], from, to) /\ n - 1 \in 0 .. K
    OBVIOUS
  <2>1. n \in 0 .. K /\ n # 0 /\ n - 1 \in 0 .. K
    BY <1>5
  <2>2. f[n - 1] \in X
    BY <2>1, <1>6
  <2>3. QED
    BY <2>1, <2>2, <1>7, <1>4
<1>9. f = [n \in 0 .. Len(recs) |->
             IF n = 0 THEN [at |-> key, chain |-> chain] ELSE WalkStep(recs, f[n - 1], from, to)]
  <2> DEFINE g == [n \in 0 .. K |-> IF n = 0 THEN b ELSE WalkStep(recs, f[n - 1], from, to)]
  <2>1. \A n \in 0 .. K : g[n] = IF n = 0 THEN b ELSE WalkStep(recs, f[n - 1], from, to)
    OBVIOUS
  <2>2. g = [n \in 0 .. K |-> g[n]] /\ f = [n \in 0 .. K |-> f[n]]
    BY <1>6
  <2>3. \A n \in 0 .. K : f[n] = g[n]
    <3> HIDE DEF g, s, X, b, K, walk
    <3> SUFFICES ASSUME NEW n \in 0 .. K PROVE f[n] = g[n]
      OBVIOUS
    <3>1. n = 0 \/ n \in 1 .. K
      BY <1>5
    <3>2. QED
      BY <3>1, <2>1, <1>7, <1>8
  <2> HIDE DEF g
  <2>4. f = g
    BY <2>2, <2>3
  <2>5. QED
    BY <2>4 DEF g
<1>10. walk = [n \in 0 .. Len(recs) |->
                 IF n = 0 THEN [at |-> key, chain |-> chain] ELSE WalkStep(recs, walk[n - 1], from, to)]
  BY <1>9 DEF walk
<1>11. walk[0] = b /\ \A n \in 1 .. K : walk[n] = WalkStep(recs, walk[n - 1], from, to)
  <2>1. \A n \in 0 .. K : walk[n] = IF n = 0 THEN b ELSE WalkStep(recs, walk[n - 1], from, to)
    BY <1>10
  <2> HIDE DEF walk, b, K
  <2>2. QED
    BY <2>1, <1>5
<1> HIDE DEF walk
<1>12. IsWalk(walk, recs, key, chain, from, to)
  BY <1>1, <1>11 DEF IsWalk
<1>13. QED
  BY <1>12

LEMMA CountUpTo ==
  ASSUME NEW n \in Nat
  PROVE  IsFiniteSet(1 .. n) /\ Cardinality(1 .. n) = n
<1>1. 1 \in Int /\ n \in Int
  OBVIOUS
<1>2. IsFiniteSet(1 .. n) /\ Cardinality(1 .. n) = IF 1 > n THEN 0 ELSE n - 1 + 1
  BY <1>1, FS_Interval
<1>3. n = IF 1 > n THEN 0 ELSE n - 1 + 1
  OBVIOUS
<1>4. QED
  BY <1>2, <1>3

LEMMA TosAreFew ==
  ASSUME NEW D, NEW recs \in Seq(D), NEW to
  PROVE  IsFiniteSet(Tos(recs, to)) /\ Cardinality(Tos(recs, to)) <= Len(recs)
<1> DEFINE R == RecordsOf(recs, "succession")
           g == [i \in R |-> recs[i][to]]
<1>1. Len(recs) \in Nat /\ R \subseteq 1 .. Len(recs)
  BY DEF RecordsOf
<1>2. Tos(recs, to) = {g[i] : i \in R}
  BY DEF Tos
<1> HIDE DEF R, g
<1>3. IsFiniteSet(1 .. Len(recs)) /\ Cardinality(1 .. Len(recs)) = Len(recs)
  BY <1>1, CountUpTo
<1>4. IsFiniteSet(R) /\ Cardinality(R) <= Len(recs)
  BY <1>1, <1>3, FS_Subset
<1>5. IsFiniteSet(Tos(recs, to)) /\ Cardinality(Tos(recs, to)) <= Cardinality(R)
  BY <1>2, <1>4, ImageIsFinite
<1>6. Cardinality(R) \in Nat /\ Cardinality(Tos(recs, to)) \in Nat
  BY <1>4, <1>5, FS_CardinalityType
<1>7. QED
  BY <1>1, <1>4, <1>5, <1>6

Moves(recs, s, t, from, to) ==
  \/ t = s /\ NextKeys(recs, s.at, from, to) \subseteq s.chain
  \/ \E k \in NextKeys(recs, s.at, from, to) \ s.chain :
       t = [at |-> k, chain |-> s.chain \cup {k}]

LEMMA WalkStepMoves ==
  ASSUME NEW D, NEW recs \in Seq(D), NEW from, NEW to, NEW s
  PROVE  Moves(recs, s, WalkStep(recs, s, from, to), from, to)
<1> DEFINE next == NextKeys(recs, s.at, from, to) \ s.chain
           k    == CHOOSE k \in next : TRUE
<1>1. CASE next = {}
  BY <1>1 DEF WalkStep, Moves
<1>2. CASE next # {}
  <2>1. k \in next
    BY <1>2
  <2>2. next = {k}
    BY <2>1, OneNextKey
  <2>3. WalkStep(recs, s, from, to) = [at |-> k, chain |-> s.chain \cup next]
    BY <1>2 DEF WalkStep
  <2> HIDE DEF k
  <2>4. QED
    BY <2>1, <2>2, <2>3 DEF Moves
<1>3. QED
  BY <1>1, <1>2

EndOfWalk(s, recs, key, chain, from, to) ==
  /\ Walk(recs, key, chain, from, to) = s.chain
  /\ NextKeys(recs, s.at, from, to) \subseteq s.chain

\* What holds of the start of a walk and is kept by its steps holds at its end, and
\* there is no way on from there.
LEMMA WalkEnds ==
  ASSUME NEW D, NEW recs \in Seq(D), NEW key, NEW chain, NEW from, NEW to, NEW Y,
         [at |-> key, chain |-> chain] \in Y,
         \A s \in Y : WalkStep(recs, s, from, to) \in Y
  PROVE  \E s \in Y : EndOfWalk(s, recs, key, chain, from, to)
<1> DEFINE T == Tos(recs, to)
           K == Len(recs)
           Stalled(s) == NextKeys(recs, s.at, from, to) \subseteq s.chain
<1>1. PICK w : IsWalk(w, recs, key, chain, from, to)
  BY WalkUnfolds
<1> USE DEF IsWalk
<1> DEFINE a == [n \in 0 .. K |-> w[n].chain \ chain]
           Stop == {n \in 0 .. K : Stalled(w[n])}
<1>2. K \in Nat
  OBVIOUS
<1>3. \A n \in 0 .. K : w[n] \in Y
  <2>1. w[0] \in Y
    BY <1>1
  <2>2. \A n \in 1 .. K : w[n - 1] \in Y => w[n] \in Y
    BY <1>1
  <2> HIDE DEF K
  <2>3. QED
    BY <2>1, <2>2, <1>2, Stays
\* Every step adds a key that a succession leads to, until the walk stalls.
<1>4. ASSUME NEW n \in 1 .. K
      PROVE  \/ w[n] = w[n - 1] /\ Stalled(w[n - 1])
             \/ ~Stalled(w[n - 1]) /\ \E k \in T \ w[n - 1].chain : w[n].chain = w[n - 1].chain \cup {k}
  <2> DEFINE s == w[n - 1]
  <2>1. w[n] = WalkStep(recs, s, from, to)
    BY <1>1
  <2>2. NextKeys(recs, s.at, from, to) \subseteq T
    BY NextKeysAreTos
  <2> HIDE DEF K, T, s
  <2>3. Moves(recs, s, w[n], from, to)
    BY <2>1, WalkStepMoves
  <2>4. ASSUME NEW k \in NextKeys(recs, s.at, from, to) \ s.chain,
               w[n] = [at |-> k, chain |-> s.chain \cup {k}]
        PROVE  k \in T \ s.chain /\ w[n].chain = s.chain \cup {k} /\ ~Stalled(s)
    BY <2>2, <2>4
  <2>5. QED
    BY <2>3, <2>4 DEF s, Moves
<1>5. \A n \in 0 .. K : chain \subseteq w[n].chain /\ w[n].chain \subseteq chain \cup T
  <2> DEFINE f == [n \in 0 .. K |-> w[n].chain]
             X == {c \in SUBSET (chain \cup T) : chain \subseteq c}
  <2>1. f[0] \in X
    BY <1>1, <1>2
  <2>2. ASSUME NEW n \in 1 .. K, f[n - 1] \in X
        PROVE  f[n] \in X
    <3>1. f[n] = w[n].chain /\ f[n - 1] = w[n - 1].chain
      BY <1>2
    <3>2. QED
      BY <2>2, <3>1, <1>4
  <2> HIDE DEF f, X, K
  <2>3. \A n \in 0 .. K : f[n] \in X
    BY <2>1, <2>2, <1>2, Stays
  <2>4. QED
    BY <2>3 DEF f, X
<1>6. \A n \in 0 .. K : a[n] \subseteq T
  BY <1>5
<1>7. ASSUME NEW n \in Nat, n < K
      PROVE  IF n \in Stop THEN n + 1 \in Stop ELSE a[n] \subseteq a[n + 1] /\ a[n] # a[n + 1]
  <2>1. n + 1 \in 1 .. K /\ (n + 1) - 1 = n /\ n \in 0 .. K /\ n + 1 \in 0 .. K
    BY <1>2, <1>7
  <2>2. \/ w[n + 1] = w[n] /\ Stalled(w[n])
        \/ ~Stalled(w[n]) /\ \E k \in T \ w[n].chain : w[n + 1].chain = w[n].chain \cup {k}
    BY <1>4, <2>1
  <2>3. CASE w[n + 1] = w[n] /\ Stalled(w[n])
    BY <2>1, <2>3
  <2>4. ASSUME NEW k \in T \ w[n].chain, w[n + 1].chain = w[n].chain \cup {k}
        PROVE  a[n] \subseteq a[n + 1] /\ a[n] # a[n + 1]
    <3>1. k \notin chain /\ a[n] = w[n].chain \ chain /\ a[n + 1] = w[n + 1].chain \ chain
      BY <1>5, <2>1, <2>4
    <3> HIDE DEF a
    <3>2. QED
      BY <2>4, <3>1
  <2>5. n \in Stop <=> Stalled(w[n])
    BY <2>1
  <2>6. n + 1 \in Stop <=> Stalled(w[n + 1])
    BY <2>1
  <2>7. CASE n \in Stop
    BY <2>2, <2>5, <2>6, <2>7
  <2>8. CASE n \notin Stop
    <3>1. \E k \in T \ w[n].chain : w[n + 1].chain = w[n].chain \cup {k}
      BY <2>2, <2>5, <2>8
    <3> HIDE DEF a, Stop, T, K
    <3>2. QED
      BY <2>4, <2>8, <3>1
  <2>9. QED
    BY <2>7, <2>8
<1>8. K \in Stop \/ a[K] = T
  <2>1. IsFiniteSet(T) /\ Cardinality(T) <= K
    BY TosAreFew
  <2> HIDE DEF a, Stop, T, K
  <2>2. QED
    BY <2>1, <1>2, <1>6, <1>7, GrowthEnds
<1>9. Stalled(w[K])
  BY <1>2, <1>8, NextKeysAreTos
<1>10. w[K] \in Y /\ EndOfWalk(w[K], recs, key, chain, from, to)
  BY <1>1, <1>2, <1>3, <1>9 DEF EndOfWalk
<1>11. QED
  BY <1>10

LEMMA SomeGreatest ==
  ASSUME NEW n \in Nat, NEW S \in SUBSET (1 .. n), S # {}
  PROVE  \E m \in S : \A k \in S : k <= m
<1> DEFINE T == {n - k : k \in S}
<1>1. T \in SUBSET Nat /\ T # {}
  <2>1. \A k \in S : n - k \in Nat
    OBVIOUS
  <2>2. PICK k \in S : TRUE
    OBVIOUS
  <2>3. n - k \in T
    OBVIOUS
  <2>4. QED
    BY <2>1, <2>3
<1>2. PICK t \in T : \A k \in T : t <= k
  <2> HIDE DEF T
  <2>1. QED
    BY <1>1, SomeLeast
<1>3. PICK m \in S : t = n - m
  BY <1>2
<1>4. ASSUME NEW k \in S
      PROVE  k <= m
  <2>1. n - m <= n - k
    BY <1>2, <1>3
  <2>2. QED
    BY <2>1
<1>5. QED
  BY <1>4

\* When all successions from a key lead to the same one, that is where the walk goes.
LEMMA NextKeysFollow ==
  ASSUME NEW D, NEW recs \in Seq(D), NEW from, NEW to, NEW i \in RecordsOf(recs, "succession"),
         \A j \in RecordsOf(recs, "succession") :
           recs[j][from] = recs[i][from] => recs[j][to] = recs[i][to]
  PROVE  recs[i][to] \in NextKeys(recs, recs[i][from], from, to)
<1> DEFINE hits == {j \in RecordsOf(recs, "succession") : recs[j][from] = recs[i][from]}
<1>1. hits \subseteq 1 .. Len(recs) /\ i \in hits /\ Len(recs) \in Nat
  BY DEF RecordsOf
<1> HIDE DEF hits
<1>2. PICK m \in hits : \A k \in hits : k <= m
  BY <1>1, SomeGreatest
<1>3. recs[m][to] = recs[i][to]
  BY <1>2 DEF hits
<1>4. recs[m][to] \in NextKeys(recs, recs[i][from], from, to)
  BY <1>2 DEF NextKeys, hits
<1>5. QED
  BY <1>3, <1>4

Follows(recs) == {<<recs[i].predecessor, recs[i].successor>> : i \in RecordsOf(recs, "succession")}

BothWays(F) == F \cup {<<e[2], e[1]>> : e \in F}

\* When no key has two successors or two predecessors, the walk from a key, first to
\* earlier keys and then to later ones, ends with all that the successions connect with
\* it: it visits no key twice, so it can only stop where there is no succession left or
\* where it has come full circle.
THEOREM LineageConnects ==
  ASSUME NEW D, NEW recs \in Seq(D), NEW key,
         \A e, f \in Follows(recs) : (e[1] = f[1]) <=> (e[2] = f[2])
  PROVE  Lineage(recs, key) = Reachable(BothWays(Follows(recs)), {key})
<1> DEFINE F == Follows(recs)
           E == BothWays(F)
           R == Reachable(E, {key})
           Earlier(k) == NextKeys(recs, k, "successor", "predecessor")
           Later_(k)  == NextKeys(recs, k, "predecessor", "successor")
           back == Walk(recs, key, {key}, "successor", "predecessor")
           forth == Walk(recs, key, back, "predecessor", "successor")
<1>1. \A k, l : <<k, l>> \in F <=> l \in Later_(k)
  <2>1. ASSUME NEW k, NEW l, <<k, l>> \in F
        PROVE  l \in Later_(k)
    <3>1. PICK i \in RecordsOf(recs, "succession") : recs[i].predecessor = k /\ recs[i].successor = l
      BY <2>1 DEF Follows
    <3>2. \A j \in RecordsOf(recs, "succession") :
            recs[j].predecessor = recs[i].predecessor => recs[j].successor = recs[i].successor
      <4> SUFFICES ASSUME NEW j \in RecordsOf(recs, "succession")
                   PROVE  recs[j].predecessor = recs[i].predecessor => recs[j].successor = recs[i].successor
        OBVIOUS
      <4>1. <<recs[j].predecessor, recs[j].successor>> \in F /\ <<recs[i].predecessor, recs[i].successor>> \in F
        BY DEF Follows
      <4>2. QED
        BY <4>1
    <3>3. recs[i].successor \in NextKeys(recs, recs[i].predecessor, "predecessor", "successor")
      BY <3>2, NextKeysFollow
    <3>4. QED
      BY <3>1, <3>3
  <2>2. ASSUME NEW k, NEW l, l \in Later_(k)
        PROVE  <<k, l>> \in F
    BY <2>2 DEF NextKeys, Follows
  <2>3. QED
    BY <2>1, <2>2
<1>2. \A k, l : <<k, l>> \in F <=> k \in Earlier(l)
  <2>1. ASSUME NEW k, NEW l, <<k, l>> \in F
        PROVE  k \in Earlier(l)
    <3>1. PICK i \in RecordsOf(recs, "succession") : recs[i].predecessor = k /\ recs[i].successor = l
      BY <2>1 DEF Follows
    <3>2. \A j \in RecordsOf(recs, "succession") :
            recs[j].successor = recs[i].successor => recs[j].predecessor = recs[i].predecessor
      <4> SUFFICES ASSUME NEW j \in RecordsOf(recs, "succession")
                   PROVE  recs[j].successor = recs[i].successor => recs[j].predecessor = recs[i].predecessor
        OBVIOUS
      <4>1. <<recs[j].predecessor, recs[j].successor>> \in F /\ <<recs[i].predecessor, recs[i].successor>> \in F
        BY DEF Follows
      <4>2. QED
        BY <4>1
    <3>3. recs[i].predecessor \in NextKeys(recs, recs[i].successor, "successor", "predecessor")
      BY <3>2, NextKeysFollow
    <3>4. QED
      BY <3>1, <3>3
  <2>2. ASSUME NEW k, NEW l, k \in Earlier(l)
        PROVE  <<k, l>> \in F
    BY <2>2 DEF NextKeys, Follows
  <2>3. QED
    BY <2>1, <2>2
<1>3. /\ \A k, l, m : <<k, l>> \in F /\ <<k, m>> \in F => l = m
      /\ \A k, l, m : <<l, k>> \in F /\ <<m, k>> \in F => l = m
  OBVIOUS
<1>4. \A k, l : <<k, l>> \in F => (k \in R <=> l \in R)
  <2> SUFFICES ASSUME NEW k, NEW l, <<k, l>> \in F
               PROVE  k \in R <=> l \in R
    OBVIOUS
  <2>1. <<k, l>> \in E /\ <<l, k>> \in E
    <3>1. <<l, k>> = <<<<k, l>>[2], <<k, l>>[1]>>
      OBVIOUS
    <3>2. QED
      BY <3>1 DEF BothWays
  <2> HIDE DEF E
  <2>2. QED
    BY <2>1, ReachableClosed
<1>5. key \in R /\ R \subseteq {key} \cup Ends(E)
  BY DEF Reachable
<1> HIDE DEF F, E, R
\* The walk back ends with all that is earlier; what is later is in it too, except
\* that the key itself may have a successor.
<1>6. /\ key \in back /\ back \subseteq R
      /\ \A k, l : <<k, l>> \in F /\ l \in back => k \in back
      /\ \A k, l : <<k, l>> \in F /\ k \in back /\ k # key => l \in back
  <2> DEFINE Y == {s \in [at : R, chain : SUBSET R] :
                     /\ s.at \in s.chain /\ key \in s.chain
                     /\ \A k, l : <<k, l>> \in F /\ l \in s.chain /\ l # s.at => k \in s.chain
                     /\ \A k, l : <<k, l>> \in F /\ k \in s.chain /\ k # key => l \in s.chain}
  <2>1. [at |-> key, chain |-> {key}] \in Y
    BY <1>5
  <2>2. ASSUME NEW s \in Y
        PROVE  WalkStep(recs, s, "successor", "predecessor") \in Y
    <3> DEFINE t == WalkStep(recs, s, "successor", "predecessor")
    <3>1. Moves(recs, s, t, "successor", "predecessor")
      BY WalkStepMoves
    <3> HIDE DEF t
    <3>2. ASSUME NEW p \in Earlier(s.at) \ s.chain, t = [at |-> p, chain |-> s.chain \cup {p}]
          PROVE  t \in Y
      <4>1. <<p, s.at>> \in F
        BY <1>2, <3>2
      <4>2. p \in R
        BY <4>1, <1>4
      <4>3. t.at = p /\ t.chain = s.chain \cup {p} /\ t \in [at : R, chain : SUBSET R]
        BY <3>2, <4>2
      <4>4. \A k, l : <<k, l>> \in F /\ l \in t.chain /\ l # t.at => k \in t.chain
        BY <4>1, <4>3, <1>3
      <4>5. \A k, l : <<k, l>> \in F /\ k \in t.chain /\ k # key => l \in t.chain
        BY <4>1, <4>3, <1>3
      <4>6. QED
        BY <4>3, <4>4, <4>5
    <3>3. QED
      BY <3>1, <3>2 DEF Moves, t
  <2> HIDE DEF Y
  <2>3. PICK s \in Y : EndOfWalk(s, recs, key, {key}, "successor", "predecessor")
    <3>1. \A s \in Y : WalkStep(recs, s, "successor", "predecessor") \in Y
      BY <2>2
    <3>2. QED
      BY <2>1, <3>1, WalkEnds
  <2>4. back = s.chain /\ \A k : <<k, s.at>> \in F => k \in s.chain
    BY <2>3, <1>2 DEF EndOfWalk
  <2> HIDE DEF back
  <2>5. QED
    BY <2>4 DEF Y
<1> HIDE DEF back
<1>7. /\ key \in forth /\ forth \subseteq R
      /\ \A k, l : <<k, l>> \in F /\ l \in forth => k \in forth
      /\ \A k, l : <<k, l>> \in F /\ k \in forth => l \in forth
  <2> DEFINE Y == {s \in [at : R, chain : SUBSET R] :
                     /\ s.at \in s.chain /\ key \in s.chain
                     /\ \A k, l : <<k, l>> \in F /\ l \in s.chain => k \in s.chain
                     /\ \A k, l : <<k, l>> \in F /\ k \in s.chain /\ k # s.at => l \in s.chain}
  <2>1. [at |-> key, chain |-> back] \in Y
    BY <1>5, <1>6
  <2>2. ASSUME NEW s \in Y
        PROVE  WalkStep(recs, s, "predecessor", "successor") \in Y
    <3> DEFINE t == WalkStep(recs, s, "predecessor", "successor")
    <3>1. Moves(recs, s, t, "predecessor", "successor")
      BY WalkStepMoves
    <3> HIDE DEF t
    <3>2. ASSUME NEW q \in Later_(s.at) \ s.chain, t = [at |-> q, chain |-> s.chain \cup {q}]
          PROVE  t \in Y
      <4>1. <<s.at, q>> \in F
        BY <1>1, <3>2
      <4>2. q \in R
        BY <4>1, <1>4
      <4>3. t.at = q /\ t.chain = s.chain \cup {q} /\ t \in [at : R, chain : SUBSET R]
        BY <3>2, <4>2
      <4>4. \A k, l : <<k, l>> \in F /\ l \in t.chain => k \in t.chain
        BY <4>1, <4>3, <1>3
      <4>5. \A k, l : <<k, l>> \in F /\ k \in t.chain /\ k # t.at => l \in t.chain
        BY <4>1, <4>3, <1>3
      <4>6. QED
        BY <4>3, <4>4, <4>5
    <3>3. QED
      BY <3>1, <3>2 DEF Moves, t
  <2> HIDE DEF Y
  <2>3. PICK s \in Y : EndOfWalk(s, recs, key, back, "predecessor", "successor")
    <3>1. \A s \in Y : WalkStep(recs, s, "predecessor", "successor") \in Y
      BY <2>2
    <3>2. QED
      BY <2>1, <3>1, WalkEnds
  <2>4. forth = s.chain /\ \A l : <<s.at, l>> \in F => l \in s.chain
    BY <2>3, <1>1 DEF EndOfWalk
  <2> HIDE DEF forth
  <2>5. QED
    BY <2>4 DEF Y
<1>8. Lineage(recs, key) = forth
  BY DEF Lineage, back
<1> HIDE DEF forth
<1>9. ClosedUnder(E, forth)
  <2>1. ASSUME NEW e \in E, e[1] \in forth
        PROVE  e[2] \in forth
    <3>1. F \in SUBSET {<<e1, e2>> : e1 \in Ends(F), e2 \in Ends(F)}
      BY DEF F, Follows, Ends
    <3>2. CASE e \in F
      BY <3>1, <3>2, <2>1, <1>7
    <3>3. ASSUME NEW f \in F, e = <<f[2], f[1]>>
          PROVE  e[2] \in forth
      <4>1. f = <<f[1], f[2]>>
        BY <3>1
      <4>2. QED
        BY <4>1, <3>3, <2>1, <1>7
    <3>4. QED
      BY <3>2, <3>3 DEF E, BothWays
  <2>2. QED
    BY <2>1 DEF ClosedUnder
<1>10. R \subseteq forth
  <2>1. forth \in SUBSET ({key} \cup Ends(E))
    BY <1>5, <1>7
  <2>2. QED
    BY <2>1, <1>7, <1>9 DEF R, Reachable
<1>11. QED
  BY <1>7, <1>8, <1>10 DEF R, E, F

-----------------------------------------------------------------------------
(***************************************************************************)
(* The search for a cycle.  Its records E are a function from positions; a   *)
(* state has the path from the root to the concept it is at, the concepts    *)
(* that it is done with (black), and those that it is in (grey).             *)
(***************************************************************************)
Pairs(E) == {<<E[i].about, E[i].entry>> : i \in DOMAIN E}

Abouts(E) == {E[i].about : i \in DOMAIN E}

Nodes(E) == Abouts(E) \cup {E[i].entry : i \in DOMAIN E}

SearchStates(E) == [root : SUBSET Nodes(E), path : Seq(DOMAIN E), tried : SUBSET DOMAIN E,
                    black : SUBSET Nodes(E), found : SUBSET DOMAIN E]

Fresh(E, s) == {i \in DOMAIN E : E[i].about \notin s.black}

Untried(E, s) == {i \in DOMAIN E : E[i].about \in TopOf(E, s)} \ s.tried

Halted(E, s) == s.found # {} \/ (s.root = {} /\ Fresh(E, s) = {})

LEMMA FirstOfIsOne ==
  ASSUME NEW S \in SUBSET Nat, S # {}
  PROVE  FirstOf(S) \in S
BY SomeLeast DEF FirstOf

Begins(E, s, t) ==
  /\ s.root = {}
  /\ \E i \in Fresh(E, s) : t = [s EXCEPT !.root = {E[i].about}]

LeavesRoot(E, s, t) ==
  /\ s.root # {} /\ Untried(E, s) = {} /\ s.path = <<>>
  /\ t = [s EXCEPT !.black = s.black \cup TopOf(E, s), !.root = {}]

LeavesTop(E, s, t) ==
  /\ s.root # {} /\ Untried(E, s) = {} /\ s.path # <<>>
  /\ t = [s EXCEPT !.black = s.black \cup TopOf(E, s),
                   !.path  = SubSeq(s.path, 1, Len(s.path) - 1)]

\* The record i leads to a concept that the search is in, is done with, or has not seen.
Closes(E, s, t, i) ==
  /\ E[i].entry \in Grey(E, s)
  /\ t = [s EXCEPT !.tried = s.tried \cup {i},
                   !.found = {s.path[j] : j \in DOMAIN s.path} \cup {i}]

Passes(E, s, t, i) ==
  /\ E[i].entry \in s.black /\ E[i].entry \notin Grey(E, s)
  /\ t = [s EXCEPT !.tried = s.tried \cup {i}]

Enters(E, s, t, i) ==
  /\ E[i].entry \notin Grey(E, s) \cup s.black
  /\ t = [s EXCEPT !.tried = s.tried \cup {i}, !.path = Append(s.path, i)]

Tries(E, s, t) ==
  /\ s.root # {}
  /\ \E i \in Untried(E, s) : Closes(E, s, t, i) \/ Passes(E, s, t, i) \/ Enters(E, s, t, i)

SearchGoes(E, s, t) ==
  \/ Halted(E, s) /\ t = s
  \/ /\ ~Halted(E, s)
     /\ Begins(E, s, t) \/ LeavesRoot(E, s, t) \/ LeavesTop(E, s, t) \/ Tries(E, s, t)

LEMMA SearchStepGoes ==
  ASSUME NEW E, DOMAIN E \in SUBSET Nat, NEW s \in SearchStates(E)
  PROVE  SearchGoes(E, s, SearchStep(E, s))
<1> DEFINE fresh   == {i \in DOMAIN E : E[i].about \notin s.black}
           untried == {i \in DOMAIN E : E[i].about \in TopOf(E, s)} \ s.tried
           i == FirstOf(untried)
           t == SearchStep(E, s)
<1>1. CASE s.found # {} \/ (s.root = {} /\ fresh = {})
  <2>1. t = s
    BY <1>1 DEF SearchStep
  <2>2. Halted(E, s)
    BY <1>1 DEF Halted, Fresh
  <2>3. QED
    BY <2>1, <2>2 DEF SearchGoes
<1>2. CASE s.found = {} /\ s.root = {} /\ fresh # {}
  <2>1. t = [s EXCEPT !.root = {E[FirstOf(fresh)].about}]
    BY <1>2 DEF SearchStep
  <2>2. FirstOf(fresh) \in fresh
    BY <1>2, FirstOfIsOne
  <2>3. Begins(E, s, t) /\ ~Halted(E, s)
    BY <1>2, <2>1, <2>2 DEF Begins, Halted, Fresh
  <2>4. QED
    BY <2>3 DEF SearchGoes
<1>3. CASE s.found = {} /\ s.root # {} /\ untried = {}
  <2>1. t = [s EXCEPT !.black = @ \cup TopOf(E, s),
                      !.root  = IF s.path = <<>> THEN {} ELSE @,
                      !.path  = IF @ = <<>> THEN @ ELSE SubSeq(@, 1, Len(@) - 1)]
    BY <1>3 DEF SearchStep
  <2>2. CASE s.path = <<>>
    <3>1. t = [s EXCEPT !.black = s.black \cup TopOf(E, s), !.root = {}]
      BY <2>1, <2>2 DEF SearchStates
    <3>2. LeavesRoot(E, s, t) /\ ~Halted(E, s)
      BY <1>3, <2>2, <3>1 DEF LeavesRoot, Halted, Untried
    <3>3. QED
      BY <3>2 DEF SearchGoes
  <2>3. CASE s.path # <<>>
    <3>1. t = [s EXCEPT !.black = s.black \cup TopOf(E, s),
                        !.path  = SubSeq(s.path, 1, Len(s.path) - 1)]
      BY <2>1, <2>3 DEF SearchStates
    <3>2. LeavesTop(E, s, t) /\ ~Halted(E, s)
      BY <1>3, <2>3, <3>1 DEF LeavesTop, Halted, Untried
    <3>3. QED
      BY <3>2 DEF SearchGoes
  <2>4. QED
    BY <2>2, <2>3
<1>4. CASE s.found = {} /\ s.root # {} /\ untried # {}
  <2>1. t = [s EXCEPT !.tried = @ \cup {i},
                      !.path  = IF E[i].entry \in Grey(E, s) \cup s.black THEN @ ELSE Append(@, i),
                      !.found = IF E[i].entry \in Grey(E, s)
                                THEN {s.path[j] : j \in DOMAIN s.path} \cup {i} ELSE @]
    BY <1>4 DEF SearchStep
  <2>2. i \in untried
    BY <1>4, FirstOfIsOne
  <2>3. i \in Untried(E, s) /\ ~Halted(E, s)
    BY <1>4, <2>2 DEF Untried, Halted
  <2> HIDE DEF i
  <2>4. Closes(E, s, t, i) \/ Passes(E, s, t, i) \/ Enters(E, s, t, i)
    <3>1. CASE E[i].entry \in Grey(E, s)
      BY <2>1, <3>1 DEF SearchStates, Closes
    <3>2. CASE E[i].entry \notin Grey(E, s) /\ E[i].entry \in s.black
      BY <2>1, <3>2 DEF SearchStates, Passes
    <3>3. CASE E[i].entry \notin Grey(E, s) /\ E[i].entry \notin s.black
      BY <2>1, <3>3 DEF SearchStates, Enters
    <3>4. QED
      BY <3>1, <3>2, <3>3
  <2>5. Tries(E, s, t)
    BY <1>4, <2>3, <2>4 DEF Tries
  <2>6. QED
    BY <2>3, <2>5 DEF SearchGoes
<1>5. QED
  BY <1>1, <1>2, <1>3, <1>4

-----------------------------------------------------------------------------
\* The concepts that the search is in: the root, and those its path leads to.
Node(E, s, k) == IF k = 0 THEN CHOOSE r : s.root = {r} ELSE E[s.path[k]].entry

NoCycleIn(E, S) == \A C \in SUBSET S : C # {} => \E n \in C : \A m \in C : <<n, m>> \notin Pairs(E)

PathOK(E, s) ==
  /\ s.root = {} => s.path = <<>>
  /\ s.root # {} => /\ s.root = {Node(E, s, 0)}
                    /\ Node(E, s, 0) \in Abouts(E)
                    /\ \A k \in 1 .. Len(s.path) : E[s.path[k]].about = Node(E, s, k - 1)
                    /\ \A k \in 0 .. Len(s.path) : Node(E, s, k) \notin s.black
                    /\ \A j, k \in 0 .. Len(s.path) : Node(E, s, j) = Node(E, s, k) => j = k

\* What was tried leads to what the search is done with, except along the path.
TriedOK(E, s) ==
  \A i \in s.tried :
    \/ E[i].about \in s.black
    \/ /\ s.root # {}
       /\ \E k \in 0 .. Len(s.path) :
            /\ E[i].about = Node(E, s, k)
            /\ E[i].entry \in s.black \/ (k < Len(s.path) /\ E[i].entry = Node(E, s, k + 1))

BlackOK(E, s) ==
  /\ \A i \in DOMAIN E : E[i].about \in s.black => E[i].entry \in s.black
  /\ NoCycleIn(E, s.black)

SearchInv(E, s) ==
  /\ s \in SearchStates(E)
  /\ s.found # {} => HasCycle(Pairs(E))
  /\ s.found = {} => PathOK(E, s) /\ TriedOK(E, s) /\ BlackOK(E, s)


LEMMA GreyIs ==
  ASSUME NEW E, NEW s \in SearchStates(E), s.root = {Node(E, s, 0)}
  PROVE  /\ TopOf(E, s) = {Node(E, s, Len(s.path))}
         /\ Grey(E, s) = {Node(E, s, k) : k \in 0 .. Len(s.path)}
         /\ Len(s.path) \in Nat /\ DOMAIN s.path = 1 .. Len(s.path)
         /\ \A k \in 1 .. Len(s.path) : s.path[k] \in DOMAIN E
<1>1. /\ Len(s.path) \in Nat /\ DOMAIN s.path = 1 .. Len(s.path)
      /\ \A k \in 1 .. Len(s.path) : s.path[k] \in DOMAIN E
      /\ s.path = <<>> <=> Len(s.path) = 0
  BY DEF SearchStates
<1>2. \A k \in 1 .. Len(s.path) : Node(E, s, k) = E[s.path[k]].entry
  BY <1>1 DEF Node
<1>3. TopOf(E, s) = {Node(E, s, Len(s.path))}
  <2>1. CASE s.path = <<>>
    BY <1>1, <2>1 DEF TopOf
  <2>2. CASE s.path # <<>>
    BY <1>1, <1>2, <2>2 DEF TopOf
  <2>3. QED
    BY <2>1, <2>2
<1>4. ASSUME NEW n
      PROVE  n \in Grey(E, s) <=> \E k \in 0 .. Len(s.path) : n = Node(E, s, k)
  <2>1. n \in Grey(E, s) <=> n = Node(E, s, 0) \/ \E k \in 1 .. Len(s.path) : n = Node(E, s, k)
    <3>1. n \in Grey(E, s) <=> n \in s.root \/ \E k \in DOMAIN s.path : n = E[s.path[k]].entry
      BY DEF Grey
    <3>2. QED
      BY <3>1, <1>1, <1>2
  <2>2. \A k : k \in 0 .. Len(s.path) <=> k = 0 \/ k \in 1 .. Len(s.path)
    BY <1>1
  <2>3. QED
    BY <2>1, <2>2
<1>5. QED
  BY <1>1, <1>3, <1>4

\* A record that leads back into the path closes a cycle.
LEMMA ClosesACycle ==
  ASSUME NEW E, NEW s \in SearchStates(E), PathOK(E, s), s.root # {},
         NEW i \in Untried(E, s), E[i].entry \in Grey(E, s)
  PROVE  HasCycle(Pairs(E))
<1> DEFINE L == Len(s.path)
           N(k) == Node(E, s, k)
<1>1. s.root = {N(0)} /\ \A k \in 1 .. L : E[s.path[k]].about = N(k - 1)
  BY DEF PathOK
<1>2. /\ TopOf(E, s) = {N(L)}
      /\ Grey(E, s) = {N(k) : k \in 0 .. L}
      /\ L \in Nat
      /\ \A k \in 1 .. L : s.path[k] \in DOMAIN E
  BY <1>1, GreyIs
<1>3. PICK p \in 0 .. L : E[i].entry = N(p)
  BY <1>2
<1>4. i \in DOMAIN E /\ E[i].about = N(L)
  BY <1>2 DEF Untried
<1> DEFINE C == {N(k) : k \in p .. L}
<1>5. \A k \in 1 .. L : N(k) = E[s.path[k]].entry
  BY <1>2 DEF Node
<1>6. ASSUME NEW k \in 1 .. L
      PROVE  <<N(k - 1), N(k)>> \in Pairs(E)
  BY <1>1, <1>2, <1>5 DEF Pairs
<1>7. <<N(L), N(p)>> \in Pairs(E)
  BY <1>3, <1>4 DEF Pairs
<1> HIDE DEF L, N
<1>8. ASSUME NEW k \in p .. L
      PROVE  \E m \in C : <<N(k), m>> \in Pairs(E)
  <2>1. CASE k = L
    <3>1. p \in p .. L
      BY <1>2
    <3>2. QED
      BY <2>1, <3>1, <1>7
  <2>2. CASE k # L
    <3>1. k + 1 \in p .. L /\ k + 1 \in 1 .. L /\ (k + 1) - 1 = k
      BY <1>2, <2>2
    <3>2. QED
      BY <3>1, <1>6
  <2>3. QED
    BY <2>1, <2>2
<1>9. C \in SUBSET Ends(Pairs(E))
  <2> SUFFICES ASSUME NEW k \in p .. L
               PROVE  N(k) \in Ends(Pairs(E))
    OBVIOUS
  <2>1. PICK m \in C : <<N(k), m>> \in Pairs(E)
    BY <1>8
  <2>2. <<N(k), m>>[1] \in Ends(Pairs(E))
    BY <2>1 DEF Ends
  <2>3. QED
    BY <2>2
<1>10. C # {} /\ \A n \in C : \E m \in C : <<n, m>> \in Pairs(E)
  <2>1. p \in p .. L
    BY <1>2
  <2>2. QED
    BY <2>1, <1>8
<1>11. QED
  BY <1>9, <1>10 DEF HasCycle

LEMMA BeginsKeeps ==
  ASSUME NEW E, NEW s, SearchInv(E, s), s.found = {}, NEW t, Begins(E, s, t)
  PROVE  SearchInv(E, t)
<1>1. s \in SearchStates(E) /\ PathOK(E, s) /\ TriedOK(E, s) /\ BlackOK(E, s)
  BY DEF SearchInv
<1>2. PICK i \in Fresh(E, s) : t = [s EXCEPT !.root = {E[i].about}]
  BY DEF Begins
<1>3. i \in DOMAIN E /\ E[i].about \in Nodes(E) /\ E[i].about \in Abouts(E) /\ E[i].about \notin s.black
  BY DEF Fresh, Nodes, Abouts
<1>4. s.root = {} /\ s.path = <<>>
  BY <1>1 DEF Begins, PathOK
<1>5. /\ t \in SearchStates(E)
      /\ t.root = {E[i].about} /\ t.path = <<>> /\ t.tried = s.tried
      /\ t.black = s.black /\ t.found = {}
  BY <1>1, <1>2, <1>3, <1>4 DEF SearchStates
<1>6. Node(E, t, 0) = E[i].about
  BY <1>5 DEF Node
<1>7. PathOK(E, t)
  <2>1. Len(t.path) = 0
    BY <1>5
  <2>2. QED
    BY <1>3, <1>5, <1>6, <2>1 DEF PathOK
<1>8. TriedOK(E, t)
  BY <1>1, <1>4, <1>5 DEF TriedOK
<1>9. BlackOK(E, t)
  BY <1>1, <1>5 DEF BlackOK
<1>10. QED
  BY <1>5, <1>7, <1>8, <1>9 DEF SearchInv


\* What leads only to concepts done with can be done with too.
LEMMA BlackGrows ==
  ASSUME NEW E, NEW s, BlackOK(E, s), NEW n, n \notin s.black,
         \A i \in DOMAIN E : E[i].about = n => E[i].entry \in s.black,
         NEW t, t.black = s.black \cup {n}
  PROVE  BlackOK(E, t)
<1>1. \A i \in DOMAIN E : E[i].about \in t.black => E[i].entry \in t.black
  BY DEF BlackOK
<1>2. ASSUME NEW C \in SUBSET t.black, \A x \in C : \E m \in C : <<x, m>> \in Pairs(E)
      PROVE  C = {}
  <2>1. \A x, m : <<x, m>> \in Pairs(E) => \E i \in DOMAIN E : E[i].about = x /\ E[i].entry = m
    BY DEF Pairs
  <2>2. \A x, m : <<x, m>> \in Pairs(E) /\ x \in t.black => m \in s.black
    BY <2>1 DEF BlackOK
  <2> DEFINE B == C \ {n}
  <2>3. B \subseteq s.black
    OBVIOUS
  <2>4. \A x \in C : \E m \in B : <<x, m>> \in Pairs(E)
    <3> SUFFICES ASSUME NEW x \in C
                 PROVE  \E m \in B : <<x, m>> \in Pairs(E)
      OBVIOUS
    <3>1. PICK m \in C : <<x, m>> \in Pairs(E)
      BY <1>2
    <3>2. m \in s.black
      BY <2>2, <3>1
    <3>3. QED
      BY <3>1, <3>2
  <2>5. B = {}
    BY <2>3, <2>4 DEF BlackOK, NoCycleIn
  <2>6. QED
    BY <2>4, <2>5
<1>3. NoCycleIn(E, t.black)
  BY <1>2 DEF NoCycleIn
<1>4. QED
  BY <1>1, <1>3 DEF BlackOK

\* When all that the concept the search is at leads to has been tried, it leads only
\* to concepts done with.
LEMMA TopIsDone ==
  ASSUME NEW E, NEW s \in SearchStates(E), PathOK(E, s), TriedOK(E, s), s.root # {},
         Untried(E, s) = {}, NEW i \in DOMAIN E, E[i].about = Node(E, s, Len(s.path))
  PROVE  E[i].entry \in s.black
<1> DEFINE L == Len(s.path)
           N(k) == Node(E, s, k)
<1>1. /\ TopOf(E, s) = {N(L)}
      /\ L \in Nat
  BY GreyIs DEF PathOK
<1>2. i \in s.tried
  BY <1>1 DEF Untried
<1>3. E[i].about \notin s.black
  BY <1>1 DEF PathOK
<1>4. PICK k \in 0 .. L : /\ E[i].about = N(k)
                          /\ E[i].entry \in s.black \/ (k < L /\ E[i].entry = N(k + 1))
  BY <1>2, <1>3 DEF TriedOK
<1>5. \A j, m \in 0 .. L : N(j) = N(m) => j = m
  BY DEF PathOK
<1>6. k = L
  <2>1. N(k) = N(L) /\ L \in 0 .. L
    BY <1>1, <1>4
  <2> HIDE DEF L, N
  <2>2. QED
    BY <2>1, <1>5
<1>7. QED
  BY <1>1, <1>4, <1>6

LEMMA LeavesRootKeeps ==
  ASSUME NEW E, NEW s, SearchInv(E, s), s.found = {}, NEW t, LeavesRoot(E, s, t)
  PROVE  SearchInv(E, t)
<1> DEFINE n == Node(E, s, 0)
<1>1. s \in SearchStates(E) /\ PathOK(E, s) /\ TriedOK(E, s) /\ BlackOK(E, s)
  BY DEF SearchInv
<1>2. s.root = {n} /\ n \in Abouts(E) /\ s.path = <<>> /\ Len(s.path) = 0
  BY <1>1 DEF LeavesRoot, PathOK
<1>3. n \notin s.black
  BY <1>1, <1>2 DEF PathOK
<1>4. TopOf(E, s) = {n}
  BY <1>1, <1>2, GreyIs
<1>5. /\ t \in SearchStates(E)
      /\ t.root = {} /\ t.path = <<>> /\ t.tried = s.tried
      /\ t.black = s.black \cup {n} /\ t.found = {}
  <2>1. t = [s EXCEPT !.black = s.black \cup {n}, !.root = {}]
    BY <1>4 DEF LeavesRoot
  <2>2. n \in Nodes(E)
    BY <1>2 DEF Nodes
  <2> HIDE DEF n
  <2>3. QED
    BY <1>1, <1>2, <2>1, <2>2 DEF SearchStates
<1>6. \A i \in DOMAIN E : E[i].about = n => E[i].entry \in s.black
  <2>1. n = Node(E, s, Len(s.path))
    BY <1>2
  <2> HIDE DEF n
  <2>2. QED
    BY <1>1, <2>1, TopIsDone DEF LeavesRoot
<1>7. BlackOK(E, t)
  BY <1>1, <1>3, <1>5, <1>6, BlackGrows
<1>8. PathOK(E, t)
  BY <1>5 DEF PathOK
<1>9. TriedOK(E, t)
  <2>1. \A i \in s.tried : E[i].about \in s.black \/ E[i].about = n
    <3>1. \A k \in 0 .. Len(s.path) : k = 0
      BY <1>2
    <3>2. QED
      BY <3>1, <1>1 DEF TriedOK
  <2>2. QED
    BY <1>5, <2>1 DEF TriedOK
<1>10. QED
  BY <1>5, <1>7, <1>8, <1>9 DEF SearchInv

LEMMA LeavesTopKeeps ==
  ASSUME NEW E, NEW s, SearchInv(E, s), s.found = {}, NEW t, LeavesTop(E, s, t)
  PROVE  SearchInv(E, t)
<1> DEFINE L == Len(s.path)
           N(k) == Node(E, s, k)
           top == N(L)
<1>1. s \in SearchStates(E) /\ PathOK(E, s) /\ TriedOK(E, s) /\ BlackOK(E, s) /\ s.root # {}
  BY DEF SearchInv, LeavesTop
<1>2. s.root = {N(0)} /\ N(0) \in Abouts(E)
  BY <1>1 DEF PathOK
<1>3. /\ TopOf(E, s) = {top} /\ L \in Nat
      /\ \A k \in 1 .. L : s.path[k] \in DOMAIN E
      /\ s.path \in Seq(DOMAIN E) /\ L # 0
  BY <1>1, <1>2, GreyIs DEF SearchStates, LeavesTop
<1>4. top \in Nodes(E)
  BY <1>3 DEF Node, Nodes
<1>5. /\ SubSeq(s.path, 1, L - 1) \in Seq(DOMAIN E)
      /\ Len(SubSeq(s.path, 1, L - 1)) = L - 1
      /\ \A k \in 1 .. L - 1 : SubSeq(s.path, 1, L - 1)[k] = s.path[k]
  BY <1>3
<1>6. /\ t \in SearchStates(E)
      /\ t.root = s.root /\ t.tried = s.tried /\ t.black = s.black \cup {top} /\ t.found = {}
      /\ t.path = SubSeq(s.path, 1, L - 1)
  <2>1. t = [s EXCEPT !.black = s.black \cup {top}, !.path = SubSeq(s.path, 1, L - 1)]
    BY <1>3 DEF LeavesTop
  <2> HIDE DEF top
  <2>2. QED
    BY <1>1, <1>4, <1>5, <2>1 DEF SearchStates
<1>7. /\ Len(t.path) = L - 1
      /\ \A k \in 1 .. L - 1 : t.path[k] = s.path[k]
      /\ \A k \in 0 .. L - 1 : Node(E, t, k) = N(k)
  <2>1. Len(t.path) = L - 1 /\ \A k \in 1 .. L - 1 : t.path[k] = s.path[k]
    BY <1>5, <1>6
  <2>2. Node(E, t, 0) = N(0)
    BY <1>6 DEF Node
  <2>3. ASSUME NEW k \in 0 .. L - 1, k # 0
        PROVE  Node(E, t, k) = N(k)
    <3>1. k \in 1 .. L - 1
      BY <1>3, <2>3
    <3>2. QED
      BY <2>1, <2>3, <3>1 DEF Node
  <2>4. QED
    BY <2>1, <2>2, <2>3
<1>8. /\ \A k \in 0 .. L : N(k) \notin s.black
      /\ \A j, k \in 0 .. L : N(j) = N(k) => j = k
      /\ \A k \in 1 .. L : E[s.path[k]].about = N(k - 1)
  BY <1>1 DEF PathOK
<1>9. BlackOK(E, t)
  <2>1. \A i \in DOMAIN E : E[i].about = top => E[i].entry \in s.black
    BY <1>1, TopIsDone DEF LeavesTop
  <2>2. top \notin s.black
    BY <1>3, <1>8
  <2>3. QED
    BY <1>1, <1>6, <2>1, <2>2, BlackGrows
<1> HIDE DEF N, top, L
<1>10. PathOK(E, t)
  <2>1. ASSUME NEW k \in 0 .. L - 1
        PROVE  Node(E, t, k) \notin t.black
    <3>1. k \in 0 .. L /\ L \in 0 .. L /\ k # L
      BY <1>3
    <3>2. N(k) # top
      BY <3>1, <1>8 DEF top
    <3>3. QED
      BY <3>1, <3>2, <1>6, <1>7, <1>8
  <2>2. ASSUME NEW k \in 1 .. L - 1
        PROVE  E[t.path[k]].about = Node(E, t, k - 1)
    <3>1. k \in 1 .. L /\ k - 1 \in 0 .. L - 1
      BY <1>3
    <3>2. QED
      BY <3>1, <1>7, <1>8
  <2>3. ASSUME NEW j \in 0 .. L - 1, NEW k \in 0 .. L - 1, Node(E, t, j) = Node(E, t, k)
        PROVE  j = k
    <3>1. j \in 0 .. L /\ k \in 0 .. L
      BY <1>3
    <3>2. N(j) = N(k)
      BY <1>7, <2>3
    <3>3. QED
      BY <3>1, <3>2, <1>8
  <2>4. Node(E, t, 0) = N(0)
    <3>1. 0 \in 0 .. L - 1
      BY <1>3
    <3>2. QED
      BY <3>1, <1>7
  <2>5. t.root # {} /\ t.root = {Node(E, t, 0)} /\ Node(E, t, 0) \in Abouts(E)
    BY <1>2, <1>6, <2>4
  <2>6. QED
    BY <1>7, <2>1, <2>2, <2>3, <2>5 DEF PathOK
<1>11. TriedOK(E, t)
  <2>0. t.tried = s.tried /\ t.root # {} /\ Len(t.path) = L - 1
    BY <1>1, <1>6, <1>7
  <2> SUFFICES ASSUME NEW i \in s.tried
               PROVE  \/ E[i].about \in t.black
                      \/ \E k \in 0 .. L - 1 :
                           /\ E[i].about = Node(E, t, k)
                           /\ E[i].entry \in t.black \/ (k < L - 1 /\ E[i].entry = Node(E, t, k + 1))
    BY <2>0 DEF TriedOK
  <2>1. CASE E[i].about \in s.black
    BY <1>6, <2>1
  <2>2. ASSUME NEW k \in 0 .. L, E[i].about = N(k),
               E[i].entry \in s.black \/ (k < L /\ E[i].entry = N(k + 1))
        PROVE  \/ E[i].about \in t.black
               \/ \E j \in 0 .. L - 1 :
                    /\ E[i].about = Node(E, t, j)
                    /\ E[i].entry \in t.black \/ (j < L - 1 /\ E[i].entry = Node(E, t, j + 1))
    <3>1. CASE k = L
      BY <1>6, <2>2, <3>1 DEF top
    <3>2. CASE k = L - 1
      <4>1. k \in 0 .. L - 1 /\ k + 1 = L
        BY <1>3, <3>2
      <4>2. E[i].entry \in t.black
        BY <4>1, <2>2, <1>6 DEF top
      <4>3. E[i].about = Node(E, t, k)
        BY <4>1, <2>2, <1>7
      <4>4. QED
        BY <4>1, <4>2, <4>3
    <3>3. CASE k < L - 1
      <4>1. k \in 0 .. L - 1 /\ k + 1 \in 0 .. L - 1
        BY <1>3, <3>3
      <4>2. Node(E, t, k) = N(k) /\ Node(E, t, k + 1) = N(k + 1)
        BY <4>1, <1>7
      <4>3. QED
        BY <4>1, <4>2, <2>2, <3>3, <1>6
    <3>4. QED
      BY <1>3, <3>1, <3>2, <3>3
  <2>3. \/ E[i].about \in s.black
        \/ \E k \in 0 .. L :
             /\ E[i].about = N(k)
             /\ E[i].entry \in s.black \/ (k < L /\ E[i].entry = N(k + 1))
    BY <1>1 DEF TriedOK, L, N
  <2>4. QED
    BY <2>1, <2>2, <2>3
<1>12. QED
  BY <1>6, <1>9, <1>10, <1>11 DEF SearchInv


LEMMA ClosesKeeps ==
  ASSUME NEW E, NEW s, SearchInv(E, s), s.found = {}, s.root # {},
         NEW i \in Untried(E, s), NEW t, Closes(E, s, t, i)
  PROVE  SearchInv(E, t)
<1>1. s \in SearchStates(E) /\ PathOK(E, s)
  BY DEF SearchInv
<1>2. HasCycle(Pairs(E))
  BY <1>1, ClosesACycle DEF Closes
<1> DEFINE cycle == {s.path[j] : j \in DOMAIN s.path} \cup {i}
<1>3. t = [s EXCEPT !.tried = s.tried \cup {i}, !.found = cycle]
  BY DEF Closes
<1>4. i \in DOMAIN E /\ cycle \subseteq DOMAIN E /\ cycle # {}
  BY <1>1 DEF Untried, SearchStates
<1> HIDE DEF cycle
<1>5. t \in SearchStates(E) /\ t.found # {}
  BY <1>1, <1>3, <1>4 DEF SearchStates
<1>6. QED
  BY <1>2, <1>5 DEF SearchInv

LEMMA PassesKeeps ==
  ASSUME NEW E, NEW s, SearchInv(E, s), s.found = {}, s.root # {},
         NEW i \in Untried(E, s), NEW t, Passes(E, s, t, i)
  PROVE  SearchInv(E, t)
<1>1. s \in SearchStates(E) /\ PathOK(E, s) /\ TriedOK(E, s) /\ BlackOK(E, s)
  BY DEF SearchInv
<1>2. t = [s EXCEPT !.tried = s.tried \cup {i}] /\ E[i].entry \in s.black
  BY DEF Passes
<1>3. i \in DOMAIN E /\ E[i].about \in TopOf(E, s)
  BY DEF Untried
<1>4. /\ t \in SearchStates(E)
      /\ t.root = s.root /\ t.path = s.path /\ t.tried = s.tried \cup {i}
      /\ t.black = s.black /\ t.found = {}
  BY <1>1, <1>2, <1>3 DEF SearchStates
<1>5. \A k : Node(E, t, k) = Node(E, s, k)
  BY <1>4 DEF Node
<1>6. PathOK(E, t) /\ BlackOK(E, t)
  BY <1>1, <1>4, <1>5 DEF PathOK, BlackOK
<1>7. TriedOK(E, t)
  <2>1. E[i].about = Node(E, s, Len(s.path)) /\ Len(s.path) \in 0 .. Len(s.path)
    BY <1>1, <1>3, GreyIs DEF PathOK
  <2>2. ASSUME NEW q \in t.tried, E[q].about \notin t.black
        PROVE  \E k \in 0 .. Len(s.path) :
                 /\ E[q].about = Node(E, t, k)
                 /\ E[q].entry \in t.black \/ (k < Len(s.path) /\ E[q].entry = Node(E, t, k + 1))
    <3>1. CASE q = i
      BY <1>2, <1>4, <1>5, <2>1, <3>1
    <3>2. CASE q \in s.tried
      BY <1>1, <1>4, <1>5, <2>2, <3>2 DEF TriedOK
    <3>3. QED
      BY <1>4, <3>1, <3>2
  <2>3. QED
    BY <1>4, <2>2 DEF TriedOK
<1>8. QED
  BY <1>4, <1>6, <1>7 DEF SearchInv

LEMMA EntersKeeps ==
  ASSUME NEW E, NEW s, SearchInv(E, s), s.found = {}, s.root # {},
         NEW i \in Untried(E, s), NEW t, Enters(E, s, t, i)
  PROVE  SearchInv(E, t)
<1> DEFINE L == Len(s.path)
           N(k) == Node(E, s, k)
           n == E[i].entry
<1>1. s \in SearchStates(E) /\ PathOK(E, s) /\ TriedOK(E, s) /\ BlackOK(E, s)
  BY DEF SearchInv
<1>2. s.root = {N(0)} /\ N(0) \in Abouts(E)
  BY <1>1 DEF PathOK
<1>3. /\ TopOf(E, s) = {N(L)} /\ L \in Nat
      /\ Grey(E, s) = {N(k) : k \in 0 .. L}
      /\ s.path \in Seq(DOMAIN E)
  BY <1>1, <1>2, GreyIs DEF SearchStates
<1>4. /\ i \in DOMAIN E /\ E[i].about = N(L)
      /\ n \notin s.black /\ \A k \in 0 .. L : n # N(k)
  BY <1>3 DEF Untried, Enters
<1>5. /\ t \in SearchStates(E)
      /\ t.root = s.root /\ t.tried = s.tried \cup {i} /\ t.black = s.black /\ t.found = {}
      /\ t.path = Append(s.path, i)
  <2>1. t = [s EXCEPT !.tried = s.tried \cup {i}, !.path = Append(s.path, i)]
    BY DEF Enters
  <2>2. Append(s.path, i) \in Seq(DOMAIN E)
    BY <1>3, <1>4
  <2>3. QED
    BY <1>1, <1>4, <2>1, <2>2 DEF SearchStates
<1>6. /\ Len(t.path) = L + 1
      /\ \A k \in 1 .. L : t.path[k] = s.path[k]
      /\ t.path[L + 1] = i
  BY <1>3, <1>4, <1>5
<1>7. /\ \A k \in 0 .. L : Node(E, t, k) = N(k)
      /\ Node(E, t, L + 1) = n
  <2>1. Node(E, t, 0) = N(0)
    BY <1>5 DEF Node
  <2>2. ASSUME NEW k \in 0 .. L, k # 0
        PROVE  Node(E, t, k) = N(k)
    <3>1. k \in 1 .. L
      BY <1>3, <2>2
    <3>2. QED
      BY <1>6, <2>2, <3>1 DEF Node
  <2>3. Node(E, t, L + 1) = n
    BY <1>3, <1>6 DEF Node
  <2>4. QED
    BY <2>1, <2>2, <2>3
<1>8. /\ \A k \in 0 .. L : N(k) \notin s.black
      /\ \A j, k \in 0 .. L : N(j) = N(k) => j = k
      /\ \A k \in 1 .. L : E[s.path[k]].about = N(k - 1)
  BY <1>1 DEF PathOK
<1>9. BlackOK(E, t)
  BY <1>1, <1>5 DEF BlackOK
<1>10. \A k \in 0 .. L + 1 : k \in 0 .. L \/ k = L + 1
  BY <1>3
<1>11. TriedOK(E, t)
  <2>0. t.tried = s.tried \cup {i} /\ t.root # {} /\ Len(t.path) = L + 1 /\ t.black = s.black
    BY <1>5, <1>6
  <2>1. ASSUME NEW q \in s.tried, E[q].about \notin s.black
        PROVE  \E k \in 0 .. L + 1 :
                 /\ E[q].about = Node(E, t, k)
                 /\ E[q].entry \in t.black \/ (k < L + 1 /\ E[q].entry = Node(E, t, k + 1))
    <3>1. PICK k \in 0 .. L : /\ E[q].about = N(k)
                              /\ E[q].entry \in s.black \/ (k < L /\ E[q].entry = N(k + 1))
      BY <1>1, <2>1 DEF TriedOK
    <3>2. k \in 0 .. L + 1 /\ Node(E, t, k) = N(k) /\ (k < L => k + 1 \in 0 .. L /\ k < L + 1)
      BY <1>3, <1>7
    <3>3. k < L => Node(E, t, k + 1) = N(k + 1)
      BY <3>2, <1>7
    <3> HIDE DEF N, L
    <3>4. QED
      BY <2>0, <3>1, <3>2, <3>3
  <2>2. /\ L \in 0 .. L + 1 /\ L < L + 1
        /\ E[i].about = Node(E, t, L) /\ E[i].entry = Node(E, t, L + 1)
    BY <1>3, <1>4, <1>7
  <2> HIDE DEF N, L, n
  <2>3. QED
    BY <2>0, <2>1, <2>2 DEF TriedOK
<1>12. PathOK(E, t)
  <2> HIDE DEF N, L, n
  <2>1. ASSUME NEW k \in 0 .. L + 1
        PROVE  Node(E, t, k) \notin t.black
    BY <1>4, <1>5, <1>7, <1>8, <1>10
  <2>2. ASSUME NEW k \in 1 .. L + 1
        PROVE  E[t.path[k]].about = Node(E, t, k - 1)
    <3>1. CASE k = L + 1
      <4>1. k - 1 = L /\ L \in 0 .. L
        BY <1>3, <3>1
      <4>2. QED
        BY <3>1, <4>1, <1>4, <1>6, <1>7
    <3>2. CASE k # L + 1
      <4>1. k \in 1 .. L /\ k - 1 \in 0 .. L
        BY <1>3, <3>2
      <4>2. QED
        BY <4>1, <1>6, <1>7, <1>8
    <3>3. QED
      BY <3>1, <3>2
  <2>3. ASSUME NEW j \in 0 .. L + 1, NEW k \in 0 .. L + 1, Node(E, t, j) = Node(E, t, k)
        PROVE  j = k
    <3>1. CASE j \in 0 .. L /\ k \in 0 .. L
      BY <2>3, <3>1, <1>7, <1>8
    <3>2. CASE j = L + 1 /\ k \in 0 .. L
      BY <2>3, <3>2, <1>4, <1>7
    <3>3. CASE j \in 0 .. L /\ k = L + 1
      BY <2>3, <3>3, <1>4, <1>7
    <3>4. QED
      BY <1>10, <3>1, <3>2, <3>3
  <2>4. t.root # {} /\ t.root = {Node(E, t, 0)} /\ Node(E, t, 0) \in Abouts(E)
    <3>1. 0 \in 0 .. L
      BY <1>3
    <3>2. QED
      BY <3>1, <1>2, <1>5, <1>7
  <2>5. QED
    BY <1>6, <2>1, <2>2, <2>3, <2>4 DEF PathOK
<1>13. QED
  BY <1>5, <1>9, <1>11, <1>12 DEF SearchInv

LEMMA SearchGoesKeeps ==
  ASSUME NEW E, NEW s, SearchInv(E, s), NEW t, SearchGoes(E, s, t)
  PROVE  SearchInv(E, t)
<1>1. CASE Halted(E, s) /\ t = s
  BY <1>1
<1>2. CASE ~Halted(E, s)
  <2>1. s.found = {}
    BY <1>2 DEF Halted
  <2>2. CASE Tries(E, s, t)
    BY <2>1, <2>2, ClosesKeeps, PassesKeeps, EntersKeeps DEF Tries
  <2>3. QED
    BY <1>2, <2>1, <2>2, BeginsKeeps, LeavesRootKeeps, LeavesTopKeeps DEF SearchGoes
<1>3. QED
  BY <1>1, <1>2 DEF SearchGoes

LEMMA SearchKeeps ==
  ASSUME NEW E, DOMAIN E \in SUBSET Nat, NEW s, SearchInv(E, s)
  PROVE  SearchInv(E, SearchStep(E, s))
BY SearchStepGoes, SearchGoesKeeps DEF SearchInv

LEMMA SearchStarts ==
  ASSUME NEW E
  PROVE  SearchInv(E, SearchStart)
<1>1. /\ SearchStart \in SearchStates(E)
      /\ SearchStart.found = {} /\ SearchStart.root = {} /\ SearchStart.path = <<>>
      /\ SearchStart.tried = {} /\ SearchStart.black = {}
  BY DEF SearchStart, SearchStates
<1>2. PathOK(E, SearchStart) /\ TriedOK(E, SearchStart) /\ BlackOK(E, SearchStart)
  BY <1>1 DEF PathOK, TriedOK, BlackOK, NoCycleIn
<1>3. QED
  BY <1>1, <1>2 DEF SearchInv


-----------------------------------------------------------------------------
(* The search ends: every step finishes a concept, tries a record, or enters. *)

Done(E, s) == {i \in DOMAIN E : E[i].about \in s.black}

Effort(E, s) ==
  (IF s.root = {} THEN 0 ELSE 1) + 2 * Cardinality(Done(E, s)) + 2 * Cardinality(s.tried) - Len(s.path)

LEMMA EffortBounds ==
  ASSUME NEW E, IsFiniteSet(DOMAIN E), NEW s \in SearchStates(E)
  PROVE  /\ Cardinality(DOMAIN E) \in Nat /\ Len(s.path) \in Nat
         /\ IsFiniteSet(s.tried) /\ Cardinality(s.tried) \in Nat
         /\ IsFiniteSet(Done(E, s)) /\ Cardinality(Done(E, s)) \in Nat
         /\ Effort(E, s) \in Int /\ Effort(E, s) <= 4 * Cardinality(DOMAIN E) + 1
<1>1. Cardinality(DOMAIN E) \in Nat /\ Len(s.path) \in Nat
  BY FS_CardinalityType DEF SearchStates
<1>2. s.tried \in SUBSET DOMAIN E /\ Done(E, s) \in SUBSET DOMAIN E
  BY DEF SearchStates, Done
<1>3. /\ IsFiniteSet(s.tried) /\ Cardinality(s.tried) \in Nat
      /\ Cardinality(s.tried) <= Cardinality(DOMAIN E)
  BY <1>2, FS_Subset, FS_CardinalityType
<1>4. /\ IsFiniteSet(Done(E, s)) /\ Cardinality(Done(E, s)) \in Nat
      /\ Cardinality(Done(E, s)) <= Cardinality(DOMAIN E)
  BY <1>2, FS_Subset, FS_CardinalityType
<1> DEFINE r == IF s.root = {} THEN 0 ELSE 1
           c == Cardinality(DOMAIN E)
           d == Cardinality(Done(E, s))
           k == Cardinality(s.tried)
           l == Len(s.path)
<1>5. r \in {0, 1} /\ Effort(E, s) = r + 2 * d + 2 * k - l
  BY DEF Effort
<1>6. c \in Nat /\ d \in Nat /\ k \in Nat /\ l \in Nat /\ d <= c /\ k <= c
  BY <1>1, <1>3, <1>4
<1>7. Effort(E, s) \in Int /\ Effort(E, s) <= 4 * c + 1
  <2> HIDE DEF r, c, d, k, l
  <2>1. QED
    BY <1>5, <1>6
<1>8. QED
  BY <1>1, <1>3, <1>4, <1>7

LEMMA SearchAdvances ==
  ASSUME NEW E, IsFiniteSet(DOMAIN E), NEW s, SearchInv(E, s), ~Halted(E, s),
         NEW t, SearchInv(E, t), SearchGoes(E, s, t)
  PROVE  Effort(E, t) >= Effort(E, s) + 1
<1>1. s \in SearchStates(E) /\ s.found = {} /\ PathOK(E, s) /\ t \in SearchStates(E)
  BY DEF SearchInv, Halted
<1>2. /\ Len(s.path) \in Nat /\ Len(t.path) \in Nat
      /\ Cardinality(s.tried) \in Nat /\ Cardinality(t.tried) \in Nat
      /\ Cardinality(Done(E, s)) \in Nat /\ Cardinality(Done(E, t)) \in Nat
      /\ IsFiniteSet(s.tried) /\ IsFiniteSet(Done(E, t))
  BY <1>1, EffortBounds
<1> DEFINE r(x) == IF x.root = {} THEN 0 ELSE 1
           d(x) == Cardinality(Done(E, x))
           k(x) == Cardinality(x.tried)
           l(x) == Len(x.path)
<1>e. /\ r(s) \in {0, 1} /\ Effort(E, s) = r(s) + 2 * d(s) + 2 * k(s) - l(s)
      /\ r(t) \in {0, 1} /\ Effort(E, t) = r(t) + 2 * d(t) + 2 * k(t) - l(t)
      /\ d(s) \in Nat /\ k(s) \in Nat /\ l(s) \in Nat
      /\ d(t) \in Nat /\ k(t) \in Nat /\ l(t) \in Nat
  BY <1>2 DEF Effort
<1>3. CASE Begins(E, s, t)
  <2>1. /\ s.root = {} /\ t.root # {} /\ t.tried = s.tried /\ t.black = s.black /\ t.path = s.path
    BY <1>1, <1>3 DEF Begins, SearchStates
  <2>2. Done(E, t) = Done(E, s)
    BY <2>1 DEF Done
  <2>3. QED
    BY <1>2, <2>1, <2>2 DEF Effort
<1>4. CASE LeavesRoot(E, s, t)
  <2>1. /\ s.root # {} /\ t.root = {} /\ t.tried = s.tried /\ t.path = s.path
        /\ t.black = s.black \cup TopOf(E, s) /\ s.path = <<>>
    BY <1>1, <1>4 DEF LeavesRoot, SearchStates
  <2>2. TopOf(E, s) = {Node(E, s, 0)} /\ Node(E, s, 0) \in Abouts(E) /\ Node(E, s, 0) \notin s.black
    <3>1. Len(s.path) = 0 /\ s.root = {Node(E, s, 0)}
      BY <1>1, <2>1 DEF PathOK
    <3>2. QED
      BY <1>1, <2>1, <3>1, GreyIs DEF PathOK
  <2>3. PICK i \in DOMAIN E : E[i].about = Node(E, s, 0)
    BY <2>2 DEF Abouts
  <2>4. Done(E, s) \subseteq Done(E, t) /\ i \in Done(E, t) /\ i \notin Done(E, s)
    BY <2>1, <2>2, <2>3 DEF Done
  <2>5. Cardinality(Done(E, s)) <= Cardinality(Done(E, t)) /\ Cardinality(Done(E, s)) # Cardinality(Done(E, t))
    BY <1>2, <2>4, FS_Subset
  <2>6. Cardinality(Done(E, t)) >= Cardinality(Done(E, s)) + 1
    BY <1>2, <2>5
  <2>7. QED
    BY <1>2, <2>1, <2>6 DEF Effort
<1>5. CASE LeavesTop(E, s, t)
  <2>1. /\ t.root = s.root /\ t.tried = s.tried /\ s.black \subseteq t.black
        /\ t.path = SubSeq(s.path, 1, Len(s.path) - 1) /\ s.path # <<>>
        /\ s.path \in Seq(DOMAIN E)
    BY <1>1, <1>5 DEF LeavesTop, SearchStates
  <2>2. Len(t.path) = Len(s.path) - 1
    BY <2>1
  <2>3. Done(E, s) \subseteq Done(E, t)
    BY <2>1 DEF Done
  <2>4. Cardinality(Done(E, s)) <= Cardinality(Done(E, t))
    BY <1>2, <2>3, FS_Subset
  <2>5. r(t) = r(s) /\ k(t) = k(s) /\ l(t) = l(s) - 1 /\ d(s) <= d(t)
    BY <2>1, <2>2, <2>4
  <2> HIDE DEF r, d, k, l
  <2>6. QED
    BY <1>e, <2>5
<1>6. CASE Tries(E, s, t)
  <2>1. PICK i \in Untried(E, s) : Closes(E, s, t, i) \/ Passes(E, s, t, i) \/ Enters(E, s, t, i)
    BY <1>6 DEF Tries
  <2>9. i \in DOMAIN E /\ i \notin s.tried
    BY <2>1 DEF Untried
  <2>2. /\ i \in DOMAIN E /\ i \notin s.tried
        /\ t.root = s.root /\ t.tried = s.tried \cup {i} /\ t.black = s.black
        /\ t.path = s.path \/ t.path = Append(s.path, i)
    <3>1. CASE Closes(E, s, t, i)
      BY <1>1, <2>9, <3>1 DEF SearchStates, Closes
    <3>2. CASE Passes(E, s, t, i)
      BY <1>1, <2>9, <3>2 DEF SearchStates, Passes
    <3>3. CASE Enters(E, s, t, i)
      BY <1>1, <2>9, <3>3 DEF SearchStates, Enters
    <3>4. QED
      BY <2>1, <3>1, <3>2, <3>3
  <2>3. Cardinality(t.tried) = Cardinality(s.tried) + 1
    BY <1>2, <2>2, FS_AddElement
  <2>4. Len(t.path) <= Len(s.path) + 1
    <3>1. s.path \in Seq(DOMAIN E)
      BY <1>1 DEF SearchStates
    <3>2. Len(Append(s.path, i)) = Len(s.path) + 1
      BY <3>1, <2>2
    <3>3. QED
      BY <1>2, <2>2, <3>2
  <2>5. Done(E, t) = Done(E, s)
    BY <2>2 DEF Done
  <2>6. r(t) = r(s) /\ k(t) = k(s) + 1 /\ l(t) <= l(s) + 1 /\ d(s) = d(t)
    BY <2>2, <2>3, <2>4, <2>5
  <2> HIDE DEF r, d, k, l
  <2>7. QED
    BY <1>e, <2>6
<1>7. QED
  BY <1>3, <1>4, <1>5, <1>6 DEF SearchGoes

IsSearch(w, E) ==
  /\ w[0] = SearchStart
  /\ \A n \in 1 .. SearchSteps(E) : w[n] = SearchStep(E, w[n - 1])
  /\ FindCycle(E) = w[SearchSteps(E)].found

LEMMA SearchUnfolds ==
  ASSUME NEW E, IsFiniteSet(DOMAIN E), DOMAIN E \in SUBSET Nat
  PROVE  \E w : IsSearch(w, E)
<1> DEFINE X == {s \in SearchStates(E) : SearchInv(E, s)}
           K == SearchSteps(E)
           b == SearchStart
           s == [x \in X |-> SearchStep(E, x)]
           search[n \in 0 .. SearchSteps(E)] ==
             IF n = 0 THEN SearchStart ELSE SearchStep(E, search[n - 1])
<1>1. FindCycle(E) = search[SearchSteps(E)].found
  BY DEF FindCycle
<1>2. b \in X
  BY SearchStarts DEF SearchInv
<1>3. s \in [X -> X]
  <2>1. \A x \in X : SearchStep(E, x) \in X
    BY SearchKeeps DEF SearchInv
  <2>2. QED
    BY <2>1
<1>4. \A x \in X : s[x] = SearchStep(E, x)
  OBVIOUS
<1>5. K \in Nat
  BY FS_CardinalityType DEF SearchSteps
<1>6. PICK f : Recurs(f, X, b, s, K)
  <2> HIDE DEF X, K, b, s, search
  <2>1. QED
    BY <1>2, <1>3, <1>5, Recursion
<1> USE DEF Recurs
<1>7. \A n \in 0 .. K : f[n] = IF n = 0 THEN b ELSE s[f[n - 1]]
  BY <1>6
<1>8. \A n \in 1 .. K : f[n] = SearchStep(E, f[n - 1]) /\ n - 1 \in 0 .. K
  <2> HIDE DEF X, K, b, s, search
  <2> SUFFICES ASSUME NEW n \in 1 .. K PROVE f[n] = SearchStep(E, f[n - 1]) /\ n - 1 \in 0 .. K
    OBVIOUS
  <2>1. n \in 0 .. K /\ n # 0 /\ n - 1 \in 0 .. K
    BY <1>5
  <2>2. f[n - 1] \in X
    BY <2>1, <1>6
  <2>3. QED
    BY <2>1, <2>2, <1>7, <1>4
<1>9. f = [n \in 0 .. SearchSteps(E) |-> IF n = 0 THEN SearchStart ELSE SearchStep(E, f[n - 1])]
  <2> DEFINE g == [n \in 0 .. K |-> IF n = 0 THEN b ELSE SearchStep(E, f[n - 1])]
  <2>1. \A n \in 0 .. K : g[n] = IF n = 0 THEN b ELSE SearchStep(E, f[n - 1])
    OBVIOUS
  <2>2. g = [n \in 0 .. K |-> g[n]] /\ f = [n \in 0 .. K |-> f[n]]
    BY <1>6
  <2>3. \A n \in 0 .. K : f[n] = g[n]
    <3> HIDE DEF g, s, X, b, K, search
    <3> SUFFICES ASSUME NEW n \in 0 .. K PROVE f[n] = g[n]
      OBVIOUS
    <3>1. n = 0 \/ n \in 1 .. K
      BY <1>5
    <3>2. QED
      BY <3>1, <2>1, <1>7, <1>8
  <2> HIDE DEF g
  <2>4. f = g
    BY <2>2, <2>3
  <2>5. QED
    BY <2>4 DEF g
<1>10. search = [n \in 0 .. SearchSteps(E) |->
                   IF n = 0 THEN SearchStart ELSE SearchStep(E, search[n - 1])]
  BY <1>9 DEF search
<1>11. search[0] = b /\ \A n \in 1 .. K : search[n] = SearchStep(E, search[n - 1])
  <2>1. \A n \in 0 .. K : search[n] = IF n = 0 THEN b ELSE SearchStep(E, search[n - 1])
    BY <1>10
  <2> HIDE DEF search, b, K
  <2>2. QED
    BY <2>1, <1>5
<1> HIDE DEF search
<1>12. IsSearch(search, E)
  BY <1>1, <1>11 DEF IsSearch
<1>13. QED
  BY <1>12

\* After the steps that it is given the search has halted.
LEMMA SearchEnds ==
  ASSUME NEW E, IsFiniteSet(DOMAIN E), DOMAIN E \in SUBSET Nat
  PROVE  \E s : SearchInv(E, s) /\ Halted(E, s) /\ FindCycle(E) = s.found
<1> DEFINE K == SearchSteps(E)
<1>1. PICK w : IsSearch(w, E)
  BY SearchUnfolds
<1>2. K \in Nat /\ K = 5 * Cardinality(DOMAIN E) + 1 /\ Cardinality(DOMAIN E) \in Nat
  BY FS_CardinalityType DEF SearchSteps
<1>3. w[0] = SearchStart /\ \A n \in 1 .. K : w[n] = SearchStep(E, w[n - 1])
  BY <1>1 DEF IsSearch
<1> HIDE DEF K
<1> DEFINE S == {n \in Nat : SearchInv(E, w[n]) /\ (Halted(E, w[n]) \/ Effort(E, w[n]) >= n)}
<1>4. 0 \in S
  <2>1. SearchInv(E, w[0])
    BY <1>3, SearchStarts
  <2>2. Effort(E, w[0]) = 0
    <3>1. /\ w[0].root = {} /\ w[0].path = <<>> /\ w[0].tried = {} /\ w[0].black = {}
      BY <1>3 DEF SearchStart
    <3>2. Done(E, w[0]) = {} /\ Len(w[0].path) = 0
      BY <3>1 DEF Done
    <3>3. QED
      BY <3>1, <3>2, FS_EmptySet DEF Effort
  <2>3. QED
    BY <2>1, <2>2
<1>5. ASSUME NEW n \in Nat, n < K, n \in S
      PROVE  n + 1 \in S
  <2>1. w[n + 1] = SearchStep(E, w[n])
    <3>1. n + 1 \in 1 .. K /\ (n + 1) - 1 = n
      BY <1>2, <1>5
    <3>2. QED
      BY <1>3, <3>1
  <2>2. SearchInv(E, w[n]) /\ w[n] \in SearchStates(E)
    BY <1>5 DEF SearchInv
  <2>3. SearchGoes(E, w[n], w[n + 1]) /\ SearchInv(E, w[n + 1])
    BY <2>1, <2>2, SearchStepGoes, SearchKeeps
  <2>4. CASE Halted(E, w[n])
    BY <2>2, <2>3, <2>4 DEF SearchGoes
  <2>5. CASE ~Halted(E, w[n])
    <3>1. Effort(E, w[n + 1]) >= Effort(E, w[n]) + 1
      BY <2>2, <2>3, <2>5, SearchAdvances
    <3>2. Effort(E, w[n]) >= n /\ Effort(E, w[n]) \in Int /\ Effort(E, w[n + 1]) \in Int
      BY <1>5, <2>2, <2>3, <2>5, EffortBounds DEF SearchInv
    <3>3. Effort(E, w[n + 1]) >= n + 1
      BY <3>1, <3>2
    <3>4. QED
      BY <2>3, <3>3
  <2>6. QED
    BY <2>4, <2>5
<1> HIDE DEF S
<1>6. K \in S
  <2>1. 0 .. K \subseteq S
    BY <1>2, <1>4, <1>5, UpTo
  <2>2. QED
    BY <1>2, <2>1
<1>7. SearchInv(E, w[K]) /\ (Halted(E, w[K]) \/ Effort(E, w[K]) >= K)
  BY <1>6 DEF S
<1>8. Halted(E, w[K])
  <2> SUFFICES ASSUME ~Halted(E, w[K]) PROVE FALSE
    OBVIOUS
  <2>1. Effort(E, w[K]) <= 4 * Cardinality(DOMAIN E) + 1 /\ Effort(E, w[K]) \in Int
    BY <1>7, EffortBounds DEF SearchInv
  <2>2. Cardinality(DOMAIN E) = 0
    BY <1>2, <1>7, <2>1
  <2>3. DOMAIN E = {}
    BY <2>2, FS_EmptySet
  <2>4. w[K].found = {} /\ w[K].root # {}
    BY <2>3 DEF Halted, Fresh
  <2>5. Node(E, w[K], 0) \in Abouts(E)
    BY <1>7, <2>4 DEF SearchInv, PathOK
  <2>6. QED
    BY <2>3, <2>5 DEF Abouts
<1>9. FindCycle(E) = w[K].found
  BY <1>1 DEF IsSearch, K
<1>10. QED
  BY <1>7, <1>8, <1>9

\* The depth-first search finds a cycle exactly when there is one, whatever the order
\* of the records, and what it takes for one is made of them.
THEOREM SearchIsComplete ==
  ASSUME NEW E, IsFiniteSet(DOMAIN E), DOMAIN E \in SUBSET Nat
  PROVE  /\ FindCycle(E) \subseteq DOMAIN E
         /\ FindCycle(E) # {} <=> HasCycle(Pairs(E))
<1>1. PICK s : SearchInv(E, s) /\ Halted(E, s) /\ FindCycle(E) = s.found
  BY SearchEnds
<1>2. s.found \subseteq DOMAIN E
  BY <1>1 DEF SearchInv, SearchStates
<1>3. s.found # {} => HasCycle(Pairs(E))
  BY <1>1 DEF SearchInv
<1>4. ASSUME s.found = {}
      PROVE  ~HasCycle(Pairs(E))
  <2>1. NoCycleIn(E, s.black) /\ \A i \in DOMAIN E : E[i].about \in s.black
    BY <1>1, <1>4 DEF SearchInv, BlackOK, Halted, Fresh
  <2>2. ASSUME NEW C, C # {}, \A n \in C : \E m \in C : <<n, m>> \in Pairs(E)
        PROVE  FALSE
    <3>1. C \subseteq s.black
      <4>1. \A n, m : <<n, m>> \in Pairs(E) => \E i \in DOMAIN E : E[i].about = n
        BY DEF Pairs
      <4>2. ASSUME NEW n \in C
            PROVE  n \in s.black
        <5>1. PICK m \in C : <<n, m>> \in Pairs(E)
          BY <2>2
        <5>2. PICK i \in DOMAIN E : E[i].about = n
          BY <5>1, <4>1
        <5>3. QED
          BY <2>1, <5>2
      <4>3. QED
        BY <4>2
    <3>2. QED
      BY <2>1, <2>2, <3>1 DEF NoCycleIn
  <2>3. QED
    BY <2>2 DEF HasCycle
<1>5. QED
  BY <1>1, <1>2, <1>3, <1>4


-----------------------------------------------------------------------------
(* The taxonomy that is shown. *)

EdgeIds(E) == {E[i].id : i \in DOMAIN E}

\* Records under distinct identifiers, in the order of their timestamps and identifiers.
Ordered(E) ==
  /\ \A i \in DOMAIN E : E[i].timestamp \in Int /\ Rank(E[i].id) \in Int
  /\ \A i, j \in DOMAIN E : i # j => E[i].id # E[j].id /\ Rank(E[i].id) # Rank(E[j].id)

\* Of some records one is the latest.
LEMMA OneIsLatest ==
  ASSUME NEW E, Ordered(E), NEW C \in SUBSET DOMAIN E, IsFiniteSet(C), C # {}
  PROVE  \E j \in C : \A k \in C \ {j} : Later(E[j], E[k])
<1> DEFINE After(j) == {k \in C : Later(E[k], E[j])}
           counts == {Cardinality(After(j)) : j \in C}
<1>1. \A j \in C : IsFiniteSet(After(j)) /\ Cardinality(After(j)) \in Nat
  <2> SUFFICES ASSUME NEW j \in C PROVE IsFiniteSet(After(j)) /\ Cardinality(After(j)) \in Nat
    OBVIOUS
  <2>1. After(j) \in SUBSET C
    OBVIOUS
  <2> HIDE DEF After
  <2>2. QED
    BY <2>1, FS_Subset, FS_CardinalityType
<1>2. counts \in SUBSET Nat /\ counts # {}
  BY <1>1
<1>3. PICK j \in C : \A k \in C : Cardinality(After(j)) <= Cardinality(After(k))
  <2>1. PICK least \in counts : \A k \in counts : least <= k
    <3> HIDE DEF counts
    <3>1. QED
      BY <1>2, SomeLeast
  <2>2. QED
    BY <2>1
<1>4. \A i, k \in C : i # k => Later(E[i], E[k]) \/ Later(E[k], E[i])
  BY DEF Later, Ordered
<1>5. \A i \in C : ~Later(E[i], E[i])
  BY DEF Later, Ordered
<1>6. \A i, k, l \in C : Later(E[i], E[k]) /\ Later(E[k], E[l]) => Later(E[i], E[l])
  <2> SUFFICES ASSUME NEW i \in C, NEW k \in C, NEW l \in C,
                      Later(E[i], E[k]), Later(E[k], E[l])
               PROVE  Later(E[i], E[l])
    OBVIOUS
  <2> DEFINE a(x) == E[x].timestamp
             b(x) == Rank(E[x].id)
  <2>1. /\ a(i) \in Int /\ a(k) \in Int /\ a(l) \in Int
        /\ b(i) \in Int /\ b(k) \in Int /\ b(l) \in Int
    BY DEF Ordered
  <2>2. /\ a(i) > a(k) \/ (a(i) = a(k) /\ b(i) > b(k))
        /\ a(k) > a(l) \/ (a(k) = a(l) /\ b(k) > b(l))
    BY DEF Later
  <2>3. a(i) > a(l) \/ (a(i) = a(l) /\ b(i) > b(l))
    <3> HIDE DEF a, b
    <3>1. QED
      BY <2>1, <2>2
  <2>4. QED
    BY <2>3 DEF Later
<1>7. ASSUME NEW k \in C \ {j}, ~Later(E[j], E[k])
      PROVE  FALSE
  <2>1. Later(E[k], E[j])
    BY <1>4, <1>7
  <2>2. After(k) \subseteq After(j) /\ k \in After(j) /\ k \notin After(k)
    BY <1>5, <1>6, <2>1
  <2> HIDE DEF After
  <2>3. Cardinality(After(k)) <= Cardinality(After(j)) /\ Cardinality(After(k)) # Cardinality(After(j))
    BY <1>1, <2>2, FS_Subset
  <2>4. QED
    BY <1>1, <1>3, <2>3
<1>8. QED
  BY <1>7

\* As long as there is a cycle a record is left out, and one of the records at hand.
LEMMA LatestInCycles ==
  ASSUME NEW E, IsFiniteSet(DOMAIN E), DOMAIN E \in SUBSET Nat, Ordered(E)
  PROVE  /\ LatestInCycle(E) \subseteq EdgeIds(E)
         /\ HasCycle(Pairs(E)) => LatestInCycle(E) # {}
<1> DEFINE C == FindCycle(E)
           last == {j \in C : \A k \in C \ {j} : Later(E[j], E[k])}
<1>1. LatestInCycle(E) = {E[i].id : i \in last}
  BY DEF LatestInCycle
<1>2. C \subseteq DOMAIN E /\ (C # {} <=> HasCycle(Pairs(E)))
  BY SearchIsComplete
<1>3. IsFiniteSet(C)
  BY <1>2, FS_Subset
<1>4. LatestInCycle(E) \subseteq EdgeIds(E)
  BY <1>1, <1>2 DEF EdgeIds
<1>5. C # {} => last # {}
  <2> HIDE DEF C
  <2>1. QED
    BY <1>2, <1>3, OneIsLatest
<1>6. QED
  BY <1>1, <1>2, <1>4, <1>5

LEMMA RestIsLess ==
  ASSUME NEW E, IsFiniteSet(DOMAIN E), DOMAIN E \in SUBSET Nat, Ordered(E), NEW out
  PROVE  /\ IsFiniteSet(DOMAIN Rest(E, out)) /\ DOMAIN Rest(E, out) \in SUBSET Nat
         /\ Ordered(Rest(E, out))
         /\ EdgeIds(Rest(E, out)) = EdgeIds(E) \ out
<1>1. /\ DOMAIN Rest(E, out) = {j \in DOMAIN E : E[j].id \notin out}
      /\ \A i \in DOMAIN Rest(E, out) : Rest(E, out)[i] = E[i]
  BY DEF Rest
<1>2. DOMAIN Rest(E, out) \in SUBSET DOMAIN E
  BY <1>1
<1>3. IsFiniteSet(DOMAIN Rest(E, out))
  BY <1>2, FS_Subset
<1>4. Ordered(Rest(E, out))
  BY <1>1, <1>2 DEF Ordered
<1>5. EdgeIds(Rest(E, out)) = EdgeIds(E) \ out
  <2>1. ASSUME NEW x \in EdgeIds(Rest(E, out))
        PROVE  x \in EdgeIds(E) \ out
    BY <1>1 DEF EdgeIds
  <2>2. ASSUME NEW x \in EdgeIds(E) \ out
        PROVE  x \in EdgeIds(Rest(E, out))
    <3>1. PICK i \in DOMAIN E : x = E[i].id
      BY DEF EdgeIds
    <3>2. i \in DOMAIN Rest(E, out) /\ Rest(E, out)[i].id = x
      BY <1>1, <3>1
    <3>3. QED
      BY <3>2 DEF EdgeIds
  <2>3. QED
    BY <2>1, <2>2
<1>6. QED
  BY <1>2, <1>3, <1>4, <1>5

IsExclusion(w, E, out) ==
  /\ w[0] = {} /\ out = w[Cardinality(DOMAIN E)]
  /\ \A n \in 0 .. Cardinality(DOMAIN E) : w[n] \in SUBSET EdgeIds(E)
  /\ \A n \in 1 .. Cardinality(DOMAIN E) : w[n] = w[n - 1] \cup LatestInCycle(Rest(E, w[n - 1]))

LEMMA ExclusionUnfolds ==
  ASSUME NEW recs, NEW field, NEW E, E = Edges(recs, field),
         IsFiniteSet(DOMAIN E), DOMAIN E \in SUBSET Nat, Ordered(E)
  PROVE  \E w : IsExclusion(w, E, ExcludedEdges(recs, field))
<1> DEFINE X == SUBSET EdgeIds(E)
           K == Cardinality(DOMAIN E)
           s == [x \in X |-> x \cup LatestInCycle(Rest(E, x))]
           out[n \in 0 .. Cardinality(DOMAIN E)] ==
             IF n = 0 THEN {} ELSE out[n - 1] \cup LatestInCycle(Rest(E, out[n - 1]))
<1>1. ExcludedEdges(recs, field) = out[Cardinality(DOMAIN E)]
  BY DEF ExcludedEdges
<1>2. {} \in X
  OBVIOUS
<1>3. s \in [X -> X]
  <2> SUFFICES ASSUME NEW x \in X PROVE x \cup LatestInCycle(Rest(E, x)) \in X
    OBVIOUS
  <2>1. LatestInCycle(Rest(E, x)) \subseteq EdgeIds(E) \ x
    BY RestIsLess, LatestInCycles
  <2>2. QED
    BY <2>1
<1>4. \A x \in X : s[x] = x \cup LatestInCycle(Rest(E, x))
  OBVIOUS
<1>5. K \in Nat
  BY FS_CardinalityType
<1>6. PICK f : Recurs(f, X, {}, s, K)
  <2> HIDE DEF X, K, s, out
  <2>1. QED
    BY <1>2, <1>3, <1>5, Recursion
<1> USE DEF Recurs
<1>7. \A n \in 0 .. K : f[n] = IF n = 0 THEN {} ELSE s[f[n - 1]]
  BY <1>6
<1>8. \A n \in 1 .. K : f[n] = f[n - 1] \cup LatestInCycle(Rest(E, f[n - 1])) /\ n - 1 \in 0 .. K
  <2> HIDE DEF X, K, s, out
  <2> SUFFICES ASSUME NEW n \in 1 .. K
               PROVE  f[n] = f[n - 1] \cup LatestInCycle(Rest(E, f[n - 1])) /\ n - 1 \in 0 .. K
    OBVIOUS
  <2>1. n \in 0 .. K /\ n # 0 /\ n - 1 \in 0 .. K
    BY <1>5
  <2>2. f[n - 1] \in X
    BY <2>1, <1>6
  <2>3. QED
    BY <2>1, <2>2, <1>7, <1>4
<1>9. f = [n \in 0 .. Cardinality(DOMAIN E) |->
             IF n = 0 THEN {} ELSE f[n - 1] \cup LatestInCycle(Rest(E, f[n - 1]))]
  <2> DEFINE g == [n \in 0 .. K |-> IF n = 0 THEN {} ELSE f[n - 1] \cup LatestInCycle(Rest(E, f[n - 1]))]
  <2>1. \A n \in 0 .. K : g[n] = IF n = 0 THEN {} ELSE f[n - 1] \cup LatestInCycle(Rest(E, f[n - 1]))
    OBVIOUS
  <2>2. g = [n \in 0 .. K |-> g[n]] /\ f = [n \in 0 .. K |-> f[n]]
    BY <1>6
  <2>3. \A n \in 0 .. K : f[n] = g[n]
    <3> HIDE DEF g, s, X, K, out
    <3> SUFFICES ASSUME NEW n \in 0 .. K PROVE f[n] = g[n]
      OBVIOUS
    <3>1. n = 0 \/ n \in 1 .. K
      BY <1>5
    <3>2. QED
      BY <3>1, <2>1, <1>7, <1>8
  <2> HIDE DEF g
  <2>4. f = g
    BY <2>2, <2>3
  <2>5. QED
    BY <2>4 DEF g
<1>10. out = [n \in 0 .. Cardinality(DOMAIN E) |->
                IF n = 0 THEN {} ELSE out[n - 1] \cup LatestInCycle(Rest(E, out[n - 1]))]
  BY <1>9 DEF out
<1>11. /\ out[0] = {}
       /\ \A n \in 1 .. K : out[n] = out[n - 1] \cup LatestInCycle(Rest(E, out[n - 1]))
  <2>1. \A n \in 0 .. K :
          out[n] = IF n = 0 THEN {} ELSE out[n - 1] \cup LatestInCycle(Rest(E, out[n - 1]))
    BY <1>10
  <2> HIDE DEF out, K
  <2>2. 0 \in 0 .. K /\ \A n \in 1 .. K : n \in 0 .. K /\ n # 0
    BY <1>5
  <2>3. out[0] = {}
    BY <2>1, <2>2
  <2>4. \A n \in 1 .. K : out[n] = out[n - 1] \cup LatestInCycle(Rest(E, out[n - 1]))
    BY <2>1, <2>2
  <2>5. QED
    BY <2>3, <2>4
<1>12. \A n \in 0 .. K : out[n] \in X
  <2>1. \A n \in 1 .. K : out[n - 1] \in X => out[n] \in X
    <3> HIDE DEF out, K, X
    <3> SUFFICES ASSUME NEW n \in 1 .. K, out[n - 1] \in X PROVE out[n] \in X
      OBVIOUS
    <3>1. out[n] = s[out[n - 1]]
      BY <1>4, <1>11
    <3> HIDE DEF s
    <3>2. QED
      BY <1>3, <3>1
  <2>2. out[0] \in X
    BY <1>2, <1>11
  <2> HIDE DEF out, K, X, s
  <2>3. QED
    BY <1>5, <2>1, <2>2, Stays
<1> HIDE DEF out
<1>13. IsExclusion(out, E, ExcludedEdges(recs, field))
  BY <1>1, <1>11, <1>12 DEF IsExclusion
<1>14. QED
  BY <1>13

\* What is left of the records when those excluded are out has no cycle, and what is
\* excluded are records of the field.
THEOREM ExclusionBreaksCycles ==
  ASSUME NEW recs, NEW field, NEW E, E = Edges(recs, field),
         IsFiniteSet(DOMAIN E), DOMAIN E \in SUBSET Nat, Ordered(E)
  PROVE  /\ ExcludedEdges(recs, field) \subseteq EdgeIds(E)
         /\ ~HasCycle(Pairs(Rest(E, ExcludedEdges(recs, field))))
<1> DEFINE K == Cardinality(DOMAIN E)
           T == EdgeIds(E)
           out == ExcludedEdges(recs, field)
<1>1. PICK w : IsExclusion(w, E, out)
  BY ExclusionUnfolds
<1>2. K \in Nat
  BY FS_CardinalityType
<1>3. /\ w[0] = {} /\ out = w[K]
      /\ \A n \in 0 .. K : w[n] \subseteq T
      /\ \A n \in 1 .. K : w[n] = w[n - 1] \cup LatestInCycle(Rest(E, w[n - 1]))
  BY <1>1 DEF IsExclusion
<1>4. IsFiniteSet(T) /\ Cardinality(T) <= K
  <2> DEFINE g == [i \in DOMAIN E |-> E[i].id]
  <2>1. T = {g[i] : i \in DOMAIN E}
    BY DEF EdgeIds
  <2> HIDE DEF g, T
  <2>2. QED
    BY <2>1, ImageIsFinite
<1> DEFINE Stop == {n \in Nat : LatestInCycle(Rest(E, w[n])) = {}}
<1>5. ASSUME NEW n \in Nat, n < K
      PROVE  IF n \in Stop THEN n + 1 \in Stop ELSE w[n] \subseteq w[n + 1] /\ w[n] # w[n + 1]
  <2>1. n + 1 \in 1 .. K /\ (n + 1) - 1 = n
    BY <1>2, <1>5
  <2>2. w[n + 1] = w[n] \cup LatestInCycle(Rest(E, w[n]))
    BY <1>3, <2>1
  <2>3. LatestInCycle(Rest(E, w[n])) \subseteq T \ w[n]
    BY RestIsLess, LatestInCycles
  <2>4. CASE n \in Stop
    <3>1. w[n + 1] = w[n]
      BY <2>2, <2>4
    <3>2. QED
      BY <2>4, <3>1
  <2>5. CASE n \notin Stop
    BY <2>2, <2>3, <2>5
  <2>6. QED
    BY <2>4, <2>5
<1>6. K \in Stop \/ w[K] = T
  <2> HIDE DEF K, T, Stop, out
  <2>1. QED
    BY <1>2, <1>3, <1>4, <1>5, GrowthEnds
<1>7. out \subseteq T
  <2>1. K \in 0 .. K
    BY <1>2
  <2>2. QED
    BY <1>3, <2>1
<1>8. ~HasCycle(Pairs(Rest(E, out)))
  <2>1. CASE K \in Stop
    <3>1. LatestInCycle(Rest(E, out)) = {}
      BY <1>3, <2>1
    <3> HIDE DEF out
    <3>2. QED
      BY <3>1, RestIsLess, LatestInCycles
  <2>2. CASE w[K] = T
    <3>1. EdgeIds(Rest(E, out)) = {}
      BY <1>3, <2>2, RestIsLess
    <3>2. Pairs(Rest(E, out)) = {}
      BY <3>1 DEF EdgeIds, Pairs
    <3>3. QED
      BY <3>2 DEF HasCycle, Ends
  <2>3. QED
    BY <1>6, <2>1, <2>2
<1>9. QED
  BY <1>7, <1>8
=============================================================================
