-------------------------- MODULE TaxonomyViewProofs --------------------------
(***************************************************************************)
(* The search of TaxonomyView is right for every set of records and every    *)
(* order of insertion: it implements CycleBreaking.                          *)
(***************************************************************************)
EXTENDS TaxonomyView, TLAPS

\* The concepts on a path p from x: x itself, then the entry of each record.
Node(x, p, j) == IF j = 1 THEN x ELSE Entry(p[j - 1])

\* The path is a walk; its concepts are the grey ones, each met once.
PathInv ==
  /\ pc # "search" => path = <<>>
  /\ \A j \in 1 .. Len(path) : About(path[j]) = Node(root, path, j)
  /\ \A i, j \in 1 .. Len(path) + 1 :
       pc = "search" /\ Node(root, path, i) = Node(root, path, j) => i = j
  /\ \A c \in Item : color[c] = "grey" <=> /\ pc = "search"
                                           /\ \E j \in 1 .. Len(path) + 1 : Node(root, path, j) = c

\* A record that was tried leads to a finished concept or is on the path.
TriedInv ==
  \A r \in tried : color[Entry(r)] = "black" \/ \E j \in 1 .. Len(path) : path[j] = r

\* The records of finished concepts.
Finished == {r \in active : color[About(r)] = "black"}

\* Finished concepts lead only to finished ones, and there is no cycle there.
BlackInv ==
  /\ \A r \in Finished : color[Entry(r)] = "black"
  /\ ~IsCyclic(Finished)

SearchInv == PathInv /\ TriedInv /\ BlackInv

-----------------------------------------------------------------------------
(* Type correctness. *)

LEMMA TypeInvariant == TypeOK /\ [Next]_vars => TypeOK'
<1> SUFFICES ASSUME TypeOK, [Next]_vars PROVE TypeOK'
  OBVIOUS
<1> USE DEF TypeOK, About, Entry
<1>1. CASE UNCHANGED vars
  BY <1>1 DEF vars
<1>2. CASE Begin
  BY <1>2, ViewAssumption DEF Begin
<1>3. CASE Finish
  BY <1>3 DEF Finish
<1>4. CASE Follow
  <2> PICK r \in active : /\ IsFirst(r, Untried)
                          /\ tried' = tried \cup {r}
                          /\ path' = Append(path, r)
                          /\ color' = [color EXCEPT ![Entry(r)] = "grey"]
    BY <1>4 DEF Follow
  <2>1. path' \in Seq(active')
    BY <1>4 DEF Follow
  <2>2. color' \in [Item -> {"white", "grey", "black"}]
    OBVIOUS
  <2>3. tried' \subseteq active'
    BY <1>4 DEF Follow
  <2>4. pc' = pc /\ root' = root /\ UNCHANGED <<rowid, active, excluded>>
    BY <1>4 DEF Follow
  <2> QED BY <2>1, <2>2, <2>3, <2>4
<1>5. CASE PassBy
  BY <1>5 DEF PassBy
<1>6. CASE Exclude
  <2>1. path' = <<>> /\ path' \in Seq(active')
    BY <1>6 DEF Exclude
  <2>2. color' \in [Item -> {"white", "grey", "black"}]
    BY <1>6 DEF Exclude, AllWhite
  <2> QED BY <1>6, <2>1, <2>2 DEF Exclude
<1>7. CASE Leave
  <2>1. path' \in Seq(active)
    <3>1. CASE path = <<>>
      BY <1>7, <3>1 DEF Leave
    <3>2. CASE path # <<>>
      <4>1. path' = SubSeq(path, 1, Len(path) - 1) /\ Len(path) \in Nat \ {0}
        BY <1>7, <3>2 DEF Leave
      <4> QED BY <4>1
    <3> QED BY <3>1, <3>2
  <2> QED BY <1>7, <2>1 DEF Leave
<1> QED BY <1>1, <1>2, <1>3, <1>4, <1>5, <1>6, <1>7 DEF Next

LEMMA InitialTypes == Init => TypeOK
BY DEF Init, TypeOK, AllWhite

\* Every variable keeps its type, and the path stays a sequence of records that
\* are in the graph (TypeOK; _active_taxonomy_edges).
THEOREM TypeCorrect == Spec => []TypeOK
BY InitialTypes, TypeInvariant, PTL DEF Spec

-----------------------------------------------------------------------------
(* The invariant of the search. *)

\* Where the path ends is its last concept.
LEMMA TopIsLast ==
  ASSUME TypeOK
  PROVE  /\ Top = Node(root, path, Len(path) + 1)
         /\ Len(path) \in Nat
         /\ \A j \in 1 .. Len(path) : path[j] \in active
BY DEF TypeOK, Top, Node

\* With all concepts white there is nothing to say.
LEMMA FreshSearch ==
  ASSUME color = AllWhite, path = <<>>, tried = {}, pc # "search",
         \A r \in active : About(r) \in Item
  PROVE  SearchInv
<1>1. Finished = {}
  BY DEF Finished, AllWhite
<1> QED BY <1>1 DEF SearchInv, PathInv, TriedInv, BlackInv, IsCyclic, AllWhite

LEMMA EndsInItems ==
  ASSUME TypeOK
  PROVE  \A r \in active : About(r) \in Item /\ Entry(r) \in Item
BY ViewAssumption DEF TypeOK, About, Entry

LEMMA BeginKeeps == TypeOK /\ SearchInv /\ Begin => SearchInv'
<1> SUFFICES ASSUME TypeOK, SearchInv, Begin PROVE SearchInv'
  OBVIOUS
<1> PICK r \in active : /\ color[About(r)] = "white"
                        /\ root' = About(r)
                        /\ color' = [color EXCEPT ![About(r)] = "grey"]
  BY DEF Begin, IsFirst
<1>1. /\ pc = "scan" /\ pc' = "search" /\ path = <<>> /\ path' = <<>>
      /\ active' = active /\ tried' = tried
  BY DEF Begin, SearchInv, PathInv
<1>2. About(r) \in Item /\ color \in [Item -> {"white", "grey", "black"}]
  BY EndsInItems DEF TypeOK
<1>3. PathInv'
  <2>1. Node(root', path', 1) = About(r) /\ 1 .. Len(path)' + 1 = {1} /\ 1 .. Len(path)' = {}
    BY <1>1 DEF Node
  <2>2. \A c \in Item : color[c] # "grey"
    BY <1>1 DEF SearchInv, PathInv
  <2> QED BY <1>1, <1>2, <2>1, <2>2 DEF PathInv
<1>4. TriedInv'
  BY <1>1, <1>2 DEF SearchInv, TriedInv, Entry
<1>5. BlackInv'
  <2>1. Finished' = Finished
    BY <1>1, <1>2, EndsInItems DEF Finished, About
  <2> QED BY <1>1, <1>2, <2>1, EndsInItems DEF SearchInv, BlackInv, Finished, Entry
<1> QED BY <1>3, <1>4, <1>5 DEF SearchInv

LEMMA FinishKeeps == TypeOK /\ SearchInv /\ Finish => SearchInv'
<1> SUFFICES ASSUME TypeOK, SearchInv, Finish PROVE SearchInv'
  OBVIOUS
<1>1. /\ pc = "scan" /\ pc' = "done"
      /\ UNCHANGED <<active, root, path, tried, color>>
  BY DEF Finish
<1>2. Finished' = Finished /\ \A j : Node(root', path', j) = Node(root, path, j)
  BY <1>1 DEF Finished, Node
<1> QED BY <1>1, <1>2 DEF SearchInv, PathInv, TriedInv, BlackInv

LEMMA FollowKeeps == TypeOK /\ SearchInv /\ Follow => SearchInv'
<1> SUFFICES ASSUME TypeOK, SearchInv, Follow PROVE SearchInv'
  OBVIOUS
<1> PICK r \in active : /\ r \in Untried
                        /\ color[Entry(r)] = "white"
                        /\ tried' = tried \cup {r}
                        /\ path' = Append(path, r)
                        /\ color' = [color EXCEPT ![Entry(r)] = "grey"]
  BY DEF Follow, IsFirst
<1> DEFINE n == Len(path)
<1>1. pc = "search" /\ UNCHANGED <<active, pc, root>>
  BY DEF Follow
<1>2. /\ n \in Nat /\ Len(path') = n + 1
      /\ \A j \in 1 .. n : path'[j] = path[j]
      /\ path'[n + 1] = r
      /\ color \in [Item -> {"white", "grey", "black"}]
      /\ About(r) \in Item /\ Entry(r) \in Item
  BY EndsInItems DEF TypeOK
<1>3. About(r) = Node(root, path, n + 1)
  BY TopIsLast DEF Untried
<1>0. n = Len(path)
  OBVIOUS
<1> HIDE DEF n
<1>4. /\ Node(root', path', n + 2) = Entry(r)
      /\ \A j \in 1 .. n + 1 : Node(root', path', j) = Node(root, path, j)
  <2>1. Node(root', path', n + 2) = Entry(r)
    BY <1>2 DEF Node, Entry
  <2>2. ASSUME NEW j \in 1 .. n + 1 PROVE Node(root', path', j) = Node(root, path, j)
    <3>1. CASE j = 1
      BY <1>1, <3>1 DEF Node
    <3>2. CASE j # 1
      <4>1. path'[j - 1] = path[j - 1]
        BY <1>2, <3>2
      <4> QED BY <3>2, <4>1 DEF Node, Entry
    <3> QED BY <3>1, <3>2
  <2> QED BY <2>1, <2>2
<1>5. \A j \in 1 .. n + 1 : Node(root, path, j) \in Item /\ Node(root, path, j) # Entry(r)
  <2> SUFFICES ASSUME NEW j \in 1 .. n + 1
               PROVE  Node(root, path, j) \in Item /\ Node(root, path, j) # Entry(r)
    OBVIOUS
  <2>1. Node(root, path, j) \in Item
    BY <1>0, <1>1, TopIsLast, EndsInItems DEF Node, TypeOK
  <2>2. color[Node(root, path, j)] = "grey"
    BY <1>0, <1>1, <2>1 DEF SearchInv, PathInv
  <2> QED BY <2>1, <2>2
<1>6. PathInv'
  <2>1. \A j \in 1 .. Len(path') : About(path'[j]) = Node(root', path', j)
    <3>1. \A j \in 1 .. n : About(path[j]) = Node(root, path, j)
      BY <1>0 DEF SearchInv, PathInv
    <3> QED BY <1>2, <1>3, <1>4, <3>1
  <2>2. \A i, j \in 1 .. Len(path') + 1 : Node(root', path', i) = Node(root', path', j) => i = j
    <3>1. \A i, j \in 1 .. n + 1 : Node(root, path, i) = Node(root, path, j) => i = j
      BY <1>0, <1>1 DEF SearchInv, PathInv
    <3>2. \A j \in 1 .. Len(path') + 1 : j \in 1 .. n + 1 \/ j = n + 2
      BY <1>2
    <3> QED BY <1>4, <1>5, <3>1, <3>2
  <2>3. \A c \in Item : color'[c] = "grey"
                          <=> \E j \in 1 .. Len(path') + 1 : Node(root', path', j) = c
    <3> SUFFICES ASSUME NEW c \in Item
                 PROVE  color'[c] = "grey"
                          <=> \E j \in 1 .. Len(path') + 1 : Node(root', path', j) = c
      OBVIOUS
    <3>1. CASE c = Entry(r)
      <4>1. color'[c] = "grey"
        BY <1>2, <3>1
      <4>2. n + 2 \in 1 .. Len(path') + 1
        BY <1>2
      <4> QED BY <1>4, <3>1, <4>1, <4>2
    <3>2. CASE c # Entry(r)
      <4>1. color'[c] = color[c]
        BY <1>2, <3>2
      <4>2. color[c] = "grey" <=> \E j \in 1 .. n + 1 : Node(root, path, j) = c
        BY <1>0, <1>1 DEF SearchInv, PathInv
      <4>3. \A j \in 1 .. Len(path') + 1 : j \in 1 .. n + 1 \/ j = n + 2
        BY <1>2
      <4>4. \A j \in 1 .. n + 1 : j \in 1 .. Len(path') + 1
        BY <1>2
      <4> QED BY <1>4, <3>2, <4>1, <4>2, <4>3, <4>4
    <3> QED BY <3>1, <3>2
  <2> QED BY <1>1, <2>1, <2>2, <2>3 DEF PathInv, About
<1>7. TriedInv'
  BY <1>2 DEF SearchInv, TriedInv, Entry
<1>8. BlackInv'
  <2>1. Finished' = Finished
    BY <1>1, <1>2, EndsInItems DEF Finished, About
  <2> QED BY <1>1, <1>2, <2>1, EndsInItems DEF SearchInv, BlackInv, Finished, Entry
<1> QED BY <1>6, <1>7, <1>8 DEF SearchInv

LEMMA PassByKeeps == TypeOK /\ SearchInv /\ PassBy => SearchInv'
<1> SUFFICES ASSUME TypeOK, SearchInv, PassBy PROVE SearchInv'
  OBVIOUS
<1> PICK r \in active : color[Entry(r)] = "black" /\ tried' = tried \cup {r}
  BY DEF PassBy
<1>1. UNCHANGED <<active, pc, root, path, color>>
  BY DEF PassBy
<1>2. Finished' = Finished /\ \A j : Node(root', path', j) = Node(root, path, j)
  BY <1>1 DEF Finished, Node
<1>3. PathInv' /\ BlackInv'
  BY <1>1, <1>2 DEF SearchInv, PathInv, BlackInv
<1>4. TriedInv'
  BY <1>1 DEF SearchInv, TriedInv, Entry
<1> QED BY <1>3, <1>4 DEF SearchInv

LEMMA ExcludeKeeps == TypeOK /\ Exclude => SearchInv'
<1> SUFFICES ASSUME TypeOK, Exclude PROVE SearchInv'
  OBVIOUS
<1>1. color' = AllWhite /\ path' = <<>> /\ tried' = {} /\ pc' = "scan" /\ active' \subseteq active
  BY DEF Exclude
<1>2. Finished' = {}
  BY <1>1, EndsInItems DEF Finished, AllWhite, About
<1> QED BY <1>1, <1>2 DEF SearchInv, PathInv, TriedInv, BlackInv, IsCyclic, AllWhite

\* When all records of a concept have been tried they lead to finished concepts.
LEMMA LeadsToFinished ==
  ASSUME TypeOK, SearchInv, pc = "search", Untried = {}
  PROVE  \A r \in active : About(r) = Top => color[Entry(r)] = "black"
<1> SUFFICES ASSUME NEW r \in active, About(r) = Top, color[Entry(r)] # "black" PROVE FALSE
  OBVIOUS
<1>1. r \in tried
  BY DEF Untried
<1>2. PICK j \in 1 .. Len(path) : path[j] = r
  BY <1>1 DEF SearchInv, TriedInv
<1>3. Node(root, path, j) = Node(root, path, Len(path) + 1)
  BY <1>2, TopIsLast DEF SearchInv, PathInv
<1>4. j \in 1 .. Len(path) + 1 /\ Len(path) + 1 \in 1 .. Len(path) + 1
  BY TopIsLast
<1>5. j = Len(path) + 1
  BY <1>3, <1>4 DEF SearchInv, PathInv
<1> QED BY <1>2, <1>5, TopIsLast

LEMMA LeaveKeeps == TypeOK /\ SearchInv /\ Leave => SearchInv'
<1> SUFFICES ASSUME TypeOK, SearchInv, Leave PROVE SearchInv'
  OBVIOUS
<1> DEFINE n == Len(path)
<1>1. /\ pc = "search" /\ Untried = {} /\ UNCHANGED <<active, root, tried>>
      /\ color' = [color EXCEPT ![Top] = "black"]
  BY DEF Leave
<1>2. n = Len(path) /\ n \in Nat /\ color \in [Item -> {"white", "grey", "black"}]
  BY DEF TypeOK
<1> HIDE DEF n
<1>3. Top = Node(root, path, n + 1) /\ Top \in Item
  BY <1>1, <1>2, TopIsLast, EndsInItems DEF Node, TypeOK
<1>4. \A c \in Item : color'[c] = IF c = Top THEN "black" ELSE color[c]
  BY <1>1, <1>2
<1>5. \A r \in active : About(r) = Top => color[Entry(r)] = "black"
  BY <1>1, LeadsToFinished
<1>6. PathInv'
  <2>1. /\ \A i, j \in 1 .. n + 1 : Node(root, path, i) = Node(root, path, j) => i = j
        /\ \A c \in Item : color[c] = "grey" <=> \E j \in 1 .. n + 1 : Node(root, path, j) = c
        /\ \A j \in 1 .. n : About(path[j]) = Node(root, path, j)
    BY <1>1, <1>2 DEF SearchInv, PathInv
  <2>2. CASE path = <<>>
    <3>1. n = 0 /\ path' = <<>> /\ pc' = "scan" /\ 1 .. Len(path') = {}
      BY <1>2, <2>2 DEF Leave
    <3>2. \A j \in 1 .. n + 1 : j = n + 1
      BY <3>1
    <3>3. \A c \in Item : color'[c] # "grey"
      BY <1>3, <1>4, <2>1, <3>2
    <3> QED BY <3>1, <3>3 DEF PathInv
  <2>3. CASE path # <<>>
    <3>1. /\ n \in Nat \ {0} /\ pc' = "search" /\ Len(path') = n - 1
          /\ \A j \in 1 .. n - 1 : path'[j] = path[j]
      BY <1>1, <1>2, <2>3 DEF Leave, TypeOK
    <3>2. \A j \in 1 .. n : Node(root', path', j) = Node(root, path, j)
      <4> SUFFICES ASSUME NEW j \in 1 .. n PROVE Node(root', path', j) = Node(root, path, j)
        OBVIOUS
      <4>1. CASE j = 1
        BY <1>1, <4>1 DEF Node
      <4>2. CASE j # 1
        <5>1. path'[j - 1] = path[j - 1]
          BY <3>1, <4>2
        <5> QED BY <4>2, <5>1 DEF Node
      <4> QED BY <4>1, <4>2
    <3>3. 1 .. Len(path') + 1 = 1 .. n /\ 1 .. Len(path') \subseteq 1 .. n
      BY <3>1
    <3>4. \A j \in 1 .. n : j \in 1 .. n + 1 /\ j # n + 1
      BY <3>1
    <3>5. \A j \in 1 .. Len(path') : About(path'[j]) = Node(root', path', j)
      BY <2>1, <3>1, <3>2, <3>3
    <3>6. \A i, j \in 1 .. n : Node(root', path', i) = Node(root', path', j) => i = j
      BY <2>1, <3>2, <3>4
    <3>7. \A c \in Item : color'[c] = "grey" <=> \E j \in 1 .. n : Node(root', path', j) = c
      <4> SUFFICES ASSUME NEW c \in Item
                   PROVE  color'[c] = "grey" <=> \E j \in 1 .. n : Node(root', path', j) = c
        OBVIOUS
      <4>1. n + 1 \in 1 .. n + 1 /\ \A j \in 1 .. n + 1 : j # n + 1 => j \in 1 .. n
        BY <3>1
      <4>2. CASE c = Top
        BY <1>3, <1>4, <2>1, <3>2, <3>4, <4>1, <4>2
      <4>3. CASE c # Top
        BY <1>3, <1>4, <2>1, <3>2, <3>4, <4>1, <4>3
      <4> QED BY <4>2, <4>3
    <3> QED BY <3>1, <3>3, <3>5, <3>6, <3>7 DEF PathInv
  <2> QED BY <2>2, <2>3
<1>7. TriedInv'
  <2> SUFFICES ASSUME NEW r \in tried
               PROVE  color'[Entry(r)] = "black" \/ \E j \in 1 .. Len(path') : path'[j] = r
    BY <1>1 DEF TriedInv, Entry
  <2>1. Entry(r) \in Item
    BY EndsInItems DEF TypeOK
  <2>2. CASE color[Entry(r)] = "black"
    BY <1>4, <2>1, <2>2
  <2>3. CASE color[Entry(r)] # "black"
    <3>1. PICK j \in 1 .. n : path[j] = r
      BY <1>2, <2>3 DEF SearchInv, TriedInv
    <3>2. CASE j = n
      <4>1. Entry(r) = Top
        BY <1>2, <1>3, <3>1, <3>2 DEF Node
      <4> QED BY <1>4, <2>1, <4>1
    <3>3. CASE j # n
      <4>1. path # <<>>
        BY <1>2, <3>1
      <4>2. path' = SubSeq(path, 1, Len(path) - 1)
        BY <4>1 DEF Leave
      <4>3. j \in 1 .. Len(path') /\ path'[j] = path[j]
        BY <1>2, <3>1, <3>3, <4>2 DEF TypeOK
      <4> QED BY <3>1, <4>3
    <3> QED BY <3>2, <3>3
  <2> QED BY <2>2, <2>3
<1>8. BlackInv'
  <2>1. Finished' = Finished \cup {r \in active : About(r) = Top}
    <3> SUFFICES ASSUME NEW r \in active
                 PROVE  color'[About(r)] = "black" <=> color[About(r)] = "black" \/ About(r) = Top
      BY <1>1 DEF Finished, About
    <3> QED BY <1>4, EndsInItems
  <2>2. \A r \in Finished' : color[Entry(r)] = "black"
    BY <1>5, <2>1 DEF SearchInv, BlackInv
  <2>3. \A r \in Finished' : color'[Entry(r)] = "black"
    BY <1>4, <2>1, <2>2, EndsInItems DEF Finished
  <2>4. ~IsCyclic(Finished')
    <3> SUFFICES ASSUME IsCyclic(Finished') PROVE FALSE
      OBVIOUS
    <3>1. PICK C \in SUBSET Finished' : /\ C # {}
                                       /\ \A r \in C : \E s \in C : Entry(r) = About(s)
      BY DEF IsCyclic, Entry, About
    <3>2. \A r \in C : \E s \in C \cap Finished : Entry(r) = About(s)
      <4> SUFFICES ASSUME NEW r \in C PROVE \E s \in C \cap Finished : Entry(r) = About(s)
        OBVIOUS
      <4>1. PICK s \in C : Entry(r) = About(s)
        BY <3>1
      <4>2. color[About(s)] = "black" /\ s \in active
        BY <2>1, <2>2, <4>1 DEF Finished
      <4> QED BY <4>1, <4>2 DEF Finished
    <3>3. C \cap Finished \in SUBSET Finished /\ C \cap Finished # {}
      BY <3>1, <3>2
    <3>4. IsCyclic(Finished)
      BY <3>2, <3>3 DEF IsCyclic, Entry, About
    <3> QED BY <3>4 DEF SearchInv, BlackInv
  <2> QED BY <2>3, <2>4 DEF BlackInv, Entry
<1> QED BY <1>6, <1>7, <1>8 DEF SearchInv

LEMMA SearchInvariant == TypeOK /\ SearchInv /\ [Next]_vars => SearchInv'
<1> SUFFICES ASSUME TypeOK, SearchInv, UNCHANGED vars PROVE SearchInv'
  BY BeginKeeps, FinishKeeps, FollowKeeps, PassByKeeps, ExcludeKeeps, LeaveKeeps DEF Next
<1> QED BY DEF vars, SearchInv, PathInv, TriedInv, BlackInv, Finished, Node

LEMMA InitialSearch == Init => SearchInv
BY InitialTypes, FreshSearch, EndsInItems DEF Init

LEMMA SearchIsRight == Spec => [](TypeOK /\ SearchInv)
BY InitialTypes, InitialSearch, TypeInvariant, SearchInvariant, PTL DEF Spec

-----------------------------------------------------------------------------
(* Refinement. *)

\* The scan has seen every concept only if there is no cycle.
LEMMA FinishImplements == TypeOK /\ SearchInv /\ Finish => Promise!Finish
<1> SUFFICES ASSUME TypeOK, SearchInv, Finish PROVE Promise!Finish
  OBVIOUS
<1>1. \A c \in Item : color[c] # "grey"
  BY DEF Finish, SearchInv, PathInv
<1>2. Finished = active
  BY <1>1, EndsInItems DEF Finish, Finished, TypeOK
<1>3. ~Promise!IsCyclic(active)
  BY <1>2 DEF SearchInv, BlackInv, IsCyclic, Promise!IsCyclic
<1> QED BY <1>3 DEF Finish, Promise!Finish

\* What leads back to the path is, with the path, a set of records that one can
\* follow for ever.
LEMMA ExcludeImplements == TypeOK /\ SearchInv /\ Exclude => \E l \in Edge : Promise!Exclude(l)
<1> SUFFICES ASSUME TypeOK, SearchInv, Exclude PROVE \E l \in Edge : Promise!Exclude(l)
  OBVIOUS
<1> PICK r \in active : /\ r \in Untried
                        /\ color[Entry(r)] = "grey"
                        /\ \E l \in active : /\ IsLatest(l, Trail(r))
                                            /\ active' = active \ {l}
  BY DEF Exclude, IsFirst
<1> PICK l \in active : l \in Trail(r) /\ active' = active \ {l}
  BY DEF IsLatest
<1> DEFINE n == Len(path)
<1>1. n = Len(path) /\ n \in Nat /\ pc = "search" /\ pc' = "scan" /\ DOMAIN path = 1 .. n
  BY DEF TypeOK, Exclude
<1> HIDE DEF n
<1>2. Trail(r) \in SUBSET active
  BY <1>1, TopIsLast DEF Trail
<1>3. About(r) = Node(root, path, n + 1)
  BY <1>1, TopIsLast DEF Untried
<1>4. \A j \in 1 .. n + 1 : \E s \in Trail(r) : Node(root, path, j) = About(s)
  <2> SUFFICES ASSUME NEW j \in 1 .. n + 1
               PROVE  \E s \in Trail(r) : Node(root, path, j) = About(s)
    OBVIOUS
  <2>1. CASE j = n + 1
    BY <1>3, <2>1 DEF Trail
  <2>2. CASE j # n + 1
    <3>1. j \in 1 .. n /\ path[j] \in Trail(r)
      BY <1>1, <2>2 DEF Trail
    <3>2. About(path[j]) = Node(root, path, j)
      BY <1>1, <3>1 DEF SearchInv, PathInv
    <3> QED BY <3>1, <3>2
  <2> QED BY <2>1, <2>2
<1>5. \A q \in Trail(r) : \E j \in 1 .. n + 1 : Entry(q) = Node(root, path, j)
  <2> SUFFICES ASSUME NEW q \in Trail(r)
               PROVE  \E j \in 1 .. n + 1 : Entry(q) = Node(root, path, j)
    OBVIOUS
  <2>1. CASE q = r
    BY <1>1, <2>1, EndsInItems DEF SearchInv, PathInv
  <2>2. CASE q # r
    <3>1. PICK j \in 1 .. n : q = path[j]
      BY <1>1, <2>2 DEF Trail
    <3>2. j + 1 \in 1 .. n + 1 /\ j + 1 # 1 /\ (j + 1) - 1 = j
      BY <1>1
    <3>3. Entry(q) = Node(root, path, j + 1)
      BY <3>1, <3>2 DEF Node
    <3> QED BY <3>2, <3>3
  <2> QED BY <2>1, <2>2
<1>6. \A q \in Trail(r) : \E s \in Trail(r) : Body[q].entry = Body[s].about
  BY <1>4, <1>5 DEF Entry, About
<1>7. Promise!Endless(active, l)
  BY <1>2, <1>6 DEF Promise!Endless
<1>8. Promise!Exclude(l)
  BY <1>1, <1>7 DEF Promise!Exclude
<1> QED BY <1>8 DEF TypeOK

LEMMA StepImplements ==
  TypeOK /\ SearchInv /\ [Next]_vars
    => [Promise!Next]_<<active, IF pc = "done" THEN "done" ELSE "busy">>
<1> SUFFICES ASSUME TypeOK, SearchInv, [Next]_vars
             PROVE  \/ Promise!Next
                    \/ UNCHANGED <<active, IF pc = "done" THEN "done" ELSE "busy">>
  OBVIOUS
<1>1. CASE Finish
  BY <1>1, FinishImplements DEF Promise!Next
<1>2. CASE Exclude
  BY <1>2, ExcludeImplements DEF Promise!Next
<1>3. CASE Begin \/ Follow \/ PassBy \/ Leave
  BY <1>3 DEF Begin, Follow, PassBy, Leave
<1>4. CASE UNCHANGED vars
  BY <1>4 DEF vars
<1> QED BY <1>1, <1>2, <1>3, <1>4 DEF Next

LEMMA InitImplements == Init => Promise!Init
BY DEF Init, Promise!Init

\* The view loses only records that lead into a cycle and ends without one, for
\* every set of records, order of insertion and choice of timestamps
\* (ImplementsCycleBreaking; _active_taxonomy_edges and _find_cycle_records).
THEOREM ViewImplementsCycleBreaking == Spec => ImplementsCycleBreaking
BY SearchIsRight, InitImplements, StepImplements, PTL
   DEF Spec, ImplementsCycleBreaking, Promise!Spec

-----------------------------------------------------------------------------
(* Progress. *)

\* The step of EveryStepCounts.
StepCounts ==
  /\ pc # "done"
  /\ \/ excluded \subseteq excluded' /\ excluded' # excluded
     \/ /\ UNCHANGED <<active, excluded>>
        /\ tried \subseteq tried' /\ Visited \subseteq Visited' /\ Black \subseteq Black'
        /\ tried' # tried \/ Visited' # Visited \/ Black' # Black \/ pc' = "done"

\* A concept that turns from white to grey is visited, and nothing else changes.
LEMMA GreyVisits ==
  ASSUME TypeOK, NEW c \in Item, color[c] = "white", color' = [color EXCEPT ![c] = "grey"]
  PROVE  Visited \subseteq Visited' /\ Visited' # Visited /\ Black' = Black
<1>1. \A d \in Item : color'[d] = IF d = c THEN "grey" ELSE color[d]
  BY DEF TypeOK
<1>2. Visited \subseteq Visited' /\ Black' = Black
  BY <1>1 DEF Visited, Black
<1>3. c \in Visited' /\ c \notin Visited
  BY <1>1 DEF Visited
<1> QED BY <1>2, <1>3

\* A concept that turns from grey to black is finished, and nothing else changes.
LEMMA BlackFinishes ==
  ASSUME TypeOK, NEW c \in Item, color[c] = "grey", color' = [color EXCEPT ![c] = "black"]
  PROVE  Visited' = Visited /\ Black \subseteq Black' /\ Black' # Black
<1>1. \A d \in Item : color'[d] = IF d = c THEN "black" ELSE color[d]
  BY DEF TypeOK
<1>2. Visited' = Visited /\ Black \subseteq Black'
  BY <1>1 DEF Visited, Black
<1>3. c \in Black' /\ c \notin Black
  BY <1>1 DEF Black
<1> QED BY <1>2, <1>3

\* Where the search is, it has not finished.
LEMMA TopIsGrey ==
  ASSUME TypeOK, SearchInv, pc = "search"
  PROVE  Top \in Item /\ color[Top] = "grey"
<1>1. Top = Node(root, path, Len(path) + 1) /\ Len(path) + 1 \in 1 .. Len(path) + 1
  BY TopIsLast
<1>2. Top \in Item
  BY TopIsLast, EndsInItems DEF Top, TypeOK
<1> QED BY <1>1, <1>2 DEF SearchInv, PathInv

LEMMA NextCounts == TypeOK /\ SearchInv /\ Next => StepCounts
<1> SUFFICES ASSUME TypeOK, SearchInv, Next PROVE StepCounts
  OBVIOUS
<1>1. CASE Begin
  <2> PICK r \in active : /\ color[About(r)] = "white"
                          /\ color' = [color EXCEPT ![About(r)] = "grey"]
    BY <1>1 DEF Begin, IsFirst
  <2>1. Visited \subseteq Visited' /\ Visited' # Visited /\ Black' = Black
    BY EndsInItems, GreyVisits
  <2> QED BY <1>1, <2>1 DEF Begin, StepCounts
<1>2. CASE Finish
  BY <1>2 DEF Finish, StepCounts, Visited, Black
<1>3. CASE Follow
  <2> PICK r \in active : /\ color[Entry(r)] = "white"
                          /\ tried' = tried \cup {r}
                          /\ color' = [color EXCEPT ![Entry(r)] = "grey"]
    BY <1>3 DEF Follow
  <2>1. Visited \subseteq Visited' /\ Visited' # Visited /\ Black' = Black
    BY EndsInItems, GreyVisits
  <2> QED BY <1>3, <2>1 DEF Follow, StepCounts
<1>4. CASE PassBy
  <2> PICK r \in active : r \in Untried /\ tried' = tried \cup {r}
    BY <1>4 DEF PassBy, IsFirst
  <2>1. tried' # tried /\ tried \subseteq tried'
    BY DEF Untried
  <2> QED BY <1>4, <2>1 DEF PassBy, StepCounts, Visited, Black
<1>5. CASE Exclude
  <2> PICK l \in active : excluded' = excluded \cup {l}
    BY <1>5 DEF Exclude
  <2>1. l \notin excluded
    BY DEF TypeOK
  <2> QED BY <1>5, <2>1 DEF Exclude, StepCounts
<1>6. CASE Leave
  <2>1. pc = "search" /\ color' = [color EXCEPT ![Top] = "black"]
    BY <1>6 DEF Leave
  <2>2. Visited' = Visited /\ Black \subseteq Black' /\ Black' # Black
    BY <2>1, TopIsGrey, BlackFinishes
  <2> QED BY <1>6, <2>1, <2>2 DEF Leave, StepCounts
<1> QED BY <1>1, <1>2, <1>3, <1>4, <1>5, <1>6 DEF Next

\* The loop of searches takes no step for nothing, for every set of records and order
\* of insertion: with finitely many records it comes to an end (EveryStepCounts).
THEOREM NoStepIsWasted == Spec => EveryStepCounts
<1>1. TypeOK /\ SearchInv /\ [Next]_vars => [StepCounts]_vars
  BY NextCounts
<1> QED BY <1>1, SearchIsRight, PTL DEF Spec, EveryStepCounts, StepCounts
=============================================================================
