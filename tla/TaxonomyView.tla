----------------------------- MODULE TaxonomyView -----------------------------
(***************************************************************************)
(* The cycle-broken view of a taxonomy field (_active_taxonomy_edges): a     *)
(* depth-first search over the unretracted enrichments finds a cycle, the    *)
(* record with the latest timestamp is excluded, and the search starts over, *)
(* until it finds none.  The search visits records in the order in which the *)
(* store inserted them, which differs from replica to replica.               *)
(*                                                                           *)
(* What the search calls a cycle is the whole path from the concept at which *)
(* it started: the cycle, and the records that led to it.                    *)
(***************************************************************************)
EXTENDS Provenance

CONSTANTS Edge,    \* the enrichments of the field
          Rowids,  \* orders in which a store may have inserted them
          Stamp,   \* their timestamps
          Rank     \* the sort order of identifiers

ASSUME ViewAssumption ==
  /\ Edge \subseteq Enrichment
  /\ \A r \in Edge : Body[r].about \in Item /\ Body[r].entry \in Item
  /\ Rowids \subseteq [Edge -> Nat]
  /\ Stamp \in [Edge -> Nat]
  /\ Rank \in [Item -> Nat]

VARIABLES rowid,     \* the order of insertion
          active,    \* records not excluded yet
          excluded,  \* records excluded so far
          pc,        \* "scan" for a concept to start at, "search" from it, "done"
          root,      \* the concept that the search started at
          path,      \* the records from there to the concept it is at
          tried,     \* records that this search has looked at
          color      \* white: not visited; grey: on the path; black: finished

vars == <<rowid, active, excluded, pc, root, path, tried, color>>

About(r) == Body[r].about
Entry(r) == Body[r].entry

AllWhite == [c \in Item |-> "white"]

\* The concept the search is at, and the records that it has still to follow there.
Top == IF path = <<>> THEN root ELSE Entry(path[Len(path)])

Untried == {r \in active : About(r) = Top} \ tried

\* What the search takes for the cycle that record r completes.
Trail(r) == {path[j] : j \in DOMAIN path} \cup {r}

IsFirst(r, S)  == r \in S /\ \A q \in S : rowid[r] <= rowid[q]

IsLatest(r, S) ==
  /\ r \in S
  /\ \A q \in S : \/ Stamp[q] < Stamp[r]
                  \/ Stamp[q] = Stamp[r] /\ Rank[q] <= Rank[r]

-----------------------------------------------------------------------------
Init ==
  /\ rowid \in Rowids
  /\ active \in SUBSET Edge
  /\ excluded = {}
  /\ pc = "scan"
  /\ root = "none"
  /\ path = <<>>
  /\ tried = {}
  /\ color = AllWhite

\* Variant: a search may begin at a concept that it has visited.
BeginAnywhere ==
  /\ pc = "scan"
  /\ \E r \in active :
       /\ \E q \in active : color[About(q)] = "white"
       /\ IsFirst(r, active)
       /\ root' = About(r)
       /\ color' = [color EXCEPT ![About(r)] = "grey"]
  /\ pc' = "search"
  /\ UNCHANGED <<rowid, active, excluded, path, tried>>

\* The search begins at the next concept that it has not visited.
Begin ==
  /\ pc = "scan"
  /\ \E r \in active :
       /\ IsFirst(r, {q \in active : color[About(q)] = "white"})
       /\ root' = About(r)
       /\ color' = [color EXCEPT ![About(r)] = "grey"]
  /\ pc' = "search"
  /\ UNCHANGED <<rowid, active, excluded, path, tried>>

\* No concept is left: the graph has no cycle.
Finish ==
  /\ pc = "scan"
  /\ \A q \in active : color[About(q)] # "white"
  /\ pc' = "done"
  /\ UNCHANGED <<rowid, active, excluded, root, path, tried, color>>

\* The next record leads to a concept that is new: go there.
Follow ==
  /\ pc = "search"
  /\ \E r \in active :
       /\ IsFirst(r, Untried)
       /\ color[Entry(r)] = "white"
       /\ tried' = tried \cup {r}
       /\ path' = Append(path, r)
       /\ color' = [color EXCEPT ![Entry(r)] = "grey"]
  /\ UNCHANGED <<rowid, active, excluded, pc, root>>

\* Variant: a concept that has been visited is not looked at again.
PassByVisited ==
  /\ pc = "search"
  /\ \E r \in active :
       /\ IsFirst(r, Untried)
       /\ color[Entry(r)] # "white"
       /\ tried' = tried \cup {r}
  /\ UNCHANGED <<rowid, active, excluded, pc, root, path, color>>

\* It leads to a concept that is finished.
PassBy ==
  /\ pc = "search"
  /\ \E r \in active :
       /\ IsFirst(r, Untried)
       /\ color[Entry(r)] = "black"
       /\ tried' = tried \cup {r}
  /\ UNCHANGED <<rowid, active, excluded, pc, root, path, color>>

\* Variant: the excluded record is noted and stays in the graph.
ExcludeNoted ==
  /\ pc = "search"
  /\ \E r \in active :
       /\ IsFirst(r, Untried)
       /\ color[Entry(r)] = "grey"
       /\ \E l \in active : /\ IsLatest(l, Trail(r))
                           /\ excluded' = excluded \cup {l}
  /\ pc' = "scan"
  /\ path' = <<>>
  /\ tried' = {}
  /\ color' = AllWhite
  /\ UNCHANGED <<rowid, active, root>>

\* It leads back to the path: exclude the latest record of the path, start over.
Exclude ==
  /\ pc = "search"
  /\ \E r \in active :
       /\ IsFirst(r, Untried)
       /\ color[Entry(r)] = "grey"
       /\ \E l \in active : /\ IsLatest(l, Trail(r))
                           /\ active' = active \ {l}
                           /\ excluded' = excluded \cup {l}
  /\ pc' = "scan"
  /\ path' = <<>>
  /\ tried' = {}
  /\ color' = AllWhite
  /\ UNCHANGED <<rowid, root>>

\* Every record there is followed: the concept is finished, go back.
Leave ==
  /\ pc = "search"
  /\ Untried = {}
  /\ color' = [color EXCEPT ![Top] = "black"]
  /\ IF path = <<>>
       THEN pc' = "scan" /\ UNCHANGED path
       ELSE path' = SubSeq(path, 1, Len(path) - 1) /\ UNCHANGED pc
  /\ UNCHANGED <<rowid, active, excluded, root, tried>>

Next == Begin \/ Finish \/ Follow \/ PassBy \/ Exclude \/ Leave

Spec == Init /\ [][Next]_vars

\* The function is called and runs until it returns.
FairSpec == Spec /\ WF_vars(Next)

-----------------------------------------------------------------------------
(* Properties. *)

\* Every variable has its type; the path is a walk over the graph from the root.
TypeOK ==
  /\ rowid \in Rowids
  /\ active \subseteq Edge
  /\ excluded \subseteq Edge \ active
  /\ pc \in {"scan", "search", "done"}
  /\ pc = "search" => root \in Item
  /\ path \in Seq(active)
  /\ tried \subseteq active
  /\ color \in [Item -> {"white", "grey", "black"}]

\* The search finds a cycle whenever there is one, excludes only records that
\* lead into one, and its result has none: it implements CycleBreaking.
Promise == INSTANCE CycleBreaking WITH pc <- IF pc = "done" THEN "done" ELSE "busy"
ImplementsCycleBreaking == Promise!Spec

\* The loop of searches comes to an end.
ViewSettles == <>(pc = "done")

Visited == {c \in Item : color[c] # "white"}
Black   == {c \in Item : color[c] = "black"}

\* No work is done twice: each step excludes one more record, after which the search may
\* start over, or takes nothing back of the search that is under way and tries a record,
\* visits a concept, finishes one or ends.  Over a finite taxonomy there can only be so
\* many steps.
EveryStepCounts ==
  [][/\ pc # "done"
     /\ \/ excluded \subseteq excluded' /\ excluded' # excluded
        \/ /\ UNCHANGED <<active, excluded>>
           /\ tried \subseteq tried' /\ Visited \subseteq Visited' /\ Black \subseteq Black'
           /\ tried' # tried \/ Visited' # Visited \/ Black' # Black \/ pc' = "done"]_vars

\* Only a record that completes a cycle is excluded: from its entry one gets back
\* to what it is about.
OnlyCyclesLose ==
  [][\A r \in excluded' \ excluded : Reaches(active, Entry(r), About(r))]_vars
=============================================================================
