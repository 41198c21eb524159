----------------------------- MODULE MCConformance -----------------------------
(***************************************************************************)
(* The conformance runner for TLC: every combination of the two modes, of    *)
(* the places a binding may be found in, and of schema directories that are  *)
(* complete, stale or short of a file.                                       *)
(***************************************************************************)
EXTENDS Conformance, Vectors

MCRank(id) == 0

MCCanonLabel(text) == IF text = "Press  The   Button" THEN "press_the_button" ELSE text

MCNormAlias(text) ==
  IF text \in {"Press  The   Button", "Press the Button"} THEN "press the button" ELSE text

Fresh == [causal_relation_object |-> "new", token |-> "new"]
Stale == [causal_relation_object |-> "new", token |-> "old"]
Short == [causal_relation_object |-> "new"]

MCEnvironments ==
  [root      : BOOLEAN,
   installed : BOOLEAN,
   binding   : {"module cache", "repository", "unknown"},
   spec      : {<<>>, Fresh, Stale},
   disk      : {Fresh, Stale, Short},
   embedded  : {Fresh, Short}]
=============================================================================
