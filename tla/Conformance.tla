------------------------------ MODULE Conformance ------------------------------
(***************************************************************************)
(* The conformance runner of the Go SDK (conformance/main.go, embed.go and   *)
(* the loading of schemas in schema.go).  It finds the repository, decides   *)
(* where schemas come from, compares the compiled-in ones with those on      *)
(* disk, runs its internal checks and then the vectors one after another,    *)
(* and exits 0 only when all have passed.                                    *)
(*                                                                           *)
(* In installed mode the run is about the module as a consumer gets it, so   *)
(* the schemas must be the compiled-in ones; otherwise they are read from    *)
(* the repository.  A directory of schemas is a function from file names to  *)
(* contents.                                                                 *)
(***************************************************************************)
EXTENDS Integers, Sequences

CONSTANTS Environments,   \* what the runner may find when it starts
          Verdicts,       \* whether the SDK gives what each vector asks, in the order of the run
          InternalVerdict \* whether it passes the checks that come before the vectors

\* The suite reaches the first vector that reads each file of Needs.
ASSUME SuiteAssumption == /\ Verdicts \in Seq(BOOLEAN)
                          /\ Len(Verdicts) >= 88
                          /\ InternalVerdict \in BOOLEAN

VARIABLES env,      \* the environment: root, installed, binding, spec, disk, embedded
          override, \* the directory pinned by SetSchemaDir, or NoDir
          cache,    \* the schemas parsed so far, by file name
          phase,    \* "start", "guard", "drift", "checks", "vectors", "done"
          at,       \* the next vector
          failures,
          exit      \* the exit code, Running before there is one

vars == <<env, override, cache, phase, at, failures, exit>>

NoDir   == "none"
Running == -1

-----------------------------------------------------------------------------
(* Schemas: loadSchemaFile, SetSchemaDir, CheckEmbeddedSchemaDrift. *)

\* The directory that schemas are read from: the pinned one, the one that the
\* environment names, or else the compiled-in copy.
Source == CASE override # NoDir                    -> env.disk
            [] override = NoDir /\ env.spec # <<>> -> env.spec
            [] OTHER                               -> env.embedded

\* The first vectors that read a schema, for two of the files that they read.
Needs(n) == CASE n = 1  -> {"causal_relation_object"}
              [] n = 88 -> {"token"}
              [] OTHER  -> {}

Cached(files) == [f \in DOMAIN cache \cup (files \cap DOMAIN Source) |->
                    IF f \in DOMAIN cache THEN cache[f] ELSE Source[f]]

\* Both ways: no file is stale, none is missing and none is left over.
DriftFree(disk, embedded) ==
  /\ \A f \in DOMAIN disk : f \in DOMAIN embedded /\ disk[f] = embedded[f]
  /\ DOMAIN embedded \subseteq DOMAIN disk

\* Variant: only the place of the binding is looked at.
TrustedByPlace(e) == e.binding = "module cache"

\* What assertOutsideRepo and the look at CAUSALONTOLOGY_SPEC let pass.
Trusted(e) == e.binding = "module cache" /\ e.spec = <<>>

-----------------------------------------------------------------------------
Init ==
  /\ env \in Environments
  /\ override = NoDir
  /\ cache = <<>>
  /\ phase = "start"
  /\ at = 1
  /\ failures = 0
  /\ exit = Running

Stop(code) == phase' = "done" /\ exit' = code

\* One phase of main: it goes on to the next, or the runner exits with 1.
Check(from, ok, to) ==
  /\ phase = from
  /\ IF ok THEN phase' = to /\ UNCHANGED exit ELSE Stop(1)
  /\ UNCHANGED <<env, at, failures>>

FindRepoRoot == Check("start", env.root, "guard") /\ UNCHANGED <<override, cache>>

ChooseSchemas ==
  /\ Check("guard", env.installed => Trusted(env), "drift")
  /\ IF env.installed THEN UNCHANGED <<override, cache>>
     ELSE override' = "repository" /\ cache' = <<>>

CheckEmbeddedSchemaDrift ==
  Check("drift", DriftFree(env.disk, env.embedded), "checks") /\ UNCHANGED <<override, cache>>

InternalChecks == Check("checks", InternalVerdict, "vectors") /\ UNCHANGED <<override, cache>>

RunVector ==
  /\ phase = "vectors"
  /\ at <= Len(Verdicts)
  /\ failures' = IF Verdicts[at] /\ Needs(at) \subseteq DOMAIN Cached(Needs(at)) THEN failures
                 ELSE failures + 1
  /\ cache' = Cached(Needs(at))
  /\ at' = at + 1
  /\ UNCHANGED <<env, override, phase, exit>>

Report ==
  /\ phase = "vectors"
  /\ at > Len(Verdicts)
  /\ Stop(IF failures = 0 THEN 0 ELSE 1)
  /\ UNCHANGED <<env, override, cache, at, failures>>

Next == \/ FindRepoRoot \/ ChooseSchemas \/ CheckEmbeddedSchemaDrift
        \/ InternalChecks \/ RunVector \/ Report

Spec == Init /\ [][Next]_vars

-----------------------------------------------------------------------------
\* A module that carries its schemas passes every vector: the operators that
\* model the SDK give what the 137 conformance vectors ask of it.
AllVectorsPass ==
  {"causal_relation_object", "token"} \subseteq DOMAIN env.embedded => failures = 0

\* A run that ends with 0 says something about the module as it is shipped: every
\* schema that a document was judged by is byte for byte the compiled-in one, none
\* is missing from the module, and in installed mode none came from elsewhere.
VerdictIsAboutTheModule ==
  exit = 0 =>
    /\ {"causal_relation_object", "token"} \subseteq DOMAIN cache
    /\ \A f \in DOMAIN cache : f \in DOMAIN env.embedded /\ cache[f] = env.embedded[f]
    /\ env.installed => env.binding = "module cache" /\ override = NoDir
=============================================================================
