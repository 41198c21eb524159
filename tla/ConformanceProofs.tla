--------------------------- MODULE ConformanceProofs ---------------------------
(***************************************************************************)
(* What exit 0 of the conformance runner means, for any schema directories   *)
(* and whatever the vectors say.                                             *)
(***************************************************************************)
EXTENDS Conformance, TLAPS

Files == {"causal_relation_object", "token"}

Past(S) == phase \in S

\* Where schemas are read from once the mode is known.
ModeInv ==
  /\ Past({"start", "guard"}) => override = NoDir /\ cache = <<>>
  /\ Past({"drift", "checks", "vectors"}) =>
       IF env.installed THEN Trusted(env) /\ override = NoDir ELSE override = "repository"
  /\ Past({"drift"}) => cache = <<>>
  /\ Past({"checks", "vectors"}) => DriftFree(env.disk, env.embedded)

CacheInv ==
  \A f \in DOMAIN cache : f \in DOMAIN env.embedded /\ cache[f] = env.embedded[f]

\* A vector that misses a schema file fails.
NeedsInv ==
  /\ at \in Nat \ {0}
  /\ failures \in Nat
  /\ failures = 0 /\ at > 1  => "causal_relation_object" \in DOMAIN cache
  /\ failures = 0 /\ at > 88 => "token" \in DOMAIN cache

ExitInv ==
  /\ phase # "done" => exit = Running
  /\ VerdictIsAboutTheModule

RunnerInv == ModeInv /\ CacheInv /\ NeedsInv /\ ExitInv

LEMMA InitRunnerInv == Init => RunnerInv
BY DEF Init, RunnerInv, ModeInv, CacheInv, NeedsInv, ExitInv, Past, NoDir, Running,
       VerdictIsAboutTheModule

\* With a checked mode and no drift, any source of schemas agrees with the module.
LEMMA SourceIsShipped ==
  ASSUME RunnerInv, phase = "vectors"
  PROVE  \A f \in DOMAIN Source : f \in DOMAIN env.embedded /\ Source[f] = env.embedded[f]
<1>1. CASE env.installed
  <2>1. Source = env.embedded
    BY <1>1 DEF RunnerInv, ModeInv, Past, Trusted, Source
  <2>2. QED
    BY <2>1
<1>2. CASE ~env.installed
  <2>1. Source = env.disk
    BY <1>2 DEF RunnerInv, ModeInv, Past, Source, NoDir
  <2>2. DriftFree(env.disk, env.embedded)
    BY DEF RunnerInv, ModeInv, Past
  <2>3. QED
    BY <2>1, <2>2 DEF DriftFree
<1>3. QED
  BY <1>1, <1>2

LEMMA CheckKeepsExit ==
  ASSUME NEW from, NEW ok, NEW to, Check(from, ok, to), from # "done", to # "done", ExitInv,
         RunnerInv
  PROVE  ExitInv' /\ (phase' = to \/ phase' = "done") /\ phase = from
<1>1. /\ phase = from
      /\ \/ phase' = to /\ exit' = exit
         \/ phase' = "done" /\ exit' = 1
  BY DEF Check, Stop
<1>2. exit' # 0
  BY <1>1 DEF ExitInv, Running
<1>3. QED
  BY <1>1, <1>2 DEF ExitInv, VerdictIsAboutTheModule, Running

LEMMA StepRunnerInv == RunnerInv /\ [Next]_vars => RunnerInv'
<1> SUFFICES ASSUME RunnerInv, [Next]_vars
             PROVE  RunnerInv'
  OBVIOUS
<1>1. CASE UNCHANGED vars
  BY <1>1 DEF vars, RunnerInv, ModeInv, CacheInv, NeedsInv, ExitInv, Past, VerdictIsAboutTheModule
<1>2. CASE FindRepoRoot
  <2>1. ExitInv' /\ (phase' = "guard" \/ phase' = "done") /\ phase = "start"
    BY <1>2, CheckKeepsExit DEF FindRepoRoot, RunnerInv
  <2>2. UNCHANGED <<env, at, failures, override, cache>>
    BY <1>2 DEF FindRepoRoot, Check
  <2>3. QED
    BY <2>1, <2>2 DEF RunnerInv, ModeInv, CacheInv, NeedsInv, Past
<1>3. CASE ChooseSchemas
  <2>1. ExitInv' /\ (phase' = "drift" \/ phase' = "done") /\ phase = "guard"
    BY <1>3, CheckKeepsExit DEF ChooseSchemas, RunnerInv
  <2>2. UNCHANGED <<env, at, failures>>
    BY <1>3 DEF ChooseSchemas, Check
  <2>3. cache = <<>> /\ cache' = <<>>
    BY <1>3, <2>1 DEF ChooseSchemas, RunnerInv, ModeInv, Past
  <2>4. phase' = "drift" => IF env.installed THEN Trusted(env) /\ override' = NoDir
                            ELSE override' = "repository"
    BY <1>3, <2>1 DEF ChooseSchemas, Check, Stop, RunnerInv, ModeInv, Past
  <2>5. ModeInv'
    BY <2>1, <2>2, <2>3, <2>4 DEF ModeInv, Past
  <2>6. QED
    BY <2>1, <2>2, <2>3, <2>5 DEF RunnerInv, CacheInv, NeedsInv
<1>4. CASE CheckEmbeddedSchemaDrift
  <2>1. ExitInv' /\ (phase' = "checks" \/ phase' = "done") /\ phase = "drift"
    BY <1>4, CheckKeepsExit DEF CheckEmbeddedSchemaDrift, RunnerInv
  <2>2. UNCHANGED <<env, at, failures, override, cache>>
    BY <1>4 DEF CheckEmbeddedSchemaDrift, Check
  <2>3. phase' = "checks" => DriftFree(env.disk, env.embedded)
    BY <1>4, <2>1 DEF CheckEmbeddedSchemaDrift, Check, Stop
  <2>4. QED
    BY <2>1, <2>2, <2>3 DEF RunnerInv, ModeInv, CacheInv, NeedsInv, Past
<1>5. CASE InternalChecks
  <2>1. ExitInv' /\ (phase' = "vectors" \/ phase' = "done") /\ phase = "checks"
    BY <1>5, CheckKeepsExit DEF InternalChecks, RunnerInv
  <2>2. UNCHANGED <<env, at, failures, override, cache>>
    BY <1>5 DEF InternalChecks, Check
  <2>3. QED
    BY <2>1, <2>2 DEF RunnerInv, ModeInv, CacheInv, NeedsInv, Past
<1>6. CASE RunVector
  <2>1. /\ phase = "vectors" /\ phase' = "vectors" /\ exit' = exit
        /\ UNCHANGED <<env, override>> /\ at' = at + 1
        /\ cache' = Cached(Needs(at))
        /\ failures' = failures \/ failures' = failures + 1
        /\ failures' = failures => Needs(at) \subseteq DOMAIN cache'
    <3>1. failures \in Nat
      BY DEF RunnerInv, NeedsInv
    <3>2. QED
      BY <1>6, <3>1 DEF RunVector
  <2>2. /\ DOMAIN cache \subseteq DOMAIN cache'
        /\ \A f \in DOMAIN cache' : \/ f \in DOMAIN cache /\ cache'[f] = cache[f]
                                    \/ f \in DOMAIN Source /\ cache'[f] = Source[f]
    BY <2>1 DEF Cached
  <2>3. CacheInv'
    BY <2>1, <2>2, SourceIsShipped DEF CacheInv, RunnerInv
  <2>4. NeedsInv'
    <3>1. at = 1 => Needs(at) = {"causal_relation_object"}
      BY DEF Needs
    <3>2. at = 88 => Needs(at) = {"token"}
      BY DEF Needs
    <3>3. QED
      BY <2>1, <2>2, <3>1, <3>2 DEF NeedsInv, RunnerInv
  <2>5. ExitInv'
    BY <2>1 DEF ExitInv, RunnerInv, VerdictIsAboutTheModule, Running
  <2>6. ModeInv'
    BY <2>1 DEF ModeInv, RunnerInv, Past
  <2>7. QED
    BY <2>3, <2>4, <2>5, <2>6 DEF RunnerInv
<1>7. CASE Report
  <2>1. /\ phase = "vectors" /\ phase' = "done" /\ at > 88
        /\ exit' = IF failures = 0 THEN 0 ELSE 1
        /\ UNCHANGED <<env, override, cache, at, failures>>
    BY <1>7, SuiteAssumption DEF Report, Stop, RunnerInv, NeedsInv
  <2>2. failures = 0 => Files \subseteq DOMAIN cache
    BY <2>1 DEF RunnerInv, NeedsInv, Files
  <2>3. env.installed => env.binding = "module cache" /\ override = NoDir
    BY <2>1 DEF RunnerInv, ModeInv, Past, Trusted
  <2>4. ExitInv'
    <3>1. exit' = 0 => Files \subseteq DOMAIN cache
      BY <2>1, <2>2
    <3>2. \A f \in DOMAIN cache : f \in DOMAIN env.embedded /\ cache[f] = env.embedded[f]
      BY DEF RunnerInv, CacheInv
    <3>3. cache' = cache /\ env' = env /\ override' = override
      BY <2>1
    <3>4. VerdictIsAboutTheModule'
      BY <2>3, <3>1, <3>2, <3>3 DEF VerdictIsAboutTheModule, Files
    <3>5. QED
      BY <2>1, <3>4 DEF ExitInv
  <2>5. QED
    BY <2>1, <2>4 DEF RunnerInv, ModeInv, CacheInv, NeedsInv, Past
<1>8. QED
  BY <1>1, <1>2, <1>3, <1>4, <1>5, <1>6, <1>7 DEF Next

\* Exit 0 is a statement about the module: every schema that a document was judged by
\* is the compiled-in one, and an installed run was not led to other schemas
\* (conformance/main.go, CheckEmbeddedSchemaDrift).
THEOREM VerdictIsAboutModule == Spec => []VerdictIsAboutTheModule
<1>1. RunnerInv => VerdictIsAboutTheModule
  BY DEF RunnerInv, ExitInv
<1>2. QED
  BY <1>1, InitRunnerInv, StepRunnerInv, PTL DEF Spec

-----------------------------------------------------------------------------
(* What the vectors find decides the run: the runner adds no failure and hides *)
(* none.                                                                       *)

\* The failures counted so far are those of the vectors run so far.
CountInv ==
  /\ phase \in {"start", "guard", "drift", "checks"} => failures = 0 /\ at = 1
  /\ failures = 0 => \A n \in 1 .. at - 1 : Verdicts[n]
  /\ exit = 0 => InternalVerdict /\ \A n \in DOMAIN Verdicts : Verdicts[n]
  /\ phase = "vectors" => InternalVerdict

LEMMA InitCountInv == Init => CountInv
BY DEF Init, CountInv, Running

LEMMA StepCountInv == RunnerInv /\ CountInv /\ [Next]_vars => CountInv'
<1> SUFFICES ASSUME RunnerInv, CountInv, [Next]_vars
             PROVE  CountInv'
  OBVIOUS
<1>1. CASE UNCHANGED vars
  BY <1>1 DEF vars, CountInv
<1>2. CASE FindRepoRoot \/ ChooseSchemas \/ CheckEmbeddedSchemaDrift
  BY <1>2 DEF FindRepoRoot, ChooseSchemas, CheckEmbeddedSchemaDrift, Check, Stop, CountInv, Running
<1>3. CASE InternalChecks
  BY <1>3 DEF InternalChecks, Check, Stop, CountInv, Running
<1>4. CASE RunVector
  <2>1. /\ at \in Nat \ {0} /\ failures \in Nat /\ at \in DOMAIN Verdicts
        /\ phase = "vectors" /\ phase' = phase /\ exit' = exit /\ at' = at + 1
        /\ \/ failures' = failures /\ Verdicts[at]
           \/ failures' = failures + 1
    BY <1>4, SuiteAssumption DEF RunVector, RunnerInv, NeedsInv
  <2>2. failures' = 0 => \A n \in 1 .. at' - 1 : Verdicts[n]
    BY <2>1 DEF CountInv
  <2>3. QED
    BY <2>1, <2>2 DEF CountInv, Running
<1>5. CASE Report
  <2>1. /\ phase = "vectors" /\ phase' = "done" /\ at > Len(Verdicts)
        /\ exit' = IF failures = 0 THEN 0 ELSE 1
        /\ UNCHANGED <<at, failures>>
    BY <1>5 DEF Report, Stop
  <2>2. DOMAIN Verdicts \subseteq 1 .. at - 1
    BY <2>1, SuiteAssumption DEF RunnerInv, NeedsInv
  <2>3. QED
    BY <2>1, <2>2 DEF CountInv
<1>6. QED
  BY <1>1, <1>2, <1>3, <1>4, <1>5 DEF Next

\* A run ends with 0 only when every vector and every internal check has passed: no
\* failure is lost between the loop and the exit code (conformance/main.go).
THEOREM ExitZeroMeansPassed ==
  Spec => [](exit = 0 => InternalVerdict /\ \A n \in DOMAIN Verdicts : Verdicts[n])
<1>1. CountInv => (exit = 0 => InternalVerdict /\ \A n \in DOMAIN Verdicts : Verdicts[n])
  BY DEF CountInv
<1>2. QED
  BY <1>1, InitRunnerInv, InitCountInv, StepRunnerInv, StepCountInv, PTL DEF Spec

\* Whatever the mode, a module with both schemas compiled in finds them when vectors
\* run: from the repository only where that one has no file less.
LEMMA SchemasAreFound ==
  ASSUME RunnerInv, phase = "vectors", Files \subseteq DOMAIN env.embedded
  PROVE  Files \subseteq DOMAIN Source
<1>1. CASE env.installed
  BY <1>1 DEF RunnerInv, ModeInv, Past, Trusted, Source
<1>2. CASE ~env.installed
  <2>1. Source = env.disk /\ DriftFree(env.disk, env.embedded)
    BY <1>2 DEF RunnerInv, ModeInv, Past, Source, NoDir
  <2>2. QED
    BY <2>1 DEF DriftFree
<1>3. QED
  BY <1>1, <1>2

\* An SDK that gives what each vector asks passes the suite, in either mode and
\* wherever the schemas are, when the module carries its schemas: no vector fails for
\* want of one (AllVectorsPass; loadSchemaFile and CheckEmbeddedSchemaDrift).
THEOREM NoFalseFailures ==
  ASSUME \A n \in DOMAIN Verdicts : Verdicts[n]
  PROVE  Spec => []AllVectorsPass
<1>1. Init => AllVectorsPass
  BY DEF Init, AllVectorsPass
<1>2. RunnerInv /\ AllVectorsPass /\ [Next]_vars => AllVectorsPass'
  <2> SUFFICES ASSUME RunnerInv, AllVectorsPass, [Next]_vars,
                      Files \subseteq DOMAIN env'.embedded
               PROVE  failures' = 0
    BY DEF AllVectorsPass, Files
  <2>1. env' = env
    BY DEF Next, vars, FindRepoRoot, ChooseSchemas, CheckEmbeddedSchemaDrift, InternalChecks,
           RunVector, Report, Check
  <2>2. failures = 0
    BY <2>1 DEF AllVectorsPass, Files
  <2>3. CASE RunVector
    <3>1. phase = "vectors" /\ at \in DOMAIN Verdicts
      BY <2>3, SuiteAssumption DEF RunVector, RunnerInv, NeedsInv
    <3>2. Needs(at) \subseteq Files
      BY DEF Needs, Files
    <3>3. Needs(at) \subseteq DOMAIN Cached(Needs(at))
      BY <2>1, <3>1, <3>2, SchemasAreFound DEF Cached
    <3>4. QED
      BY <2>2, <2>3, <3>1, <3>3 DEF RunVector
  <2>4. CASE ~RunVector
    BY <2>2, <2>4 DEF Next, vars, FindRepoRoot, ChooseSchemas, CheckEmbeddedSchemaDrift,
                      InternalChecks, Report, Check
  <2>5. QED
    BY <2>3, <2>4
<1>3. QED
  BY <1>1, <1>2, InitRunnerInv, StepRunnerInv, PTL DEF Spec
=============================================================================
