------------------------------ MODULE BuildRun ------------------------------
(***************************************************************************)
(* Successive build invocations of src/build.py over the files they leave  *)
(* behind, with the rules src/conan/generate-makefile.py writes and make   *)
(* -j running them concurrently.                                           *)
(*                                                                         *)
(* One invocation, after its targets are resolved (module TargetResolver): *)
(*   make -f .deps/Makefile.generated <t.check for check_targets(targets)> *)
(*   && make -f .deps/Makefile.generated <convert_target(t) for targets>   *)
(* The rules (createConanPackagesCheckFiles / createConanPackagesBuildFiles*)
(* for one axis point a = (compiler, build type)):                         *)
(*   t.check: FORCE               ./conanfile.py --check-changes           *)
(*   compiler-options.check: FORCE   conan export of the options package   *)
(*   .deps/a/t.conandep: .deps/exports/t.conanbuild .deps/a/d.conandep...  *)
(*                                ./conanfile.py -c .. -b ..  (build)      *)
(*   .deps/a/t.conantest: .deps/a/t.conandep    ... --test-package         *)
(* make remakes a target whose file is missing or older than a             *)
(* prerequisite; the .conantest marker is never written, so a test rule    *)
(* always runs.  The driver scripts are not in the repository; as the      *)
(* spec (4.4) requires, check-changes touches the export marker when the   *)
(* sources differ from those it last saw, and a build writes the package   *)
(* into the conan cache and then its marker, only on success.              *)
(*                                                                         *)
(* A package's content is the record of what its build read: the target's *)
(* sources, the compiler-options package in the conan cache, and the stamp *)
(* (marker time) of each dependency's package.  Time is a counter that     *)
(* every file write advances, or, on a file system with coarse timestamps, *)
(* may leave where the previous write left it.                             *)
(***************************************************************************)
EXTENDS Naturals, FiniteSets

CONSTANTS
  Targets,        \* declared targets
  DepsOf,         \* target -> set of its direct dependencies (acyclic)
  Axis,           \* (compiler, build type) pairs
  MaxRuns,        \* invocations of build.py
  MaxEdits,       \* edits of targets' sources
  MaxOptionEdits, \* edits of the compiler-options package
  MaxFailures,    \* recipes that exit non-zero
  MaxInterrupts,  \* invocations killed part-way (Ctrl-C)
  GoalSets,       \* the resolved target sets an invocation may ask for
  Exportable,     \* targets whose recipe passes exportable=True
  Coarse          \* file-system timestamps coarser than the time between writes

Options == "compiler-options"
None == [src |-> 0, co |-> 0, deps |-> <<>>]   \* no package built yet

\* Rule kinds, by marker suffix: .conandep, .conantidy, .conantest,
\* .conantesttidy.
Kinds == {"dep", "tidy", "test", "testtidy"}
Rules == Kinds \X Axis \X Targets

VARIABLES
  src,        \* target -> version of its sources in the work tree
  optSrc,     \* version of the compiler-options sources
  exportMt,   \* target -> mtime of .deps/exports/t.conanbuild (0: none)
  exportSrc,  \* target -> sources version check-changes last recorded
  optCache,   \* compiler-options version exported to the conan cache
  depMt,      \* axis -> target -> mtime of .deps/a/t.conandep (0: none)
  pkg,        \* axis -> target -> what the cached package was built from
  clock,      \* the file-system time of the last write
  pc,         \* "idle" | "check" | "build"
  axis, flags, goals, \* the invocation: -c/-b, <<--gen-tidy-info,
                      \* --test-packages>>, targets
  checks,     \* check rules of the check phase not yet run
  status,     \* rule -> make's state of it in the build phase
  job,        \* rule -> what its running recipe has read
  stopping,   \* a recipe failed: make starts nothing more
  result,     \* exit status of the last invocation
  runs, edits, optEdits, failures, interrupts

vars == <<src, optSrc, exportMt, exportSrc, optCache, depMt, pkg, clock, pc,
          axis, flags, goals, checks, status, job, stopping, result,
          runs, edits, optEdits, failures, interrupts>>

fileVars == <<src, optSrc, exportMt, exportSrc, optCache, depMt, pkg>>
counters == <<runs, edits, optEdits, failures, interrupts>>

-----------------------------------------------------------------------------
\* A faulty variant: only the named target, not its dependencies.
GatherCheckTargetsShallow(t) == {t}

\* check_targets.gather_check_targets: the target and, recursively, every
\* dependency (the recursion has no visited set; the graph is acyclic).
RECURSIVE GatherCheckTargets(_)
GatherCheckTargets(t) ==
  {t} \cup UNION {GatherCheckTargets(d) : d \in DepsOf[t]}

\* A faulty variant: the bootstrap check left out of the check goals.
CheckTargetsOfNoBootstrap(ts) == UNION {GatherCheckTargets(t) : t \in ts}

\* check_targets(targets): always compiler-options, then every target's.
CheckTargetsOf(ts) == {Options} \cup UNION {GatherCheckTargets(t) : t \in ts}

\* convert_target(t, compiler, build_type, gen_tidy, test_pkg).
ConvertTarget(t, a, genTidy, testPkg) ==
  << CASE genTidy /\ testPkg -> "testtidy"
       [] genTidy /\ ~testPkg -> "tidy"
       [] ~genTidy /\ testPkg -> "test"
       [] OTHER -> "dep", a, t >>

\* The prerequisite rules of a rule in .deps/Makefile.generated.
PrereqRules(r) ==
  CASE r[1] = "dep" -> {<<"dep", r[2], d>> : d \in DepsOf[r[3]]}
    [] r[1] = "testtidy" -> {<<"test", r[2], r[3]>>}
    [] OTHER -> {<<"dep", r[2], r[3]>>}

\* The rules make visits for its goals: the goals and their prerequisites.
RECURSIVE Needed(_)
Needed(rs) ==
  LET more == rs \cup UNION {PrereqRules(r) : r \in rs}
  IN  IF more = rs THEN rs ELSE Needed(more)

\* A faulty variant: the dependency markers left out of the comparison.
OutOfDateNoDeps(r) ==
  \/ r[1] # "dep"
  \/ depMt[r[2]][r[3]] = 0
  \/ exportMt[r[3]] > depMt[r[2]][r[3]]

\* make's out-of-date test, once every prerequisite rule is done: the
\* marker is missing or older than a prerequisite.  Only the .conandep
\* marker is ever written, so the tidy and test rules always run.
OutOfDate(r) ==
  LET a == r[2]
      t == r[3]
  IN  \/ r[1] # "dep"
      \/ depMt[a][t] = 0
      \/ exportMt[t] > depMt[a][t]
      \/ \E d \in DepsOf[t] : depMt[a][d] > depMt[a][t]

\* What a build recipe reads: sources, the cached options, dependencies.
Inputs(a, t) ==
  [src |-> src[t], co |-> optCache, deps |-> [d \in DepsOf[t] |-> depMt[a][d]]]

\* The package of t at a was built from today's sources of t against the
\* dependency packages now in the cache.
Fresh(a, t) ==
  /\ pkg[a][t] # None
  /\ pkg[a][t].src = src[t]
  /\ pkg[a][t].deps = [d \in DepsOf[t] |-> depMt[a][d]]

\* What a build of t can have read: sources, an exported options package
\* and a stamp for each direct dependency.
Package(t) == [src : 1..MaxEdits + 1, co : 1..MaxOptionEdits + 1,
               deps : [DepsOf[t] -> Nat]]

TypeOK ==
  /\ \A a \in Axis, t \in Targets : pkg[a][t] \in Package(t) \cup {None}
  /\ \A r \in Rules : job[r] \in Package(r[3]) \cup {None}
  /\ src \in [Targets -> 1..MaxEdits + 1]
  /\ optSrc \in 1..MaxOptionEdits + 1
  /\ exportMt \in [Targets -> Nat]
  /\ exportSrc \in [Targets -> 0..MaxEdits + 1]
  /\ optCache \in 0..MaxOptionEdits + 1
  /\ depMt \in [Axis -> [Targets -> Nat]]
  /\ clock \in Nat
  /\ pc \in {"idle", "check", "build"}
  /\ checks \subseteq Targets \cup {Options}
  /\ status \in [Rules -> {"none", "wait", "running", "done", "failed"}]
  /\ stopping \in BOOLEAN
  /\ result \in {"none", "ok", "failed", "killed"}

-----------------------------------------------------------------------------
Init ==
  /\ src = [t \in Targets |-> 1]
  /\ optSrc = 1
  /\ exportMt = [t \in Targets |-> 0]
  /\ exportSrc = [t \in Targets |-> 0]
  /\ optCache = 0
  /\ depMt = [a \in Axis |-> [t \in Targets |-> 0]]
  /\ pkg = [a \in Axis |-> [t \in Targets |-> None]]
  /\ clock = 0
  /\ pc = "idle"
  /\ axis \in Axis
  /\ flags = <<FALSE, FALSE>>
  /\ goals = {}
  /\ checks = {}
  /\ status = [r \in Rules |-> "none"]
  /\ job = [r \in Rules |-> None]
  /\ stopping = FALSE
  /\ result = "none"
  /\ runs = 0 /\ edits = 0 /\ optEdits = 0 /\ failures = 0 /\ interrupts = 0

\* A developer edits a target's sources between builds.
EditSources(t) ==
  /\ pc = "idle"
  /\ edits < MaxEdits
  /\ src' = [src EXCEPT ![t] = @ + 1]
  /\ edits' = edits + 1
  /\ UNCHANGED <<optSrc, exportMt, exportSrc, optCache, depMt, pkg, clock,
                 pc, axis, flags, goals, checks, status, job, stopping,
                 result, runs, optEdits, failures, interrupts>>

\* ... or the compiler options (conan/exports/compiler-options).
EditOptions ==
  /\ pc = "idle"
  /\ optEdits < MaxOptionEdits
  /\ optSrc' = optSrc + 1
  /\ optEdits' = optEdits + 1
  /\ UNCHANGED <<src, exportMt, exportSrc, optCache, depMt, pkg, clock,
                 pc, axis, flags, goals, checks, status, job, stopping,
                 result, runs, edits, failures, interrupts>>

\* build.py with resolved targets ts, -c/-b giving a, and --test-packages
\* or not; `make -C conan` has regenerated the rule file.  The check phase
\* is asked for check_targets(ts).
StartRun(a, f, ts) ==
  /\ pc = "idle"
  /\ runs < MaxRuns
  /\ pc' = "check"
  /\ axis' = a /\ flags' = f /\ goals' = ts
  /\ checks' = CheckTargetsOf(ts)
  /\ status' = [r \in Rules |-> "none"]
  /\ job' = [r \in Rules |-> None]
  /\ stopping' = FALSE
  /\ runs' = runs + 1
  /\ UNCHANGED <<fileVars, clock, result, edits, optEdits, failures,
                 interrupts>>

\* The mtime a file written now gets: later than every earlier write, or,
\* with coarse timestamps, possibly equal to the last one.
Stamps == IF Coarse THEN {clock, clock + 1} ELSE {clock + 1}

\* One rule of the check phase runs: t.check runs check-changes, which
\* touches .deps/exports/t.conanbuild when the sources changed since it
\* last looked; compiler-options.check exports the options package.
\* A failing check stops make, and `&&` skips the build phase.
CheckRule(x) ==
  /\ pc = "check"
  /\ x \in checks
  /\ \/ /\ checks' = checks \ {x}
        /\ IF x = Options
             THEN /\ optCache' = optSrc
                  /\ UNCHANGED <<exportMt, exportSrc, clock>>
             ELSE IF exportSrc[x] # src[x]
               THEN /\ \E now \in Stamps :
                         exportMt' = [exportMt EXCEPT ![x] = now] /\ clock' = now
                    /\ exportSrc' = [exportSrc EXCEPT ![x] = src[x]]
                    /\ UNCHANGED optCache
               ELSE UNCHANGED <<exportMt, exportSrc, clock, optCache>>
        /\ UNCHANGED <<pc, result, failures>>
     \/ /\ failures < MaxFailures
        /\ failures' = failures + 1
        /\ pc' = "idle"
        /\ result' = "failed"
        /\ UNCHANGED <<checks, exportMt, exportSrc, clock, optCache>>
  /\ UNCHANGED <<src, optSrc, depMt, pkg, axis, flags, goals, status, job,
                 stopping, runs, edits, optEdits, interrupts>>

\* The check make exits 0; the build make starts on the goals
\* convert_target gives and every rule they lead to.
StartBuild ==
  /\ pc = "check"
  /\ checks = {}
  /\ pc' = "build"
  /\ status' = [r \in Rules |->
                  IF r \in Needed({ConvertTarget(t, axis, flags[1], flags[2]) : t \in goals})
                    THEN "wait" ELSE "none"]
  /\ UNCHANGED <<fileVars, clock, axis, flags, goals, checks, job, stopping,
                 result, counters>>

\* make reaches rule r with every prerequisite rule done: an out-of-date
\* target has its recipe started (the recipe reads its inputs); an
\* up-to-date one is done without running anything.  (A dep rule whose
\* export marker is missing would fail with "No rule to make target";
\* CheckedBeforeBuilt shows the check phase rules that out.)
\* A faulty variant: a rule started once its prerequisites have started.
ReadyWhenStarted(r) ==
  \A p \in PrereqRules(r) : status[p] \in {"running", "done"}

\* make runs a rule's recipe only once every prerequisite rule is made.
Ready(r) == \A p \in PrereqRules(r) : status[p] = "done"

Consider(r) ==
  /\ pc = "build"
  /\ ~stopping
  /\ status[r] = "wait"
  /\ Ready(r)
  /\ IF OutOfDate(r)
       THEN /\ status' = [status EXCEPT ![r] = "running"]
            /\ job' = [job EXCEPT ![r] = Inputs(r[2], r[3])]
       ELSE /\ status' = [status EXCEPT ![r] = "done"]
            /\ UNCHANGED job
  /\ UNCHANGED <<fileVars, clock, pc, axis, flags, goals, checks, stopping,
                 result, counters>>

\* The rules whose recipe puts a package into the conan cache: a build
\* (build-lib-notest.sh, and export.sh for an exportable recipe), and a
\* test of an exportable recipe, after which invoker.run also runs
\* export.sh with the .conandep marker (invoker.py 515-533).
WritesPackage(r) == r[1] = "dep" \/ (r[1] = "test" /\ r[3] \in Exportable)

\* The packages a recipe reads from the cache: a build reads its
\* dependencies; test and tidy recipes read the package and its
\* dependencies.
ReadsPackages(r) ==
  IF r[1] = "dep" THEN DepsOf[r[3]] ELSE {r[3]} \cup DepsOf[r[3]]

\* A recipe exits 0.  A recipe that writes a package puts what it read
\* into the conan cache and writes the .conandep marker; tests and tidy
\* otherwise write nothing.
Complete(r) ==
  /\ pc = "build"
  /\ status[r] = "running"
  /\ status' = [status EXCEPT ![r] = "done"]
  /\ IF WritesPackage(r)
       THEN /\ pkg' = [pkg EXCEPT ![r[2]][r[3]] = job[r]]
            /\ \E now \in Stamps :
                 depMt' = [depMt EXCEPT ![r[2]][r[3]] = now] /\ clock' = now
       ELSE UNCHANGED <<pkg, depMt, clock>>
  /\ UNCHANGED <<src, optSrc, exportMt, exportSrc, optCache, pc, axis, flags,
                 goals, checks, job, stopping, result, counters>>

\* A recipe exits non-zero (compile error, failing test): no marker, and
\* make starts no further recipe.
FailRecipe(r) ==
  /\ pc = "build"
  /\ status[r] = "running"
  /\ failures < MaxFailures
  /\ failures' = failures + 1
  /\ status' = [status EXCEPT ![r] = "failed"]
  /\ stopping' = TRUE
  /\ UNCHANGED <<fileVars, clock, pc, axis, flags, goals, checks, job,
                 result, runs, edits, optEdits, interrupts>>

\* make exits once nothing runs and either every rule is done or it is
\* stopping; build.py exits with its status.
BuildMakeDone ==
  /\ \A r \in Rules : status[r] # "running"
  /\ \/ stopping
     \/ \A r \in Rules : status[r] \in {"none", "done"}

MakeExit ==
  /\ pc = "build"
  /\ BuildMakeDone
  /\ pc' = "idle"
  /\ result' = IF stopping THEN "failed" ELSE "ok"
  /\ UNCHANGED <<fileVars, clock, axis, flags, goals, checks, status, job,
                 stopping, counters>>

\* Ctrl-C: make and the running recipes die; nothing they had not yet
\* written is written.
Interrupt ==
  /\ pc \in {"check", "build"}
  /\ interrupts < MaxInterrupts
  /\ interrupts' = interrupts + 1
  /\ pc' = "idle"
  /\ result' = "killed"
  /\ UNCHANGED <<fileVars, clock, axis, flags, goals, checks, status, job,
                 stopping, runs, edits, optEdits, failures>>

MakeStep ==
  \/ \E x \in Targets \cup {Options} : CheckRule(x)
  \/ StartBuild
  \/ \E r \in Rules : Consider(r) \/ Complete(r) \/ FailRecipe(r)
  \/ MakeExit

Next ==
  \/ \E t \in Targets : EditSources(t)
  \/ EditOptions
  \/ \E a \in Axis, f \in BOOLEAN \X BOOLEAN, ts \in GoalSets :
       StartRun(a, f, ts)
  \/ MakeStep
  \/ Interrupt

\* make and the recipes it runs make progress and every recipe ends
\* (the drivers do not wait on anything); the developer need not act.
Fairness ==
  /\ WF_vars(\E x \in Targets \cup {Options} : CheckRule(x))
  /\ WF_vars(StartBuild)
  /\ \A r \in Rules : WF_vars(Consider(r)) /\ WF_vars(Complete(r))
  /\ WF_vars(MakeExit)

Spec == Init /\ [][Next]_vars /\ Fairness

-----------------------------------------------------------------------------
\* Spec 4.3 and 5: the prerequisite edges of the rule file are complete, so
\* when an invocation exits 0, every package its targets need (the targets
\* and all their dependencies, at its compiler and build type) was built
\* from the current sources of its target against the dependency packages
\* now in the cache.  Earlier failed or killed invocations and builds at
\* other axis points must not leave a stale package that make takes for
\* up to date.
SuccessfulBuildIsFresh ==
  [][ (pc = "build" /\ pc' = "idle" /\ result' = "ok")
        => \A t \in UNION {GatherCheckTargets(g) : g \in goals} :
             Fresh(axis, t)' ]_vars

\* Spec 3: every artifact also depends on the bootstrap artifact (the
\* compiler-options check), so a successful invocation leaves every
\* package it needs built with the current compiler options.
SuccessfulBuildUsesCurrentOptions ==
  [][ (pc = "build" /\ pc' = "idle" /\ result' = "ok")
        => \A t \in UNION {GatherCheckTargets(g) : g \in goals} :
             pkg'[axis][t].co = optSrc' ]_vars

\* build.py 372-395: the check phase covers the build phase.  Whenever the
\* build make runs, every package rule it may visit belongs to a target
\* whose sources check-changes has compared in this invocation, so no
\* export marker is missing or older than the sources it stands for.
CheckedBeforeBuilt ==
  pc = "build" =>
    \A r \in Needed({ConvertTarget(t, axis, flags[1], flags[2]) : t \in goals}) :
      exportSrc[r[3]] = src[r[3]]

\* make -j runs recipes of one axis point side by side in the one conan
\* cache: it never runs a recipe that writes a package while another
\* recipe reads that package (a build reading a dependency, a test reading
\* its package), which would read a half-written package.
CacheNotWrittenWhileRead ==
  \A w, rd \in Rules :
    /\ w # rd
    /\ status[w] = "running" /\ status[rd] = "running"
    /\ w[2] = rd[2]
    /\ WritesPackage(w)
    => w[3] \notin ReadsPackages(rd)
=============================================================================
