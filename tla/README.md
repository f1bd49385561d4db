# TLA+ models of the ubft build orchestration

This directory holds TLA+ specifications of the build system under `src/`:
- `build.py`;
- `conan/generate-makefile.py`;
- `conan/invoker/invoker.py`;
- the conan recipes that call the invoker.

It also holds the TLC configurations that check them, and `PROJECT.json`. That file lists the components, the runs, the mutants, the map from definitions to source lines, the findings and the hazards.

## The system

| Part | Source | What it does |
|---|---|---|
| Target graph validation | `conan/generate-makefile.py` `checkTargets`, `Graph` | Loads `targets.yaml` and rejects a declaration in this order: repeated dependencies, undefined dependencies, a missing or non-executable `conanfile.py`, then a cycle. The cycle check is a recursive DFS (`firstCycle` / `isCyclicUtil`) with a recursion-stack mark. |
| Build plan generator | `generate-makefile.py` `prelude`, `createConanPackages*Files` | Writes `.deps/Makefile.generated`. It has one FORCE rule per target (`t.check`) and a FORCE rule `compiler-options.check`. For every (compiler, build type, target) it writes four rules: `.conandep`, which depends on the export marker and on the dependencies' `.conandep`; `.conantidy`; `.conantest`; and `.conantesttidy`. |
| Orchestrator | `build.py` | Resolves the TARGET tokens with `detectTarget` and `TargetNormalizer`, expands the aggregates and applies `--deps-only`. It runs `make -C conan`, which regenerates and validates the rules. It then runs `make <check_targets>.check && make <convert_target(t)>`. |
| Invocation driver | `conan/invoker/invoker.py` `run` | The `__main__` of every recipe. Dispatches on the mode: check-changes, the build (build-lib-notest.sh / build-lib-test.sh / export.sh), tidy, and the direct-call modes. |
| Compiler discovery | `conan/parse-compilers.py` | Lists the compilers link.sh links, chooses the default (bare gcc, else bare clang, else the first), and prints the configuration of a compiler and build type: CC, the compiler directory for PATH and the conan profile, as JSON (read by build.py) or as `export` lines for a shell. |
| Recipes, compiler options package | `*/conanfile.py`, `conan/exports/compiler-options` | Conan recipes whose `__main__` calls `invoker.run` with their flags (buildable, tidyable, exportable, outOfTree), and the CMake flag helpers. |

These parts interact through files:
- The rule file is written by the generator and read by make.
- The export markers `.deps/exports/t.conanbuild` are touched by check-changes.
- The package markers `.deps/<c>/<b>/t.conandep` are written by a successful build.
- The conan cache holds the packages a build reads and writes.

make compares marker mtimes, so all staleness tracking happens through these markers.

## Modules

| Module | Models | State ↔ code |
|---|---|---|
| `TargetGraph` | `checkTargets` and `Graph` | `targets` and `driver` are the loaded declaration. `pc` is the step of checkTargets. `visited` and `recStack` are firstCycle's arrays. `stack` holds the frames `[v, i]` of the isCyclicUtil recursion, where `i` is the index in its for-loop. `node` is the loop variable of firstCycle, and `cycle` is its return value. Actions: CheckDuplicates, CheckUndefined, CheckPackage, BuildGraph, FirstCycleLoop, CyclicUtilStep (one neighbour, or the return). |
| `CheckTargets` | Abstract spec of the validation (spec §4.1, §8) | One step decides the verdict from the first fault in the code's order. |
| `TargetResolver` | `build.py` lines 18–312 | `tokens`, `depsOnly` and `pathDir` are the command line and the file system, and `decl` is `target_dict`, the loaded targets.yaml (also a variable of `TargetRequest`). `idx` and `parsed` are argparse's progress. `creative` and `destructive` are the normalizer's flags. `targets` is the script's list. Actions: Allowed (one `allowed(token)` call), ParseDone (default plus the first dedupe), Route (destructive targets), Expand (aggregates, the second dedupe, `--deps-only`). `list(set(l))` is any ordering of the set. |
| `Orchestrator` | `build.py` whole for a build invocation | Composes `TargetResolver` as `R == INSTANCE TargetResolver` and steps it with `Resolve`. After the resolution: `opc` is where the script body is, `makes` the make commands run (`make -C conan`, then the check-and-build make), `checks` what `check_targets` returned and `exit` how the script ended. Actions: Config (the parse-compilers call; a bare `-c` or `-b` is a None in its argument list and a TypeError), Validate (`make -C conan` and its status), Execute (`check_targets`, then the shell). `gather_check_targets` and `check_targets` are RECURSIVE operators; a nesting deeper than the number of targets, which only a cycle produces, is RecursionError. |
| `TargetRequest` | Abstract spec of what the tokens mean (spec §3, §4.2) | One step chooses an allowed outcome and the goal set. |
| `BuildRun` | Repeated invocations of `build.py` after resolution, the generated rules, make -j, and the driver's effect on markers and the cache | `src`/`optSrc` are the work tree. `exportMt` and `exportSrc` are the export markers and what check-changes last saw. `optCache` is the exported options package. `depMt` and `pkg` are the package markers and what each cached package was built from. `clock` is the file-system time. `pc`, `axis`, `flags`, `goals`, `checks`, `status`, `job` and `stopping` are one invocation and make's state. Actions: EditSources and EditOptions (the developer), StartRun, CheckRule, StartBuild, Consider (make reaches a rule), Complete and FailRecipe (a recipe ends), MakeExit, Interrupt (Ctrl-C). A `dep` rule, and the test rule of an `Exportable` package (export.sh), write the package; every rule reads its dependencies' packages (`WritesPackage`, `ReadsPackages`). |
| `Driver` | `invoker.run` whole, with `generate_config`, `conan_profile` and `set_environment` of `invoker.py` | `direct` is `called_directly`. `recipe` is the recipe's flags and `hasTest` whether it has a test directory. `rule` and `flags` are the rule make runs it for, or the mode flags of a direct call. `env` is what decides the compiler: CC, the first compiler directory on PATH and CONAN_DEFAULT_PROFILE_PATH. `calls` is the scripts run, each with its marker and environment. Actions follow the branches of `run`: Start (doNothing, name-only, remove-package, check-changes), Config, ExportOnly, Direct, Locally, Validate, Tidy, Build, Export, Finish. Any script may fail and end the run. `environ` is `os.environ`: the nested `build.py --deps-only` of `--build-locally` is run without `env=` and is recorded with it; ProfileMatchesRequest leaves that call out, since build.py sets up its own environment from -c/-b. |
| `CompilerConfig` | `parse-compilers.py` `conan_profile`, `generate_config`, the default choice | Pure operators. Driver instantiates it for the environment build.py hands make (build.py 314-330) and for a shell that has evaluated the export lines. |
| `ParseCompilers` | One run of `parse-compilers.py` | `available` is link.sh's list, `argv` the command line as options `[opt, val]`, `ns` argparse's namespace, `i` the next option. Actions: Discover, ParseArg (one option: choices, then its dest), ParseDone, Show (the three listings in the code's order), Generate. |
| `RuleStep` | Abstract spec of one recipe run (spec §4.4) | One step ends the run: it fails and writes no marker, or succeeds and writes exactly its rule's markers (the export marker for a check, the package marker for a dep rule or the test rule of an exportable recipe; a run by hand at most the export marker). |
| `Recipes` | The `__main__` of every `conanfile.py` | Each recipe's `invoker.run` flags, as a record; `RepositoryRecipes` is the set Driver's run enumerates. |

`MCTargetGraph`, `MCTargetResolver`, `MCOrchestrator`, `MCBuildRun`, `MCDriver` and `MCParseCompilers` give the constants their values.

The abstract specifications are the promises the spec makes. Each detailed module is checked against its abstract one as a PROPERTY:
- `TargetGraph` against `CheckTargets`, as `Refines == Abstract!Spec`;
- `TargetResolver` against `TargetRequest`, through a refinement mapping. That mapping exposes the goal set only once the script has decided; `Orchestrator` checks the same refinement of its instance of TargetResolver as `ResolverRefines`;
- `Driver` against `RuleStep`, as `RefinesRuleStep`. The mapping keeps the run's outcome at "running" until `run` ends and then exposes the markers its scripts wrote (`Written`): the last call of a failed run wrote nothing. This is the link between Driver and BuildRun: RuleStep is exactly the effect BuildRun's CheckRule, Complete and FailRecipe give a recipe run.

## Runs

| Run | Checks | Shows |
|---|---|---|
| `target_graph` (pass) | TypeOK, CycleReachableFromWitness, Refines | Every declaration of 3 targets with dependency lists of up to 2 names (an undefined name included), each target's driver ok or missing, has 199,851 states. checkTargets rejects each faulty declaration for its first fault and accepts the rest, and it always terminates. The reported target is always one from which a cycle can be reached. |
| `cycle_witness` (violation) | CycleWitnessOnCycle | Finding: the reported target need not be on the cycle. For `{1:[2], 2:[2], 3:[1]}` it reports 1. Spec §8 says it returns a node on a cycle. |
| `orchestrator` (pass) | TypeOK, NoRecursionError, CheckTargetsAreClosure, ExecutesOnlyValidated, ResolverRefines | The whole script, on a valid targets.yaml and on one with the cycle a↔b. The resolution is checked as before: every command line of up to 2 tokens (names, aggregates, destructive names, path tokens naming a target directory, another directory or no directory, unknown tokens), with and without `--deps-only`, in every order of Python's sets; build.py reports the errors the spec allows and hands make exactly the spec's goal set. After it: a bare `-c` or `-b` ends the script in a traceback before any make; the package make runs only right after a `make -C conan` that accepted the declaration, and the exit is make's status exactly when it ran; check_targets, which has no visited set, is never reached on the cyclic declaration; and the check targets are the goals' closure under targets.yaml plus compiler-options. |
| `resolver_missing_dir` (violation) | Refines | Finding: a declared target without a directory makes any path token crash build.py with FileNotFoundError from `os.path.samefile`. The spec validates first and answers UnknownTarget. |
| `build_run` (pass) | TypeOK, CheckedBeforeBuilt, CacheNotWrittenWhileRead, SuccessfulBuildIsFresh | Two invocations on the chain c→b→a, with c exportable and goal sets {c} and {b,c}, any of the four flag combinations, one source edit, one compiler-options edit, one failing check or recipe, and one Ctrl-C anywhere. make -j never reaches a package whose sources were not checked in the same invocation, and never runs a rule that writes a package in the conan cache beside one that reads it. An invocation that exits 0 leaves every package its goals need built from the current sources against the current dependency packages (the compiler options are the separate question of `options_not_rebuilt`). |
| `options_not_rebuilt` (violation) | SuccessfulBuildUsesCurrentOptions | Finding: after an edit of the compiler-options package the next build exits 0 with packages built against the old options. No `.conandep` rule depends on `compiler-options.check`, while spec §3 gives every artifact an edge to the bootstrap. |
| `build_run_coarse` (violation) | SuccessfulBuildIsFresh | Finding: with a file-system clock whose resolution lets two writes share an mtime (`Coarse`), an export marker touched by a check in the same tick as the package marker written before it does not make the package out of date: make's test is strict (a prerequisite must be newer). The next invocation exits 0 with the package built from old sources. Spec §3 and §4.4 rely on markers for staleness without stating the resolution they need. |
| `cache_race` (violation) | CacheNotWrittenWhileRead | Finding: with b exportable, under --test-packages make -j runs b's test rule, which re-exports b through export.sh, while c's build reads b. `.conantest` depends only on its own `.conandep`. In the repository this pair exists when ubft-apps is built with `with_mu=True`: it then requires the exportable crash-consensus (the option defaults to False, `ubft-apps/conanfile.py:34,52`). Spec §3 and §4.4 give each artifact one producing rule, but `run` calls export.sh after the buildable branch in every mode, so the test rule writes the package marker too (the `driver` run's RefinesRuleStep confirms the code does this). |
| `driver` (pass) | TypeOK, ProfileMatchesRequest, DirectRunWritesNoMarker, RefinesRuleStep | The flag sets of every recipe in the repository (`Recipes`), with and without a test directory, every rule kind make runs, and every direct call with up to two mode flags, for bare and versioned compilers and two build types. From a clean shell, every script runs with the requested compiler first on PATH (or, for a bare class, the system compiler of that class) and the profile of that compiler's resolved version and build type. A direct call never writes a `.conandep` or `.conantest` marker. Every run of `run` is a RuleStep: it ends, and writes exactly the markers BuildRun assumes of its rule, including the package export.sh writes from the test rule of an exportable recipe. |
| `driver_stale_profile` (violation) | ProfileMatchesRequest | Finding: `set_environment` does nothing when CONAN_DEFAULT_PROFILE_PATH is set. build.py never sets it, but a shell that has evaluated parse-compilers' export lines for another compiler or build type has, and then every driver keeps that profile and compiler. |
| `parse_compilers` (pass) | TypeOK, AnswerMatchesRequest | Every list link.sh may print of three names (empty included) and every command line of up to two options. The step-by-step run through argparse's namespace gives the answer a declarative reading of the options defines: a usage error for a bad choice, the first listing asked for, else the configuration of the last `-c` and the last of `-b`/`-s`. The default build type is `release` although `-s` declares `None`, because argparse keeps the first default of a shared dest. |
| `parse_compilers_axis` (violation) | ConfigOnAxis | Finding: `-b` given without a value (nargs="?", no const, choices not checked for it) prints a configuration for the profile `<c>-None` and exits 0. `-s` accepts any word, and a bare `-c` ends in a traceback. |

Each property of a passing run has a mutant in `PROJECT.json`: a faulty variant of one mapped definition, defined just before it, under which TLC finds the property violated. The mutants are:
- the outer loop of firstCycle ending one node early or late;
- isCyclicUtil not clearing `recStack`;
- `check` returning the token instead of None;
- the duplicate removal left out;
- `check_targets` without its recursion or without `compiler-options`;
- make's out-of-date test ignoring the dependency markers;
- make starting a rule when its prerequisites have started rather than finished;
- generate_config setting CC to the full name, conan_profile not resolving the default version, and the tidy branch not returning for a direct call;
- export.sh run whatever the recipe's exportable flag (the export branch without its guard), so the test rule of a non-exportable recipe writes the package marker, which breaks RefinesRuleStep;
- build.py not checking the status of `make -C conan`, building the commands before running it, and gather_check_targets not recursing;
- argparse's `-c` unchecked against the listed compilers, and a later action's default winning for a shared dest.

### Bounds

- **TargetGraph.** Three targets and lists of length 2 give chains, diamonds, self-loops, a cycle reachable from a node off the cycle, and duplicates.
- **Driver.** Three compiler names give a bare class with a default version, a versioned link of the same class and a second class. Two build types tell profiles apart. The four recipe flag sets are those of the repository. Direct calls take up to two mode flags, enough for every pair the code's order decides between.
- **ParseCompilers.** Every ordering of up to three names covers the default's three cases. Two options cover both orders of `-b`/`-s` and each option with a flag.
- **TargetResolver.** Two tokens are enough for both orders of every kind pair: a mix of kinds, unknown after known, and aggregate plus target. Three tokens do not finish the liveness check in reasonable time.
- **Orchestrator.** The resolver's bounds, on two declarations: the valid one has the chain test-a→b→a, so a check target two levels below a goal exists, and the cyclic one a↔b is what `make -C conan` must stop before check_targets. One compiler and one build type, each also given bare, cover both Config branches. A third declaration (a repeated dependency) adds nothing the cycle does not and would push the run past its time budget.
- **BuildRun.** Two invocations are enough for a failure or interrupt followed by a recovering run, and for a build, an edit and a rebuild. The three-package chain hides a stale package two levels below the goal, and the goal set {b, c} has one goal as a prerequisite of the other, so that under --test-packages a test recipe runs beside a build. The run has one axis point. Package markers and packages are per axis point, but the export markers `.deps/exports/t.conanbuild` are shared by every point; an instance with two axis points and three invocations passes the same properties (2.2 million states, 70 s) but is kept out of the runs for time. `Coarse` is FALSE in the passing runs: each write advances the clock. `build_run_coarse` lets a write keep the current time, with no failures, interrupts or option edits, which is enough to reach the equal-mtime case in two invocations.

### Fairness

**TargetGraph, TargetResolver, Orchestrator, Driver and ParseCompilers** are sequential programs that never wait, so the weak fairness of Next is justified. RuleStep's weak fairness says a recipe run ends; Driver's fairness implies it, since the scripts it calls return.

**BuildRun** assumes weak fairness of:
- the check rules;
- StartBuild;
- Consider and Complete for every rule;
- MakeExit.

make keeps scheduling while a job slot is free, and a recipe process exits: the drivers call subprocesses that do not wait on anything in this system. The developer's edits, new invocations, failures and interrupts are not fair. They may or may not happen.

## Not modelled

- **link.sh and the profile files** are not in the repository. The compiler list is any list of distinct names, and the default versions are a constant. BuildRun's axis is a constant set.
- **What a bare `-c` or `-b` of build.py should do** is not stated by the spec. Orchestrator models what it does (a TypeError before any make); no property says what it should do.
- **The shell scripts** (check-changes.sh, build-lib-*.sh, export.sh, build-tidy.sh) are not in the repository. Their effect on the markers is taken from spec §4.4:
  - a check touches the export marker when the sources changed;
  - a build writes the package and then its marker, on success only;
  - the test and tidy scripts write no marker (export.sh, which `run` calls after them for an exportable recipe, does).
- **The validating `make -C conan`** is composed in Orchestrator, as the verdict of checkTargets (TargetGraph checks the algorithm that computes it). BuildRun starts after it has passed.
- **build.py's `--available-options`, `--verbose` and `--serial-build`, and its start-up `parse-compilers.py --show-all-json` call** are not modelled: the first prints and exits 0, the next two change only make's output and `-j` (BuildRun models `-j`), and the last is ParseCompilers' run.
- **The driver's effects in BuildRun** are RuleStep's: Driver is checked to refine RuleStep, and BuildRun uses the same effect (`WritesPackage`) rather than instantiating Driver, whose per-run state would multiply BuildRun's.
- **The recipes' conan methods** (source, build, package, package_info, CMake flags) run inside conan and are not modelled; only each recipe's `__main__` call of `invoker.run` is (`Recipes`).
- **Text formatting** of the rule file and of messages is not modelled.

## Plan for later work

1. **The build-locally mode.** It calls `build.py --deps-only` recursively and then the local build.
