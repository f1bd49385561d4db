------------------------------- MODULE Driver -------------------------------
(***************************************************************************)
(* One run of a recipe's __main__: invoker.run of                          *)
(* src/conan/invoker/invoker.py, with the argument set-up of the module    *)
(* (called_directly, the -c/-b defaults), generate_config, conan_profile   *)
(* and set_environment.                                                    *)
(*                                                                         *)
(* A compiler name is <<class, version>>: version 0 is the bare class name *)
(* ("gcc"), any other the versioned link compilers/<class>-<version> that  *)
(* link.sh lists.  A profile is <<class, version, build type>>, the file   *)
(* profiles/<class>-<version>-<build type>.profile.  The environment the   *)
(* scripts run in is abstracted to what decides the compiler and profile   *)
(* conan uses: CC (a class), the first compiler directory on PATH (or      *)
(* NoPath) and CONAN_DEFAULT_PROFILE_PATH.  The system compiler of a class *)
(* is the version compilers/<class>-default records.                       *)
(*                                                                         *)
(* Every script the driver runs (through call_with_spinner,                *)
(* call_without_spinner or subprocess.run(check=True)) is a record of the  *)
(* script, the marker path it is handed and the environment; any of them   *)
(* may exit non-zero, which ends the driver with a non-zero status.        *)
(***************************************************************************)
EXTENDS Naturals, Sequences, FiniteSets

CONSTANTS
  Classes,        \* {"gcc", "clang"}
  Compilers,      \* available_compilers, a subset of Classes \X Versions
  DefaultVersion, \* class -> int(compilers/<class>-default)
  BuildTypes,     \* available_build_types
  Recipes,        \* the invoker.run(...) keyword flags of the recipes
  ShellEnvs,      \* environments a developer's shell may pass on
  Absent          \* an unset environment variable

\* parse-compilers.py, whose --json output build.py reads.
PC == INSTANCE CompilerConfig

NoPath == PC!NoPath

\* The flags make passes for each rule kind (createConanPackages*Files).
MakeFlags == [check |-> {"check_changes"}, dep |-> {},
              tidy |-> {"gen_tidy_info"}, test |-> {"test_package"},
              testtidy |-> {"gen_tidy_info", "test_package"}]

\* The mode flags of the argument parser.
Modes == {"name_only", "build_locally", "export_only", "gen_tidy_info",
          "test_package", "remove_package", "check_changes"}

VARIABLES
  direct,     \* called_directly: DORY_INVOKED_FROM_BUILDSCRIPT not set
  recipe,     \* the flags the recipe passes to invoker.run
  hasTest,    \* os.path.isdir(test_conanfile_dir)
  rule,       \* the rule kind make runs the driver for (direct: "none")
  flags,      \* the mode flags set on the command line
  compiler,   \* results.compiler
  buildType,  \* results.build_type
  env,        \* [cc, path, profile] of the environment
  environ,    \* os.environ: the environment the driver process started in
  pc,
  calls,      \* the scripts run so far, in order
  outcome     \* "running", "ok", "failed" (non-zero exit) or "invalid"

vars == <<direct, recipe, hasTest, rule, flags, compiler, buildType, env,
          environ, pc, calls, outcome>>

Env == [cc : Classes \cup {Absent}, path : Compilers \cup {NoPath},
        profile : (Classes \X Nat \X BuildTypes) \cup {Absent}]

\* The compiler a name selects: a bare class is its default version.
Resolve(c) == IF c[2] = 0 THEN <<c[1], DefaultVersion[c[1]]>> ELSE c

\* The compiler conan's build runs: the first one on PATH, else the
\* system's compiler of class CC.
Effective(e) == IF e.path # NoPath THEN e.path
                ELSE <<e.cc, DefaultVersion[e.cc]>>

Flag(f) == f \in flags

-----------------------------------------------------------------------------
\* A faulty variant: the profile named after the compiler as given, the
\* default version of a bare class not looked up.
ConanProfileAsGiven(c, b) == <<c[1], c[2], b>>

\* conan_profile(compiler_name, compiler_class, build_type): the profile
\* file name, with the version of compilers/<class>-default for a bare
\* class name.
ConanProfile(c, b) == <<c[1], Resolve(c)[2], b>>

\* COMPILER_PATH: compilers/<name> unless the name is the bare class.
CompilerPath(c) == IF c[2] = 0 THEN NoPath ELSE c

\* A faulty variant: CC set to the full compiler name, not its class.
GenerateConfigFullName(c, b) ==
  [cc |-> c, path |-> CompilerPath(c), profile |-> ConanProfile(c, b)]

\* generate_config(compiler, build_type) (normalize_compiler_name gives CC).
GenerateConfig(c, b) ==
  [cc |-> c[1], path |-> CompilerPath(c), profile |-> ConanProfile(c, b)]

\* set_environment(env, config): nothing when CONAN_DEFAULT_PROFILE_PATH is
\* already set; else PATH prepended when there is a compiler path, and CC,
\* CXX and the profile set.
SetEnvironment(e, conf) ==
  IF e.profile # Absent THEN e
  ELSE [cc |-> conf.cc,
        path |-> IF conf.path # NoPath THEN conf.path ELSE e.path,
        profile |-> conf.profile]

\* The environment build.py hands make (build.py 314-330): CC and the
\* PATH prefix of `parse-compilers.py -c C -b B --json` over the shell's
\* environment; the profile variable is left as the shell has it.
BuildScriptEnv(shell, c, b) ==
  LET conf == PC!GenerateConfig(c, b)
  IN  [cc |-> conf.cc,
       path |-> IF conf.path # NoPath THEN conf.path ELSE shell.path,
       profile |-> shell.profile]

TypeOK ==
  /\ direct \in BOOLEAN
  /\ recipe \in Recipes
  /\ rule \in DOMAIN MakeFlags \cup {"none"}
  /\ flags \subseteq Modes
  /\ compiler \in Compilers
  /\ buildType \in BuildTypes
  /\ env \in Env /\ environ \in Env
  /\ pc \in {"start", "config", "exportOnly", "direct", "locally",
             "validate", "tidy", "build", "export", "done"}
  /\ calls \in Seq([script : STRING, marker : STRING, env : Env])
  /\ outcome \in {"running", "ok", "failed", "invalid"}

-----------------------------------------------------------------------------
\* Run from make with the flags of one rule and the axis point's -c/-b, in
\* the environment build.py built; or from a shell, with any two mode
\* flags and -c/-b chosen among the argparse choices.
Init ==
  /\ recipe \in Recipes
  /\ hasTest \in BOOLEAN
  /\ compiler \in Compilers
  /\ buildType \in BuildTypes
  /\ \E shell \in ShellEnvs :
       \/ /\ direct = FALSE
          /\ rule \in DOMAIN MakeFlags
          /\ flags = MakeFlags[rule]
          /\ env = BuildScriptEnv(shell, compiler, buildType)
       \/ /\ direct = TRUE
          /\ rule = "none"
          /\ flags \in {s \in SUBSET Modes : Cardinality(s) <= 2}
          /\ env = shell
  /\ environ = env
  /\ pc = "start"
  /\ calls = <<>>
  /\ outcome = "running"

Done(o) == pc' = "done" /\ outcome' = o

\* Run a script: it succeeds and the driver goes on at `next`, or it exits
\* non-zero and the driver exits with it.
CallIn(e, script, marker, next) ==
  /\ calls' = Append(calls, [script |-> script, marker |-> marker, env |-> e])
  /\ \/ pc' = next /\ UNCHANGED outcome
     \/ Done("failed")

\* The scripts get the configured environment through env=.
Call(script, marker, next) == CallIn(env, script, marker, next)

Fixed == <<direct, recipe, hasTest, rule, flags, compiler, buildType, environ>>

\* invoker.run up to generate_config: doNothing, --name-only,
\* --remove-package (conan remove) and --check-changes (check-changes.sh
\* with the export marker) each end the run.
Start ==
  /\ pc = "start"
  /\ CASE recipe.doNothing \/ Flag("name_only") ->
            Done("ok") /\ UNCHANGED calls
       [] Flag("remove_package") -> Call("conan-remove", "none", "done")
       [] Flag("check_changes") -> Call("check-changes", "export", "done")
       [] OTHER -> pc' = "config" /\ UNCHANGED <<calls, outcome>>
  /\ UNCHANGED <<Fixed, env>>

\* The scripts of the early modes end the run when they succeed.
Finish ==
  /\ pc = "done"
  /\ outcome = "running"
  /\ outcome' = "ok"
  /\ UNCHANGED <<Fixed, env, pc, calls>>

\* env_config = generate_config(compiler, build_type);
\* set_environment(env, env_config).
Config ==
  /\ pc = "config"
  /\ env' = SetEnvironment(env, GenerateConfig(compiler, buildType))
  /\ pc' = "exportOnly"
  /\ UNCHANGED <<Fixed, calls, outcome>>

\* --export-only: export-only.sh, and return.
ExportOnly ==
  /\ pc = "exportOnly"
  /\ IF Flag("export_only")
       THEN Call("export-only", "none", "done")
       ELSE /\ pc' = IF direct THEN "direct" ELSE "tidy"
            /\ UNCHANGED <<calls, outcome>>
  /\ UNCHANGED <<Fixed, env>>

\* Called directly with --build-locally on a buildable recipe: build.py
\* --deps-only <name> first unless the recipe is out of tree.  That
\* subprocess.run passes no env=, so build.py inherits os.environ and
\* derives CC, PATH and the profile from -c/-b itself.
Direct ==
  /\ pc = "direct"
  /\ IF recipe.buildable /\ Flag("build_locally")
       THEN IF ~recipe.outOfTree
              THEN CallIn(environ, "build.py", "none", "locally")
              ELSE pc' = "locally" /\ UNCHANGED <<calls, outcome>>
       ELSE pc' = "validate" /\ UNCHANGED <<calls, outcome>>
  /\ UNCHANGED <<Fixed, env>>

\* ... then build-locally.sh.
Locally ==
  /\ pc = "locally"
  /\ Call("build-locally", "none", "validate")
  /\ UNCHANGED <<Fixed, env>>

\* "Some parameters cannot be called directly": exit(1) unless a local
\* build or tidy (on a tidyable recipe) was asked for.
Validate ==
  /\ pc = "validate"
  /\ IF \/ recipe.buildable /\ Flag("build_locally")
        \/ recipe.tidyable /\ Flag("gen_tidy_info")
       THEN pc' = "tidy" /\ UNCHANGED outcome
       ELSE Done("invalid")
  /\ UNCHANGED <<Fixed, env, calls>>

\* A faulty variant: a direct call without --gen-tidy-info going on to the
\* build scripts, the `if called_directly: return` left out.
TidyNoDirectReturn ==
  /\ pc = "tidy"
  /\ IF Flag("gen_tidy_info")
       THEN IF recipe.tidyable
              THEN Call("build-tidy", "none", "done")
              ELSE Done("ok") /\ UNCHANGED calls
       ELSE pc' = "build" /\ UNCHANGED <<calls, outcome>>
  /\ UNCHANGED <<Fixed, env>>

\* --gen-tidy-info: build-tidy.sh on the test package (with
\* --test-package and a test directory) or the package, unless the recipe
\* is not tidyable; then return.  A direct call returns here too.
Tidy ==
  /\ pc = "tidy"
  /\ IF Flag("gen_tidy_info")
       THEN IF recipe.tidyable
              THEN Call("build-tidy", "none", "done")
              ELSE Done("ok") /\ UNCHANGED calls
       ELSE IF direct
              THEN Done("ok") /\ UNCHANGED calls
              ELSE pc' = "build" /\ UNCHANGED <<calls, outcome>>
  /\ UNCHANGED <<Fixed, env>>

\* A buildable recipe: build-lib-test.sh with the .conantest marker under
\* --test-package (when there is a test directory), build-lib-notest.sh
\* with the .conandep marker otherwise.
Build ==
  /\ pc = "build"
  /\ IF recipe.buildable /\ ~Flag("test_package")
       THEN Call("build-lib-notest", "dep", "export")
       ELSE IF recipe.buildable /\ hasTest
              THEN Call("build-lib-test", "test", "export")
              ELSE pc' = "export" /\ UNCHANGED <<calls, outcome>>
  /\ UNCHANGED <<Fixed, env>>

\* A faulty variant: export.sh run whatever the recipe's flags.
ExportUnguarded ==
  /\ pc = "export"
  /\ Call("export", "dep", "done")
  /\ UNCHANGED <<Fixed, env>>

\* An exportable recipe: export.sh with the .conandep marker.
Export ==
  /\ pc = "export"
  /\ IF recipe.exportable
       THEN Call("export", "dep", "done")
       ELSE Done("ok") /\ UNCHANGED calls
  /\ UNCHANGED <<Fixed, env>>

Next ==
  \/ Start \/ Finish \/ Config \/ ExportOnly \/ Direct \/ Locally
  \/ Validate \/ Tidy \/ Build \/ Export

\* A driver runs to its end: every script it calls returns.
Spec == Init /\ [][Next]_vars /\ WF_vars(Next)

-----------------------------------------------------------------------------
\* Spec 4.4 and the environment contract: every script the driver runs
\* after generate_config builds with the compiler -c/-b asked for, found
\* through CC and PATH, and with the conan profile of that compiler and
\* build type, whether make or a developer ran the driver.  It relates
\* conan_profile's default-version lookup, COMPILER_PATH and
\* set_environment's handling of an environment that already has one.
\* The nested build.py, which sets up its own environment from -c/-b, is
\* not such a script.
ProfileMatchesRequest ==
  \A i \in DOMAIN calls :
    calls[i].script \notin {"conan-remove", "check-changes", "build.py"} =>
      /\ Effective(calls[i].env) = Resolve(compiler)
      /\ calls[i].env.profile = <<Resolve(compiler)[1], Resolve(compiler)[2],
                                 buildType>>

\* A driver run by hand never hands a script a package or test marker:
\* those are make's record of what it built, and a direct build
\* (build-locally) must not make make skip a rebuild.
DirectRunWritesNoMarker ==
  direct => \A i \in DOMAIN calls : calls[i].marker \in {"none", "export"}

-----------------------------------------------------------------------------
\* The markers make reads that the scripts run so far have written: every
\* call but a last one that failed.
Written ==
  LET ok == IF outcome = "failed" THEN 1..Len(calls) - 1 ELSE DOMAIN calls
  IN  {calls[k].marker : k \in ok} \cap {"export", "dep"}

\* The run seen as one step: it commits when invoker.run returns or exits.
Step == INSTANCE RuleStep WITH
  outcome <- CASE outcome = "running" -> "running"
               [] outcome = "ok" -> "ok"
               [] OTHER -> "failed",
  writes <- IF outcome = "running" THEN {} ELSE Written

\* invoker.run implements the rule step BuildRun assumes of it: a run from
\* make that exits 0 writes exactly its rule's markers (the package of a
\* dep rule, also of an exportable recipe's test rule), a run that fails
\* writes none, a run by hand writes no package marker, and every run ends.
RefinesRuleStep == Step!Spec
=============================================================================
