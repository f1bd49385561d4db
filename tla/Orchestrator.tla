---------------------------- MODULE Orchestrator ----------------------------
(***************************************************************************)
(* The whole of src/build.py for a build invocation: the TARGET tokens are *)
(* resolved (TargetResolver, which also holds the declaration build.py     *)
(* loaded from targets.yaml), then the script asks parse-compilers.py for  *)
(* the configuration of -c and -b, runs `make -C conan` (which regenerates *)
(* the rule file and validates the declaration with checkTargets), builds  *)
(* the check targets with check_targets, and runs                          *)
(* `make <checks>.check && make <goals>`, exiting with its status.         *)
(*                                                                         *)
(* gather_check_targets has no visited set: on a cyclic declaration it     *)
(* recurses until Python's recursion limit.  A nesting deeper than the     *)
(* number of targets repeats a target, so it is on a cycle and never       *)
(* returns: the model cuts it there and answers RecursionError.            *)
(***************************************************************************)
EXTENDS Naturals, Sequences, FiniteSets, SequencesExt

CONSTANTS
  NormalList, TestList, Creative, Destructive, PathTokens, Unknown,
  MaxTokens, NoDir, Elsewhere, Present,
  Declarations,  \* the contents targets.yaml may have: target -> deps
  Compilers,     \* the -c values argparse accepts
  BuildTypes,    \* the -b values argparse accepts
  None           \* -c or -b given without a value (nargs="?", no const)

VARIABLES
  tokens, depsOnly, pathDir, idx, parsed, creative, destructive,
  targets, pc, outcome, decl,   \* TargetResolver's
  opc,        \* where the script body is after resolution
  makes,      \* the make commands run, in order: "conan" or "packages"
  checks,     \* the set check_targets returned
  exit        \* how build.py ended

rvars == <<tokens, depsOnly, pathDir, idx, parsed, creative, destructive,
           targets, pc, outcome, decl>>
ovars == <<opc, makes, checks, exit>>
vars == <<rvars, ovars>>

R == INSTANCE TargetResolver

Targets == ToSet(NormalList) \cup ToSet(TestList)

DepSet(d, t) == ToSet(d[t])

\* The targets a goal set reaches through the declaration, goals included.
Reach(d, S) ==
  LET r[k \in 0..Cardinality(Targets)] ==
        IF k = 0 THEN S ELSE r[k - 1] \cup UNION {DepSet(d, t) : t \in r[k - 1]}
  IN  r[Cardinality(Targets)]

\* The verdict of checkTargets in the generator `make -C conan` runs: no
\* repeated dependency, every dependency declared, every target a package
\* with its conanfile.py, and no cycle.
Valid(d) ==
  /\ \A t \in Targets : Len(d[t]) = Cardinality(DepSet(d, t))
  /\ \A t \in Targets : DepSet(d, t) \subseteq Targets
  /\ Targets \subseteq Present
  /\ \A t \in Targets : t \notin Reach(d, DepSet(d, t))

\* How deep gather_check_targets nests before the model calls it unbounded.
RecursionBound == Cardinality(Targets)

\* A faulty variant: the call adds the target's direct dependencies only.
GatherNoRecursion(d, t, depth) == {t} \cup DepSet(d, t)

\* gather_check_targets(target, store): what the call adds to the store.
RECURSIVE gather_check_targets(_, _, _)
gather_check_targets(d, t, depth) ==
  IF depth > RecursionBound THEN {"RecursionError"}
  ELSE {t} \cup UNION {gather_check_targets(d, u, depth + 1) : u \in DepSet(d, t)}

\* check_targets(targets): compiler-options and every gathered target.
check_targets(d, goals) ==
  {"compiler-options"} \cup UNION {gather_check_targets(d, goals[k], 1) : k \in DOMAIN goals}

TypeOK ==
  /\ R!TypeOK
  /\ opc \in {"config", "validate", "execute", "done"}
  /\ makes \in Seq({"conan", "packages"})
  /\ checks \subseteq Targets \cup {"compiler-options", "RecursionError"}
  /\ exit \in {"pending", "traceback", "invalid", "ok", "failed"}

-----------------------------------------------------------------------------
Init ==
  /\ R!Init
  /\ opc = "config"
  /\ makes = <<>>
  /\ checks = {}
  /\ exit = "pending"

\* Lines 18-312: a step of the argument parsing and target resolution.
Resolve == R!Next /\ UNCHANGED ovars

\* A faulty variant: the commands built before `make -C conan` is run, so
\* that the package make does not wait for the validation.
ConfigSkipsValidation ==
  /\ pc = "done" /\ outcome = "Build"
  /\ opc = "config"
  /\ opc' = "execute"
  /\ UNCHANGED <<rvars, makes, checks, exit>>

\* Lines 314-330: parse-compilers.py -c <compiler> -b <build_type> --json.
\* compiler and build_type are the values argparse stored for -c and -b; a
\* None in the argument list makes subprocess raise TypeError.
Config ==
  /\ pc = "done" /\ outcome = "Build"
  /\ opc = "config"
  /\ \E compiler \in Compilers \cup {None}, buildType \in BuildTypes \cup {None} :
       IF compiler = None \/ buildType = None
         THEN opc' = "done" /\ exit' = "traceback"
         ELSE opc' = "validate" /\ UNCHANGED exit
  /\ UNCHANGED <<rvars, makes, checks>>

\* A faulty variant: the status of `make -C conan` not checked.
ValidateIgnoringStatus ==
  /\ opc = "validate"
  /\ makes' = Append(makes, "conan")
  /\ opc' = "execute"
  /\ UNCHANGED <<rvars, checks, exit>>

\* Lines 361-370: `make -C conan`; a non-zero status ends the script.
Validate ==
  /\ opc = "validate"
  /\ makes' = Append(makes, "conan")
  /\ IF Valid(decl)
       THEN opc' = "execute" /\ UNCHANGED exit
       ELSE opc' = "done" /\ exit' = "invalid"
  /\ UNCHANGED <<rvars, checks>>

\* Lines 372-405: check_targets builds the first command, then the shell
\* runs `make <checks>.check && make <goals>` and build.py exits with its
\* status; a RecursionError ends the script before the shell starts.
Execute ==
  /\ opc = "execute"
  /\ checks' = check_targets(decl, targets)
  /\ IF "RecursionError" \in checks'
       THEN exit' = "traceback" /\ UNCHANGED makes
       ELSE makes' = Append(makes, "packages") /\ exit' \in {"ok", "failed"}
  /\ opc' = "done"
  /\ UNCHANGED rvars

Next == Resolve \/ Config \/ Validate \/ Execute

\* build.py is one sequential process.
Spec == Init /\ [][Next]_vars /\ WF_vars(Next)

-----------------------------------------------------------------------------
\* The resolution of the tokens still implements TargetRequest when the
\* script goes on to build.
ResolverRefines == R!Refines

\* check_targets never reaches Python's recursion limit: the script calls
\* it only after `make -C conan` has rejected every cyclic declaration,
\* since gather_check_targets keeps no visited set.
NoRecursionError == "RecursionError" \notin checks

\* The check targets make runs before the build are the goals, everything
\* they reach through targets.yaml, and compiler-options (spec section 4.5, RunChangeChecks).
CheckTargetsAreClosure ==
  "packages" \in ToSet(makes) =>
    checks = Reach(decl, ToSet(targets)) \cup {"compiler-options"}

\* make runs on the packages only after `make -C conan` accepted the
\* declaration, and exactly then build.py exits with make's status; an
\* invalid declaration or a crash ends it non-zero before any package
\* rule runs (spec section 7: validation before execution).
ExecutesOnlyValidated ==
  /\ \A k \in DOMAIN makes :
       makes[k] = "packages" => k > 1 /\ makes[k - 1] = "conan" /\ Valid(decl)
  /\ exit \in {"ok", "failed"} <=> "packages" \in ToSet(makes)
=============================================================================
