--------------------------- MODULE TargetResolver ---------------------------
(***************************************************************************)
(* How src/build.py turns its TARGET arguments into the targets it hands   *)
(* to make:                                                                *)
(*  - argparse calls the `allowed` closure of TargetNormalizer.run on each *)
(*    token in command-line order; it resolves the token with the `check`  *)
(*    closure of detectTarget and keeps two flags across calls that reject *)
(*    a mix of creative and destructive targets;                           *)
(*  - the script body then removes duplicates, forwards destructive        *)
(*    targets to `make -C conan`, expands the aggregates, removes          *)
(*    duplicates again and applies --deps-only.                            *)
(* A Python list is a sequence; `list(set(l))` has no defined order (str   *)
(* hashing is randomised per process), so it is any ordering of the set.   *)
(* Directories are compared by identity (os.path.samefile), so a directory *)
(* is the target it belongs to; os.path.samefile raises when the target's  *)
(* directory does not exist, which ends the script with a traceback.      *)
(***************************************************************************)
EXTENDS Naturals, Sequences, FiniteSets, SequencesExt

CONSTANTS
  NormalList, TestList, Creative, Destructive, PathTokens, Unknown,
  Declarations, MaxTokens, NoDir, Elsewhere,
  Present     \* targets whose directory exists

VARIABLES
  tokens,       \* the TARGET arguments, in command-line order
  depsOnly,     \* --deps-only
  pathDir,      \* path token -> the directory it names
  idx,          \* the next token argparse converts
  parsed,       \* the converted tokens so far (argparse's value list)
  creative,     \* TargetNormalizer.targets_contain_creative
  destructive,  \* TargetNormalizer.targets_contain_destructive
  targets,      \* the `targets` list of the script body
  pc,
  outcome,
  decl          \* target_dict, the loaded targets.yaml

vars == <<tokens, depsOnly, pathDir, idx, parsed, creative, destructive,
          targets, pc, outcome, decl>>

Normal == ToSet(NormalList)
Tests == ToSet(TestList)
Targets == Normal \cup Tests
Names == Targets \cup Creative \cup Destructive
TokenSet == Names \cup PathTokens \cup {Unknown}

\* pathTransformation / the directories detectTarget compares with.
Dir(t) == IF t \in Tests THEN <<"test", t>> ELSE <<"pkg", t>>

\* Directories a path token can name: only existing ones are directories.
ExistingDirs == {Dir(t) : t \in Present} \cup {NoDir, Elsewhere}

\* A faulty variant for mutation analysis: check() falling back to the
\* token itself instead of None when no directory matches.
CheckFallback(tok) ==
  IF tok \in Names THEN tok
  ELSE IF tok \in PathTokens /\ pathDir[tok] # NoDir
    THEN LET scan == NormalList \o TestList
             k == SelectInSeq(scan, LAMBDA t : t \notin Present
                                                \/ Dir(t) = pathDir[tok])
         IN  IF k = 0 THEN tok
             ELSE IF scan[k] \notin Present THEN "Crash"
             ELSE scan[k]
  ELSE tok

\* detectTarget(...).check(target): a symbolic name is returned as it is;
\* otherwise an existing directory is compared with every normal target's
\* directory, then every test target's, in sorted order, and the first
\* comparison with a missing directory raises.
Check(tok) ==
  IF tok \in Names THEN tok
  ELSE IF tok \in PathTokens /\ pathDir[tok] # NoDir
    THEN LET scan == NormalList \o TestList
             k == SelectInSeq(scan, LAMBDA t : t \notin Present
                                                \/ Dir(t) = pathDir[tok])
         IN  IF k = 0 THEN Unknown
             ELSE IF scan[k] \notin Present THEN "Crash"
             ELSE scan[k]
  ELSE Unknown

\* A faulty variant: the list kept as it is, duplicates included.
DedupSkipped(s) == {s}

\* `list(set(targets))`
Dedup(s) == SetToSeqs(ToSet(s))

\* targets.remove(x); targets.extend(l) when x is in targets.
ExpandOne(s, x, l) == IF x \in ToSet(s) THEN RemoveFirst(s, x) \o l ELSE s

\* `flatten([target_dict[target] for target in targets])`
DirectDeps(s) == FoldLeft(LAMBDA acc, t : acc \o decl[t], <<>>, s)

Finish(o) == pc' = "done" /\ outcome' = o

TypeOK ==
  /\ tokens \in Seq(TokenSet)
  /\ depsOnly \in BOOLEAN
  /\ pathDir \in [PathTokens -> ExistingDirs]
  /\ idx \in 1..MaxTokens + 1
  /\ parsed \in Seq(Names)
  /\ creative \in BOOLEAN /\ destructive \in BOOLEAN
  /\ targets \in Seq(Names)
  /\ pc \in {"parse", "route", "expand", "done"}
  /\ outcome \in {"pending", "Crash", "UnknownTarget", "MixedTargetKinds",
                  "Destructive", "Build"}
  /\ decl \in Declarations

-----------------------------------------------------------------------------
Init ==
  /\ tokens \in UNION {[1..k -> TokenSet] : k \in 0..MaxTokens}
  /\ depsOnly \in BOOLEAN
  /\ pathDir \in [PathTokens -> ExistingDirs]
  /\ idx = 1
  /\ parsed = <<>>
  /\ creative = FALSE
  /\ destructive = FALSE
  /\ targets = <<>>
  /\ pc = "parse"
  /\ outcome = "pending"
  /\ decl \in Declarations

\* argparse converts tokens[idx] with TargetNormalizer.run(...)(token); an
\* ArgumentTypeError ends the parse with a usage error.
Allowed ==
  /\ pc = "parse"
  /\ idx <= Len(tokens)
  /\ LET r == Check(tokens[idx]) IN
     \/ /\ r = "Crash"
        /\ Finish("Crash")
        /\ UNCHANGED <<creative, destructive, parsed>>
     \/ /\ r = Unknown
        /\ Finish("UnknownTarget")
        /\ UNCHANGED <<creative, destructive, parsed>>
     \/ /\ r \notin {"Crash", Unknown}
        /\ LET isCreative == r \in Creative \cup Targets
               isDestructive == r \in Destructive
           IN  /\ creative' = (creative \/ isCreative)
               /\ destructive' = (destructive \/ isDestructive)
               /\ IF \/ isCreative /\ destructive
                     \/ isDestructive /\ creative
                    THEN Finish("MixedTargetKinds") /\ UNCHANGED parsed
                    ELSE /\ parsed' = Append(parsed, r)
                         /\ UNCHANGED <<pc, outcome>>
  /\ idx' = idx + 1
  /\ UNCHANGED <<tokens, depsOnly, pathDir, targets>>

\* parse_args returns; no token leaves TARGET at its default "all", which
\* argparse does not convert.  `targets = list(set(targets))`.
ParseDone ==
  /\ pc = "parse"
  /\ idx > Len(tokens)
  /\ targets' \in Dedup(IF tokens = <<>> THEN <<"all">> ELSE parsed)
  /\ pc' = "route"
  /\ UNCHANGED <<tokens, depsOnly, pathDir, idx, parsed, creative,
                 destructive, outcome>>

\* Any destructive target: `make -C conan <targets>` and exit with its code.
Route ==
  /\ pc = "route"
  /\ IF ToSet(targets) \cap Destructive # {}
       THEN Finish("Destructive")
       ELSE pc' = "expand" /\ UNCHANGED outcome
  /\ UNCHANGED <<tokens, depsOnly, pathDir, idx, parsed, creative,
                 destructive, targets>>

\* Expand all, tests and everything, remove duplicates again, and replace
\* the targets by their direct dependencies under --deps-only.
Expand ==
  /\ pc = "expand"
  /\ LET t1 == ExpandOne(targets, "all", NormalList)
         t2 == ExpandOne(t1, "tests", TestList)
         t3 == ExpandOne(t2, "everything", NormalList \o TestList)
     IN  \E t4 \in Dedup(t3) :
           targets' \in IF depsOnly THEN Dedup(DirectDeps(t4)) ELSE {t4}
  /\ Finish("Build")
  /\ UNCHANGED <<tokens, depsOnly, pathDir, idx, parsed, creative,
                 destructive>>

\* target_dict is loaded once, before the arguments are parsed.
Next == (Allowed \/ ParseDone \/ Route \/ Expand) /\ UNCHANGED decl

\* build.py runs to completion.
Spec == Init /\ [][Next]_vars /\ WF_vars(Next)

-----------------------------------------------------------------------------
\* build.py implements TargetRequest: whatever the order of the tokens and
\* of Python's sets, an invocation that mixes creative and destructive
\* targets or names an unknown one fails, a destructive one forwards only
\* its tokens, and a build one hands make exactly the expanded targets (or
\* their direct dependencies under --deps-only), never an aggregate name.
Abstract == INSTANCE TargetRequest
  WITH goals <- IF outcome \in {"Destructive", "Build"}
                  THEN ToSet(targets) ELSE {}
Refines == Abstract!Spec
=============================================================================
