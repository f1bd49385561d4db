---------------------------- MODULE TargetRequest ----------------------------
(***************************************************************************)
(* What the target tokens of one build.py invocation mean (spec sections   *)
(* 3 and 4.2), in one step and without an order of evaluation:             *)
(*  - a token names a target or aggregate symbolically, or is a path of a  *)
(*    target's directory (compared by identity); anything else is unknown; *)
(*  - tokens that are unknown, or a mix of build-like (targets, creative   *)
(*    aggregates) and destructive ones, make the invocation fail;          *)
(*  - destructive aggregates are forwarded as they are;                    *)
(*  - otherwise all -> normal targets, tests -> test targets, everything -> *)
(*    both, duplicates go, and with --deps-only the set is replaced by the *)
(*    union of its members' direct dependency lists.                       *)
(* No token given means "all".                                             *)
(***************************************************************************)
EXTENDS Naturals, Sequences, FiniteSets

CONSTANTS
  NormalList,       \* normal targets, in the order build.py sorts them
  TestList,         \* test targets ("test-" prefix), sorted
  Creative,         \* {"all", "tests", "everything"}
  Destructive,      \* {"clean", "buildclean", "tidyclean", "distclean"}
  PathTokens,       \* tokens that are not names, only paths
  Unknown,          \* a token that is neither a name nor a path
  Declarations,     \* the contents targets.yaml may have: target -> deps
  MaxTokens,        \* most tokens on one command line
  NoDir,            \* a path token that is not an existing directory
  Elsewhere         \* an existing directory that is no target's

VARIABLES
  tokens,     \* the TARGET arguments, in command-line order
  depsOnly,   \* --deps-only
  pathDir,    \* path token -> the directory it names
  outcome,    \* "pending", an error, "Destructive" or "Build"
  goals,      \* the targets handed on to make
  decl        \* the loaded targets.yaml

LOCAL SeqSet(s) == {s[i] : i \in DOMAIN s}

Normal == SeqSet(NormalList)
Tests == SeqSet(TestList)
Targets == Normal \cup Tests
Names == Targets \cup Creative \cup Destructive
TokenSet == Names \cup PathTokens \cup {Unknown}

\* The directory of a target: a package at the root, a test under
\* .jenkins/tests with its prefix stripped; distinct targets, distinct dirs.
Dir(t) == IF t \in Tests THEN <<"test", t>> ELSE <<"pkg", t>>
Dirs == {Dir(t) : t \in Targets} \cup {NoDir, Elsewhere}

Resolve(tok) ==
  IF tok \in Names THEN tok
  ELSE IF tok \in PathTokens /\ \E t \in Targets : Dir(t) = pathDir[tok]
    THEN CHOOSE t \in Targets : Dir(t) = pathDir[tok]
  ELSE Unknown

Resolved == {Resolve(tokens[i]) : i \in DOMAIN tokens}

Requested == IF tokens = <<>> THEN {"all"} ELSE Resolved

Expanded ==
  (Requested \cap Targets)
    \cup (IF {"all", "everything"} \cap Requested # {} THEN Normal ELSE {})
    \cup (IF {"tests", "everything"} \cap Requested # {} THEN Tests ELSE {})

BuildSet ==
  IF depsOnly THEN UNION {SeqSet(decl[t]) : t \in Expanded}
              ELSE Expanded

Mixed ==
  LET known == Resolved \ {Unknown}
  IN  /\ known \cap (Targets \cup Creative) # {}
      /\ known \cap Destructive # {}

Errors ==
  (IF Unknown \in Resolved THEN {"UnknownTarget"} ELSE {})
    \cup (IF Mixed THEN {"MixedTargetKinds"} ELSE {})

\* The outcomes the spec allows for the tokens: either error when both
\* apply, since it does not say which is reported first.
Allowed ==
  IF Errors # {} THEN {[o |-> e, g |-> {}] : e \in Errors}
  ELSE IF Requested \cap Destructive # {}
    THEN {[o |-> "Destructive", g |-> Requested]}
  ELSE {[o |-> "Build", g |-> BuildSet]}

Init ==
  /\ tokens \in UNION {[1..k -> TokenSet] : k \in 0..MaxTokens}
  /\ depsOnly \in BOOLEAN
  /\ pathDir \in [PathTokens -> Dirs]
  /\ outcome = "pending"
  /\ goals = {}
  /\ decl \in Declarations

Decide ==
  /\ outcome = "pending"
  /\ \E r \in Allowed : outcome' = r.o /\ goals' = r.g
  /\ UNCHANGED <<tokens, depsOnly, pathDir, decl>>

vars == <<tokens, depsOnly, pathDir, outcome, goals, decl>>

Spec == Init /\ [][Decide]_vars /\ WF_vars(Decide)
=============================================================================
