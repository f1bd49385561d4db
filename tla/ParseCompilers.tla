--------------------------- MODULE ParseCompilers ---------------------------
(***************************************************************************)
(* One run of src/conan/parse-compilers.py: link.sh lists the compilers,   *)
(* the default is chosen, argparse reads the command line one option at a *)
(* time into its namespace, and the script answers with the first of:      *)
(* --show-all-json, --show-compilers, --show-builds, or the configuration  *)
(* of the chosen compiler and build type (JSON or `export` lines).         *)
(*                                                                         *)
(* An option on the command line is a record [opt, val].  -b, -c and -s    *)
(* take nargs="?" with no const: given without a value, val is None.       *)
(* -b and -s share the dest build_type; only -b and -c check choices.      *)
(***************************************************************************)
EXTENDS CompilerConfig, SequencesExt, FiniteSets

CONSTANTS
  Compilers,  \* the names link.sh may list
  Argvs,      \* the command lines, sequences of options
  None,       \* an option given without its value
  Bad         \* a value that is not among the -b choices

\* The dest each option writes.
Dest == [b |-> "build_type", s |-> "build_type", c |-> "compiler",
         show_all |-> "show_all", compilers_list |-> "compilers_list",
         build_types_list |-> "build_types_list", json_output |-> "json_output"]

StoreTrue == {"show_all", "compilers_list", "build_types_list", "json_output"}

VARIABLES
  available,  \* available_compilers, in link.sh's order
  argv,       \* sys.argv[1:]
  i,          \* the next option argparse reads
  ns,         \* the argparse namespace: dest -> value
  pc,
  out         \* what the script printed and its exit status

vars == <<available, argv, i, ns, pc, out>>

NoCompilers == [exit |-> 1, what |-> "nocompilers"]
Usage == [exit |-> 2, what |-> "usage"]
Traceback == [exit |-> 1, what |-> "traceback"]
ShowAll(d) == [exit |-> 0, what |-> "all", default |-> d]
Listing(w) == [exit |-> 0, what |-> w]
Config(j, c, b) ==
  [exit |-> 0, what |-> "config", json |-> j, conf |-> GenerateConfig(c, b)]

\* The parser's actions in the order of add_argument, with their defaults.
ParserActions(d) ==
  << [dest |-> "build_type", default |-> "release"],
     [dest |-> "compiler", default |-> d],
     [dest |-> "build_type", default |-> None],
     [dest |-> "compilers_list", default |-> FALSE],
     [dest |-> "build_types_list", default |-> FALSE],
     [dest |-> "show_all", default |-> FALSE],
     [dest |-> "json_output", default |-> FALSE] >>

\* A faulty variant: a later action's default overrides an earlier one's.
DefaultsLastWins(d) ==
  FoldLeft(LAMBDA n, a : (a.dest :> a.default) @@ n, <<>>, ParserActions(d))

\* parse_known_args sets the default of an action only when its dest has
\* none yet: the first action of a dest gives its default.
Defaults(d) ==
  FoldLeft(LAMBDA n, a : n @@ (a.dest :> a.default), <<>>, ParserActions(d))

\* A faulty variant: -c not checked against the listed compilers.
ValidAnyCompiler(o, avail) ==
  o.opt = "b" => o.val \in BUILD_TYPES \cup {None}

\* The choices argparse checks: -b among BUILD_TYPES, -c among the listed
\* compilers; a missing value (None) is not checked.
Valid(o, avail) ==
  CASE o.opt = "b" -> o.val \in BUILD_TYPES \cup {None}
    [] o.opt = "c" -> o.val \in ToSet(avail) \cup {None}
    [] OTHER -> TRUE

TypeOK ==
  /\ available \in Seq(Compilers)
  /\ argv \in Argvs
  /\ i \in 1..Len(argv) + 1
  /\ pc \in {"discover", "parse", "dispatch", "done"}
  /\ pc \in {"parse", "dispatch"} => ns["build_type"] \in BUILD_TYPES \cup {None, Bad}
  /\ pc \in {"parse", "dispatch"} => ns["compiler"] \in ToSet(available) \cup {None}

-----------------------------------------------------------------------------
\* Any list of distinct names link.sh may print, and any command line.
Init ==
  /\ available \in {s \in SeqOf(Compilers, Cardinality(Compilers)) : IsInjective(s)}
  /\ argv \in Argvs
  /\ i = 1
  /\ ns = <<>>
  /\ pc = "discover"
  /\ out = <<>>

\* Lines 41-57 and the parser's defaults: no compiler ends the script.
Discover ==
  /\ pc = "discover"
  /\ IF available = <<>>
       THEN pc' = "done" /\ out' = NoCompilers /\ UNCHANGED ns
       ELSE pc' = "parse" /\ ns' = Defaults(DefaultCompiler(available))
            /\ UNCHANGED out
  /\ UNCHANGED <<available, argv, i>>

\* argparse consumes one option: a value outside the choices is a usage
\* error (exit 2), else the value (TRUE for a flag) is stored in its dest.
ParseArg ==
  /\ pc = "parse"
  /\ i <= Len(argv)
  /\ LET o == argv[i] IN
       IF Valid(o, available)
         THEN /\ ns' = [ns EXCEPT ![Dest[o.opt]] =
                          IF o.opt \in StoreTrue THEN TRUE ELSE o.val]
              /\ i' = i + 1
              /\ UNCHANGED <<pc, out>>
         ELSE pc' = "done" /\ out' = Usage /\ UNCHANGED <<ns, i>>
  /\ UNCHANGED <<available, argv>>

ParseDone ==
  /\ pc = "parse"
  /\ i > Len(argv)
  /\ pc' = "dispatch"
  /\ UNCHANGED <<available, argv, i, ns, out>>

\* Lines 134-152: the listings, each ending the script.
Show ==
  /\ pc = "dispatch"
  /\ \/ ns["show_all"] /\ out' = ShowAll(DefaultCompiler(available))
     \/ ~ns["show_all"] /\ ns["compilers_list"] /\ out' = Listing("compilers")
     \/ ~ns["show_all"] /\ ~ns["compilers_list"] /\ ns["build_types_list"]
        /\ out' = Listing("builds")
  /\ pc' = "done"
  /\ UNCHANGED <<available, argv, i, ns>>

\* Lines 155-194: generate_config; normalize_compiler_name(None) raises.
Generate ==
  /\ pc = "dispatch"
  /\ ~ns["show_all"] /\ ~ns["compilers_list"] /\ ~ns["build_types_list"]
  /\ out' = IF ns["compiler"] = None THEN Traceback
            ELSE Config(ns["json_output"], ns["compiler"], ns["build_type"])
  /\ pc' = "done"
  /\ UNCHANGED <<available, argv, i, ns>>

Next == Discover \/ ParseArg \/ ParseDone \/ Show \/ Generate

Spec == Init /\ [][Next]_vars /\ WF_vars(Next)

-----------------------------------------------------------------------------
\* What the command line asks for, read the way its help text describes
\* it: each option's last occurrence counts, a build type defaults to
\* release and a compiler to the default; a bad choice is a usage error.
Answer(avail, args) ==
  LET given(os) == {k \in DOMAIN args : args[k].opt \in os}
      last(os, d) == IF given(os) = {} THEN d ELSE args[Max(given(os))].val
      c == last({"c"}, DefaultCompiler(avail))
  IN  CASE avail = <<>> -> NoCompilers
        [] \E k \in DOMAIN args : ~Valid(args[k], avail) -> Usage
        [] given({"show_all"}) # {} -> ShowAll(DefaultCompiler(avail))
        [] given({"compilers_list"}) # {} -> Listing("compilers")
        [] given({"build_types_list"}) # {} -> Listing("builds")
        [] c = None -> Traceback
        [] OTHER -> Config(given({"json_output"}) # {}, c,
                           last({"b", "s"}, "release"))

\* The script's answer to every command line, option by option through
\* argparse's namespace, is the one the options ask for: -b and -s share
\* their dest, so the later one wins and -b's default "release" holds.
AnswerMatchesRequest == pc = "done" => out = Answer(available, argv)

\* Every configuration the script prints is for a listed compiler and a
\* build type that has profiles, and the script never ends in a traceback.
ConfigOnAxis ==
  pc = "done" =>
    /\ out # Traceback
    /\ out.what = "config" => out.conf.profile[3] \in BUILD_TYPES
=============================================================================
