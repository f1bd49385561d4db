--------------------------- MODULE CompilerConfig ---------------------------
(***************************************************************************)
(* The pure functions of src/conan/parse-compilers.py: the choice of the   *)
(* default compiler among those link.sh lists, conan_profile and           *)
(* generate_config.  build.py takes CC and PATH from its --json output,    *)
(* and a developer's shell takes all of it from `eval` of its plain        *)
(* output; Driver instantiates this module for both.                       *)
(*                                                                         *)
(* A compiler name is <<class, version>>: version 0 is the bare class name *)
(* ("gcc"), any other the link compilers/<class>-<version>.  A profile is  *)
(* <<class, version, build type>>, profiles/<c>-<v>-<b>.profile.           *)
(***************************************************************************)
EXTENDS Naturals, Sequences

CONSTANTS
  Classes,        \* the compiler classes normalize_compiler_name knows
  DefaultVersion  \* class -> int(compilers/<class>-default)

\* No compiler directory prepended to PATH (COMPILER_PATH is None).
NoPath == <<"system">>

\* BUILD_TYPES, the build types of the profiles.
BUILD_TYPES == {"debug", "release", "relwithdebinfo", "minsizerel"}

\* The default compiler: the bare gcc if link.sh lists it, else the bare
\* clang, else the first name it lists.
DefaultCompiler(available) ==
  LET listed(c) == \E i \in DOMAIN available : available[i] = c
  IN  IF listed(<<"gcc", 0>>) THEN <<"gcc", 0>>
      ELSE IF listed(<<"clang", 0>>) THEN <<"clang", 0>>
      ELSE available[1]

\* conan_profile(compiler_name, compiler_class): the profile of the name,
\* with the version in compilers/<class>-default for a bare class name.
ConanProfile(c, b) ==
  <<c[1], IF c[2] = 0 THEN DefaultVersion[c[1]] ELSE c[2], b>>

\* COMPILER_PATH: compilers/<name> unless the name is the bare class.
CompilerPath(c) == IF c[2] = 0 THEN NoPath ELSE c

\* generate_config(compiler): CC from normalize_compiler_name (the class
\* the name starts with), PATH and CONAN_DEFAULT_PROFILE_PATH.  The JSON
\* and the `export` lines carry the same three values.
GenerateConfig(c, b) ==
  [cc |-> c[1], path |-> CompilerPath(c), profile |-> ConanProfile(c, b)]
=============================================================================
