------------------------------ MODULE MCDriver ------------------------------
(* The compilers and recipes of the repository, in small.                  *)
EXTENDS Driver

R == INSTANCE Recipes

\* link.sh: the bare gcc and clang, and one versioned gcc link.
MCCompilers == {<<"gcc", 0>>, <<"gcc", 10>>, <<"clang", 0>>}
MCDefaultVersion == [c \in {"gcc", "clang"} |-> IF c = "gcc" THEN 9 ELSE 12]

\* The invoker.run flags of the recipes of the repository.
MCRecipes == R!RepositoryRecipes

\* A shell with none of CC, a compiler on PATH or a profile set.
Clean == [cc |-> Absent, path |-> NoPath, profile |-> Absent]

\* ... or one that has run `eval $(conan/parse-compilers.py -c C -b B)`,
\* which exports CC, PATH and CONAN_DEFAULT_PROFILE_PATH.
Evaluated == {PC!GenerateConfig(c, b) : c \in MCCompilers, b \in BuildTypes}

MCCleanShell == {Clean}
MCAnyShell == {Clean} \cup Evaluated
=============================================================================
