-------------------------- MODULE MCParseCompilers --------------------------
(* The compilers of MCDriver and every command line of up to two options. *)
EXTENDS ParseCompilers

MCCompilers == {<<"gcc", 0>>, <<"gcc", 10>>, <<"clang", 0>>}
MCDefaultVersion == [c \in {"gcc", "clang"} |-> IF c = "gcc" THEN 9 ELSE 12]

\* -b with a choice, without a value or with a value outside the choices;
\* -s likewise; -c with each name or none; the four flags.
MCOptions ==
  {[opt |-> "b", val |-> v] : v \in {"debug", "release", None, Bad}}
  \cup {[opt |-> "s", val |-> v] : v \in {"debug", None, Bad}}
  \cup {[opt |-> "c", val |-> v] : v \in MCCompilers \cup {None}}
  \cup {[opt |-> f, val |-> None] : f \in StoreTrue}

MCArgvs == SeqOf(MCOptions, 2)
=============================================================================
