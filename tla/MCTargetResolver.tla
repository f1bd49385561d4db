-------------------------- MODULE MCTargetResolver --------------------------
(* Two packages and one test target, every creative aggregate, two of the  *)
(* destructive ones, two path tokens naming any directory, and command     *)
(* lines of up to three tokens.                                            *)
EXTENDS TargetResolver

MCNormalList == <<"a", "b">>
MCTestList == <<"test-a">>

MCDeps == [t \in {"a", "b", "test-a"} |->
             CASE t = "a" -> <<>>
               [] t = "b" -> <<"a">>
               [] t = "test-a" -> <<"a", "b">>]

MCDeclarations == {MCDeps}
=============================================================================
