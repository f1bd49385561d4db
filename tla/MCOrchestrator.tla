-------------------------- MODULE MCOrchestrator ---------------------------
(* The resolver's instance (two packages and one test target, command     *)
(* lines of up to two tokens) on two contents of targets.yaml: the valid *)
(* one and one with the cycle a <-> b; -c and -b given with a value or    *)
(* bare.                                                                  *)
EXTENDS Orchestrator

MCNormalList == <<"a", "b">>
MCTestList == <<"test-a">>

MCValid == ("a" :> <<>>) @@ ("b" :> <<"a">>) @@ ("test-a" :> <<"b">>)
MCCycle == [MCValid EXCEPT !["a"] = <<"b">>]

MCDeclarations == {MCValid, MCCycle}
=============================================================================
