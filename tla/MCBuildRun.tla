----------------------------- MODULE MCBuildRun -----------------------------
(* Three targets in a chain c -> b -> a, so that a stale package can hide   *)
(* two levels below a goal; one or two axis points.                        *)
EXTENDS BuildRun

MCDepsOf == [t \in {"a", "b", "c"} |->
               CASE t = "a" -> {}
                 [] t = "b" -> {"a"}
                 [] t = "c" -> {"b"}]
\* The top of the chain alone, and with the package below it.
MCGoalSets == {{"c"}, {"b", "c"}}
=============================================================================
