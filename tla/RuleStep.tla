------------------------------ MODULE RuleStep ------------------------------
(***************************************************************************)
(* What BuildRun assumes of one run of a recipe's driver, as one atomic    *)
(* step: a run from make for a rule either fails and writes no marker      *)
(* (FailRecipe), or succeeds and writes exactly the markers of its rule    *)
(* (CheckRule touches the export marker; Complete writes the package and   *)
(* its .conandep marker when WritesPackage holds: a dep rule, or the test  *)
(* rule of an exportable recipe).  A run by hand writes no package marker. *)
(*                                                                         *)
(* Only the markers make's staleness tracking reads are tracked: "export"  *)
(* (.deps/exports/t.conanbuild) and "dep" (.conandep).                     *)
(***************************************************************************)
CONSTANTS Recipes

VARIABLES
  direct,   \* run by hand, not by make
  recipe,   \* the recipe's invoker.run flags
  rule,     \* the rule kind make runs it for ("none" by hand)
  outcome,  \* "running", "ok" or "failed"
  writes    \* the markers the run has written

vars == <<direct, recipe, rule, outcome, writes>>

\* The markers a successful run from make writes, as BuildRun models them
\* (WritesPackage); a recipe of the repository is buildable or exportable.
Effect(r, rc) ==
  CASE r = "check" -> {"export"}
    [] r = "dep" -> {"dep"}
    [] r = "test" /\ rc.exportable -> {"dep"}
    [] OTHER -> {}

Init ==
  /\ direct \in BOOLEAN
  /\ recipe \in Recipes
  /\ rule \in IF direct THEN {"none"}
              ELSE {"check", "dep", "tidy", "test", "testtidy"}
  /\ outcome = "running"
  /\ writes = {}

Succeed ==
  /\ outcome = "running"
  /\ outcome' = "ok"
  /\ IF direct THEN writes' \in SUBSET {"export"}
               ELSE writes' = Effect(rule, recipe)
  /\ UNCHANGED <<direct, recipe, rule>>

Fail ==
  /\ outcome = "running"
  /\ outcome' = "failed"
  /\ UNCHANGED <<direct, recipe, rule, writes>>

Next == Succeed \/ Fail

\* Every run ends: the scripts a driver calls return.
Spec == Init /\ [][Next]_vars /\ WF_vars(Next)
=============================================================================
