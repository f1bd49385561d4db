---------------------------- MODULE CheckTargets ----------------------------
(***************************************************************************)
(* What checkTargets promises, in one step: a declaration is rejected for  *)
(* the first of its faults in the order the spec lists them (a repeated    *)
(* dependency, a dependency that is not a target, a target without an      *)
(* executable conanfile.py, a dependency cycle), and accepted when it has  *)
(* none.  The cycle test is the reference one of the Graphs module, not a  *)
(* search.                                                                 *)
(***************************************************************************)
EXTENDS Naturals, Sequences, FiniteSets

CONSTANTS N, Undefined, MaxDeps, DepIds, DriverStates

LOCAL Gr == INSTANCE Graphs

Nodes == 1..N

VARIABLES targets, driver, outcome

Declarations == [Nodes -> UNION {[1..k -> DepIds] : k \in 0..MaxDeps}]

DepSet(t) == {targets[t][i] : i \in DOMAIN targets[t]}

\* The dependency graph: an edge from a target to each of its dependencies.
DepGraph == [node |-> Nodes,
             edge |-> {<<t, d>> \in Nodes \X Nodes : d \in DepSet(t)}]

Verdict ==
  CASE \E t \in Nodes : Len(targets[t]) # Cardinality(DepSet(t))
         -> "MalformedDeclaration"
    [] UNION {DepSet(t) : t \in Nodes} \ Nodes # {}
         -> "UndefinedDependency"
    [] \E t \in Nodes : driver[t] # "ok"
         -> "MissingDriver"
    [] Gr!HasCycle(DepGraph)
         -> "CyclicDependency"
    [] OTHER -> "ok"

Init ==
  /\ targets \in Declarations
  /\ driver \in [Nodes -> DriverStates]
  /\ outcome = "pending"

Decide ==
  /\ outcome = "pending"
  /\ outcome' = Verdict
  /\ UNCHANGED <<targets, driver>>

Spec == Init /\ [][Decide]_<<targets, driver, outcome>>
             /\ WF_<<targets, driver, outcome>>(Decide)
=============================================================================
