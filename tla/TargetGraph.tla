---------------------------- MODULE TargetGraph ----------------------------
(***************************************************************************)
(* checkTargets of src/conan/generate-makefile.py: the validation of the   *)
(* targets.yaml declaration that runs before any rule file is written.     *)
(*                                                                         *)
(*   hasDuplicates -> hasUndefinedDependency -> isNotPackage ->            *)
(*   Graph.addEdges/doneAdding -> Graph.firstCycle (recursive DFS)         *)
(*                                                                         *)
(* Targets are 1..N in declaration order (the order of the YAML mapping,   *)
(* which is the order Graph.doneAdding numbers them in, so the id          *)
(* translation of doneAdding is the identity here).  A declaration gives   *)
(* every target a list of dependency ids drawn from Ids, which may contain *)
(* Undefined, a name that is not a declared target.  The recursion of     *)
(* isCyclicUtil is an explicit stack of frames [v, i]: the node and the    *)
(* index of the next neighbour its for-loop examines.                      *)
(***************************************************************************)
EXTENDS Naturals, Sequences, FiniteSets

CONSTANTS
  N,            \* number of declared targets
  Undefined,    \* a dependency name that is not a declared target
  MaxDeps,      \* longest dependency list of a declaration
  DepIds,       \* the names a dependency list may contain
  DriverStates  \* what isNotPackage may find at a target's conanfile.py

Nodes == 1..N

ASSUME N \in Nat \ {0}
ASSUME MaxDeps \in Nat
ASSUME DepIds \subseteq Nodes \cup {Undefined}
ASSUME DriverStates \subseteq {"ok", "missing", "notExecutable"}

\* Result of firstCycle when the DFS finds no back edge (Python None).
NoCycle == 0

Outcomes == {"pending", "MalformedDeclaration", "UndefinedDependency",
             "MissingDriver", "CyclicDependency", "ok"}

VARIABLES
  targets,   \* the loaded declaration: target -> list of dependency ids
  driver,    \* target -> state of <target dir>/conanfile.py
  pc,        \* which step of checkTargets runs next
  visited,   \* Graph.firstCycle: visited[]
  recStack,  \* Graph.firstCycle: recStack[]
  stack,     \* frames of the isCyclicUtil recursion, innermost last
  node,      \* loop variable of the for-loop of firstCycle
  outcome,   \* how checkTargets ended
  cycle      \* value returned by firstCycle

vars == <<targets, driver, pc, visited, recStack, stack, node, outcome, cycle>>

Declarations == [Nodes -> UNION {[1..k -> DepIds] : k \in 0..MaxDeps}]

Frames == [v : Nodes, i : 1..MaxDeps + 1]

TypeOK ==
  /\ targets \in Declarations
  /\ driver \in [Nodes -> DriverStates]
  /\ pc \in {"duplicates", "undefined", "package", "graph",
             "outer", "util", "done"}
  /\ visited \subseteq Nodes
  /\ recStack \subseteq Nodes
  /\ stack \in Seq(Frames)
  /\ node \in 1..N + 1
  /\ outcome \in Outcomes
  /\ cycle \in Nodes \cup {NoCycle}

\* Python `len(deps) != len(set(deps))`.
HasDuplicates(t) ==
  \E i, j \in DOMAIN targets[t] : i # j /\ targets[t][i] = targets[t][j]

DepSet(t) == {targets[t][i] : i \in DOMAIN targets[t]}

\* Faulty variants of the two helpers below, for mutation analysis of the
\* properties: isCyclicUtil forgetting to pop v from recStack, and the
\* outer loop stopping one node early or running one index past the last.
UnmarkSkipped(v) == recStack' = recStack
LoopDoneLate == node > N + 1
LoopDoneEarly == node >= N

\* `recStack[v] = False` before isCyclicUtil(v) returns False.
Unmark(v) == recStack' = recStack \ {v}

\* `for node in range(self.V)` has run out of nodes.
LoopDone == node > N

Finish(o) ==
  /\ pc' = "done"
  /\ outcome' = o

-----------------------------------------------------------------------------
Init ==
  /\ targets \in Declarations
  /\ driver \in [Nodes -> DriverStates]
  /\ pc = "duplicates"
  /\ visited = {}
  /\ recStack = {}
  /\ stack = <<>>
  /\ node = 1
  /\ outcome = "pending"
  /\ cycle = NoCycle

\* hasDuplicates(targets); exit(1) when some list repeats a dependency.
CheckDuplicates ==
  /\ pc = "duplicates"
  /\ IF \E t \in Nodes : HasDuplicates(t)
       THEN Finish("MalformedDeclaration")
       ELSE pc' = "undefined" /\ UNCHANGED outcome
  /\ UNCHANGED <<targets, driver, visited, recStack, stack, node, cycle>>

\* hasUndefinedDependency(targets): all_deps minus all_targets non-empty.
CheckUndefined ==
  /\ pc = "undefined"
  /\ IF UNION {DepSet(t) : t \in Nodes} \ Nodes # {}
       THEN Finish("UndefinedDependency")
       ELSE pc' = "package" /\ UNCHANGED outcome
  /\ UNCHANGED <<targets, driver, visited, recStack, stack, node, cycle>>

\* isNotPackage(targets): conanfile.py missing or not executable.
CheckPackage ==
  /\ pc = "package"
  /\ IF \E t \in Nodes : driver[t] # "ok"
       THEN Finish("MissingDriver")
       ELSE pc' = "graph" /\ UNCHANGED outcome
  /\ UNCHANGED <<targets, driver, visited, recStack, stack, node, cycle>>

\* g.addEdges for every target, g.doneAdding(), then firstCycle allocates
\* visited and recStack all False and starts its loop at node 0.
BuildGraph ==
  /\ pc = "graph"
  /\ pc' = "outer"
  /\ visited' = {}
  /\ recStack' = {}
  /\ node' = 1
  /\ UNCHANGED <<targets, driver, stack, outcome, cycle>>

\* One turn of `for node in range(self.V)` in firstCycle: skip a visited
\* node, enter isCyclicUtil(node) on an unvisited one, and return None
\* (and checkTargets goes on to write the rule file) after the last one.
FirstCycleLoop ==
  /\ pc = "outer"
  /\ \/ /\ LoopDone
        /\ Finish("ok")
        /\ UNCHANGED <<visited, recStack, stack, node, cycle>>
     \/ /\ ~LoopDone
        /\ node \in visited
        /\ node' = node + 1
        /\ UNCHANGED <<pc, visited, recStack, stack, outcome, cycle>>
     \/ /\ ~LoopDone
        /\ node \notin visited
        /\ visited' = visited \cup {node}
        /\ recStack' = recStack \cup {node}
        /\ stack' = <<[v |-> node, i |-> 1]>>
        /\ pc' = "util"
        /\ UNCHANGED <<node, outcome, cycle>>
  /\ UNCHANGED <<targets, driver>>

\* One step of isCyclicUtil(v) for the innermost frame: examine the next
\* neighbour (recurse into an unvisited one, return True on one still in
\* recStack, go on otherwise), or leave the loop, clear recStack[v] and
\* return False.  A True result unwinds every frame at once and makes
\* firstCycle return the node its own loop started from; checkTargets then
\* prints it and exits.
CyclicUtilStep ==
  /\ pc = "util"
  /\ LET f == stack[Len(stack)]
         v == f.v
         rest == SubSeq(stack, 1, Len(stack) - 1)
     IN
     \/ /\ f.i > Len(targets[v])
        /\ Unmark(v)
        /\ stack' = rest
        /\ IF rest = <<>>
             THEN pc' = "outer" /\ node' = node + 1
             ELSE UNCHANGED <<pc, node>>
        /\ UNCHANGED <<visited, outcome, cycle>>
     \/ /\ f.i <= Len(targets[v])
        /\ LET n == targets[v][f.i] IN
           \/ /\ n \notin visited
              /\ visited' = visited \cup {n}
              /\ recStack' = recStack \cup {n}
              /\ stack' = Append(Append(rest, [f EXCEPT !.i = @ + 1]),
                                 [v |-> n, i |-> 1])
              /\ UNCHANGED <<pc, node, outcome, cycle>>
           \/ /\ n \in visited
              /\ n \in recStack
              /\ cycle' = node
              /\ Finish("CyclicDependency")
              /\ UNCHANGED <<visited, recStack, stack, node>>
           \/ /\ n \in visited
              /\ n \notin recStack
              /\ stack' = Append(rest, [f EXCEPT !.i = @ + 1])
              /\ UNCHANGED <<pc, visited, recStack, node, outcome, cycle>>
  /\ UNCHANGED <<targets, driver>>

Next ==
  \/ CheckDuplicates
  \/ CheckUndefined
  \/ CheckPackage
  \/ BuildGraph
  \/ FirstCycleLoop
  \/ CyclicUtilStep

\* The program runs to completion: nothing in checkTargets waits.
Spec == Init /\ [][Next]_vars /\ WF_vars(Next)

-----------------------------------------------------------------------------
LOCAL Gr == INSTANCE Graphs

DepGraph == [node |-> Nodes,
             edge |-> {<<t, d>> \in Nodes \X Nodes : d \in DepSet(t)}]

\* Reach[m, n]: n is reachable from m (every node reaches itself).
Reach == Gr!ConnectionsIn(DepGraph)

OnCycle(n) == \E d \in DepSet(n) \cap Nodes : Reach[d, n]

\* checkTargets implements CheckTargets: the DFS of Graph.firstCycle, run
\* after the three list checks, accepts exactly the declarations that are
\* free of repeated and undefined dependencies, missing drivers and
\* cycles, rejects the others for the first fault in that order, and
\* always terminates.
Abstract == INSTANCE CheckTargets
Refines == Abstract!Spec

\* The target printed as "forms a dependency cycle" is one from which a
\* dependency cycle can be reached: firstCycle returns the node its outer
\* loop started the failing isCyclicUtil from.
CycleReachableFromWitness ==
  outcome = "CyclicDependency" =>
    \E n \in Nodes : Reach[cycle, n] /\ OnCycle(n)

\* Spec section 8: detectCycle "returns a node that lies on some cycle".
\* firstCycle returns the root of the DFS, which need not lie on one.
CycleWitnessOnCycle ==
  outcome = "CyclicDependency" => OnCycle(cycle)
=============================================================================
