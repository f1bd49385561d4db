--------------------------- MODULE MCTargetGraph ---------------------------
(* Three targets whose lists hold up to two names, one of them possibly   *)
(* undeclared, with every driver state: every fault of checkTargets, every *)
(* shape of cycle on three nodes (self loop, 2-cycle, 3-cycle, a cycle     *)
(* below a root that is not on it) and every diamond.                      *)
EXTENDS TargetGraph

MCDepIds == Nodes \cup {Undefined}
=============================================================================
