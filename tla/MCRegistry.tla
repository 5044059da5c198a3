---------------------------- MODULE MCRegistry ----------------------------
(* Instances of Registry for TLC. Nodes, and threads but the first, are   *)
(* interchangeable.                                                       *)
EXTENDS Registry, TLC

Symmetry == Permutations(Nodes) \cup Permutations(Threads \ {Main})
=============================================================================
