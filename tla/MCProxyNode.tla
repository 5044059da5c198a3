---------------------------- MODULE MCProxyNode ----------------------------
(* Instances of ProxyNode for TLC. Nodes of a kind are interchangeable.    *)
EXTENDS ProxyNode, TLC

Symmetry == Permutations(Docs) \cup Permutations(Frags) \cup Permutations(Elems)
              \cup Permutations(Attrs)

(* Three elements in three fragments, or one with attributes and a document *)
SmallTrees ==
  \/ heap.alloc \cap (Docs \cup Attrs) = {}
  \/ Cardinality(heap.alloc \cap Elems) <= 1 /\ Cardinality(heap.alloc \cap Frags) <= 2
=============================================================================
