----------------------------- MODULE MCDomList -----------------------------
(* Instances of DomList for TLC. Fragments are interchangeable.           *)
EXTENDS DomList

Symmetry == Permutations(Frags)
=============================================================================
