--------------------------- MODULE MCXPathContext ---------------------------
(* An instance of XPathContext for TLC. Trees are interchangeable. *)
EXTENDS XPathContext, TLC

Symmetry == Permutations(Trees)
=============================================================================
