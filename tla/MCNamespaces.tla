--------------------------- MODULE MCNamespaces ---------------------------
(* The instances of Namespaces that TLC checks. *)
EXTENDS Namespaces

CONSTANTS a, b, c, p, u, v

Elements == Permutations({a, b, c})
Names2   == Permutations({u, v})
Alike    == Elements \cup Names2
============================================================================
