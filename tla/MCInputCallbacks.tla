-------------------------- MODULE MCInputCallbacks --------------------------
(* Two parsers, one with two groups of callbacks and one with a third.     *)
EXTENDS InputCallbacks

CONSTANTS p, q, disk, memory, net

OfParsers == [x \in {p, q} |-> IF x = p THEN <<disk, memory>> ELSE <<net>>]
=============================================================================
