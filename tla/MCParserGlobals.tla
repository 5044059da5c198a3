-------------------------- MODULE MCParserGlobals --------------------------
(* A parser of trees with no_network, and one with a SAX handler that has   *)
(* no idea of a loader.                                                    *)
EXTENDS ParserGlobals

CONSTANTS n, o
=============================================================================
