------------------------------- MODULE Parses -------------------------------
(* What InputCallbacks and ParserGlobals share: the parsers of a program   *)
(* and how far its parses go.                                              *)
EXTENDS Naturals

CONSTANTS
  Parsers,
  MaxNesting,   \* bound: parses that are running at once
  MaxParses,    \* bound: parses in one behaviour
  NULL
=============================================================================
