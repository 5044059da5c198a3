------------------------------- MODULE MCSax -------------------------------
(* Start tags for Sax: a prefix bound outside, inside, or not at all, and  *)
(* an attribute on either side of the declaration of its prefix.           *)
EXTENDS Sax

CONSTANTS p, u, v

Declaration(prefix, uri) == [declares |-> TRUE, prefix |-> prefix, uri |-> uri]
Attribute(prefix)        == [declares |-> FALSE, prefix |-> prefix, uri |-> NULL]

Tag(prefix, items) == [name |-> "e", prefix |-> prefix, items |-> items]

Tags ==
  {Tag(NULL, <<Declaration(p, u), Declaration(NULL, v)>>),
   Tag(p,    <<Attribute(p)>>),
   Tag(p,    <<Attribute(p), Declaration(p, v)>>)}
=============================================================================
