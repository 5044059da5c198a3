--------------------------- MODULE CallbackScopes ---------------------------
(***************************************************************************)
(* What XML::LibXML::InputCallback promises over libxml2's one global list *)
(* of input callbacks: every parse works as if it had callbacks of its     *)
(* own.  A scope is the callback groups of one parse and the groups that   *)
(* serve its open inputs, the innermost first; a parse that starts inside  *)
(* a callback of another opens a scope on top, and leaves the one below    *)
(* exactly as it found it.                                                 *)
(***************************************************************************)
EXTENDS Naturals, Sequences

CONSTANT GroupLists   \* the groups that a parser may have, in their order

VARIABLE scopes

NewScope(groups) == [groups |-> groups, serving |-> <<>>]

Init == scopes = <<>>

Enter ==
  \E groups \in GroupLists : scopes' = Append(scopes, NewScope(groups))

Leave ==
  /\ scopes # <<>>
  /\ scopes' = SubSeq(scopes, 1, Len(scopes) - 1)

OnTop(serving) ==
  /\ scopes # <<>>
  /\ scopes' = [scopes EXCEPT ![Len(scopes)].serving = serving]

Top == scopes[Len(scopes)]

(* An input is opened by a group of the running parse. *)
Serve ==
  \E i \in DOMAIN Top.groups : OnTop(<<Top.groups[i]>> \o Top.serving)

Release ==
  /\ Top.serving # <<>>
  /\ OnTop(Tail(Top.serving))

Next ==
  \/ Enter
  \/ Leave
  \/ scopes # <<>> /\ (Serve \/ Release)

Spec == Init /\ [][Next]_scopes
=============================================================================
