---------------------------- MODULE XPathContext ----------------------------
(***************************************************************************)
(* XML::LibXML::XPathContext (XPathContext.pm, LibXML.xs): functions and   *)
(* variables in Perl that libxml2 calls while it evaluates an expression,  *)
(* and that may evaluate others with the same context.  Perl frees a tree  *)
(* with the last object of its nodes, but libxml2 holds nodes by pointers  *)
(* that are not counted: something must hold a tree for as long as an      *)
(* evaluation has nodes of it.  A node is known here by its tree.          *)
(***************************************************************************)
EXTENDS Naturals, SequencesExt

CONSTANTS
  Trees,        \* documents with their nodes
  Uses,         \* the calls named in RiskyUses that the program may make
  MaxNesting,   \* bound: evaluations under way at once
  NULL

(* Legal calls after which NodesAlive does not hold. *)
RiskyUses == {
  "SetInside",      \* setContextNode in a function or variable
  "VariableNodes"}  \* a variable with nodes that nothing else holds

ASSUME TreesAssumption == NULL \notin Trees \cup {"function", "variable"}
ASSUME UsesAssumption  == Uses \subseteq RiskyUses /\ MaxNesting \in Nat

VARIABLES
  live,      \* trees in memory
  held,      \* trees that variables of the program have objects of
  node,      \* XPathContextDATA(ctxt)->node
  pool,      \* XPathContextDATA(ctxt)->pool, {} without one
  varData,   \* trees that XPathContextDATA(ctxt)->varData refers to
  cnode,     \* ctxt->node, for all that libxml2 evaluates with
  calls      \* evaluations under way, the innermost last

vars == <<live, held, node, pool, varData, cnode, calls>>

NotSaved == [cnode |-> NULL, pool |-> {}]

(* An evaluation: the node that find was given and the context node that   *)
(* it has replaced; its context node; the trees it has nodes of; what      *)
(* libxml2 has called, with objects of which trees; and the saved context. *)
Frame(given, prev, context) ==
  [given |-> given, prev |-> prev, context |-> context, sets |-> {context},
   callback |-> NULL, args |-> {}, saved |-> NotSaved]

Frames ==
  [given : Trees \cup {NULL}, prev : Trees \cup {NULL}, context : Trees, sets : SUBSET Trees,
   callback : {"function", "variable", NULL}, args : SUBSET Trees,
   saved : [cnode : Trees \cup {NULL}, pool : SUBSET Trees]]

Running == calls[Len(calls)]

InPerl   == calls # <<>> => Running.callback # NULL
InLibxml == calls # <<>> /\ Running.callback = NULL

SetRunning(frame) == calls' = [calls EXCEPT ![Len(calls)] = frame]

(* What has an object of a node of a tree: variables of the program, the   *)
(* context with its pool, $node and $prev_node of _guarded_find_call, the  *)
(* arguments on the stack, and a saved pool *)
HeldBy(frame) == ({frame.given, frame.prev} \ {NULL}) \cup frame.args \cup frame.saved.pool

Referenced ==
  held \cup ({node} \ {NULL}) \cup pool \cup varData \cup UNION {HeldBy(f) : f \in Range(calls)}

(* The last conjunct of an action, which may have made the trees in new *)
Collect(new) == live' = (live \cup new) \cap Referenced'

(* The trees that the Perl code at hand can name *)
Named ==
  held \cup ({node} \ {NULL}) \cup varData \cup (IF calls = <<>> THEN {} ELSE Running.args)

Init ==
  /\ live = {}
  /\ held = {}
  /\ node = NULL
  /\ pool = {}
  /\ varData = {}
  /\ cnode = NULL
  /\ calls = <<>>

-----------------------------------------------------------------------------
(* The program, between evaluations and in callbacks *)

Create(t) ==
  /\ InPerl
  /\ t \notin live
  /\ held' = held \cup {t}
  /\ UNCHANGED <<node, pool, varData, cnode, calls>>
  /\ Collect({t})

Keep(t) ==
  /\ InPerl
  /\ t \in Named
  /\ held' = held \cup {t}
  /\ UNCHANGED <<live, node, pool, varData, cnode, calls>>

Drop(t) ==
  /\ InPerl
  /\ t \in held
  /\ held' = held \ {t}
  /\ UNCHANGED <<node, pool, varData, cnode, calls>>
  /\ Collect({})

(* Without a node only between evaluations: restoring would leave a        *)
(* pointer to a freed scalar.  A new scalar has the memory of the last one *)
(* that was freed, so that the pointer restored is that of the new node.   *)
SetContextNode(t) ==
  /\ calls = <<>> \/ (InPerl /\ "SetInside" \in Uses /\ t # NULL)
  /\ t \in Named \cup {NULL}
  /\ node' = t
  /\ UNCHANGED <<held, pool, varData, cnode, calls>>
  /\ Collect({})

(* LibXML_configure_xpathcontext, in a method without other effects here *)
LookupNs ==
  /\ InPerl
  /\ cnode' = node
  /\ UNCHANGED <<live, held, node, pool, varData, calls>>

RegisterVarLookup(data) ==
  /\ calls = <<>>
  /\ data \subseteq Named
  /\ varData' = data
  /\ cnode' = node
  /\ UNCHANGED <<held, node, pool, calls>>
  /\ Collect({})

-----------------------------------------------------------------------------
(* libxml2 calls Perl *)

(* A faulty form: the pool stays in the context, whose _free_node_pool     *)
(* another evaluation calls.                                               *)
SaveContext_pool(callback, args) ==
  /\ SetRunning([Running EXCEPT !.callback = callback, !.args = args,
                                !.saved = [cnode |-> cnode', pool |-> {}]])
  /\ UNCHANGED pool

(* LibXML_save_context *)
SaveContext(callback, args) ==
  /\ SetRunning([Running EXCEPT !.callback = callback, !.args = args,
                                !.saved = [cnode |-> cnode', pool |-> pool]])
  /\ pool' = {}

(* libxml2 is at any of its nodes. *)
CallFunction ==
  /\ InLibxml
  /\ cnode' \in Running.sets
  /\ \E args \in SUBSET Running.sets : SaveContext("function", args)
  /\ UNCHANGED <<live, held, node, varData>>

CallVariable ==
  /\ InLibxml
  /\ cnode' \in Running.sets
  /\ SaveContext("variable", {})
  /\ UNCHANGED <<live, held, node, varData>>

(* A faulty form: what libxml2 works with stays as the callback left it. *)
RestoreContext_data(pooled, value) ==
  /\ pool' = Running.saved.pool \cup pooled
  /\ UNCHANGED cnode
  /\ SetRunning([Running EXCEPT !.callback = NULL, !.args = {}, !.saved = NotSaved,
                                !.sets = @ \cup value])

(* LibXML_restore_context, then LibXML_perldata_to_LibXMLdata, which makes *)
(* a node set of what Perl has returned *)
RestoreContext(pooled, value) ==
  /\ pool' = Running.saved.pool \cup pooled
  /\ cnode' = Running.saved.cnode
  /\ SetRunning([Running EXCEPT !.callback = NULL, !.args = {}, !.saved = NotSaved,
                                !.sets = @ \cup value])

(* A faulty form: nothing keeps the nodes that the function returns.       *)
FunctionReturns_unpooled(value, lost) ==
  /\ calls # <<>> /\ Running.callback = "function"
  /\ value \subseteq Named
  /\ held' = held \ lost
  /\ RestoreContext({}, value)
  /\ UNCHANGED <<node, varData>>
  /\ Collect({})

(* The variables of the function go when it returns, but the pool has the  *)
(* nodes of its value.                                                     *)
FunctionReturns(value, lost) ==
  /\ calls # <<>> /\ Running.callback = "function"
  /\ value \subseteq Named
  /\ held' = held \ lost
  /\ RestoreContext(value, value)
  /\ UNCHANGED <<node, varData>>
  /\ Collect({})

(* There is no parser context to find the pool with: nothing keeps them.   *)
VariableReturns(value, lost) ==
  /\ calls # <<>> /\ Running.callback = "variable"
  /\ value \subseteq Named
  /\ value \subseteq Running.sets \cup varData \/ "VariableNodes" \in Uses
  /\ held' = held \ lost
  /\ RestoreContext({}, value)
  /\ UNCHANGED <<node, varData>>
  /\ Collect({})

-----------------------------------------------------------------------------
(* _guarded_find_call, which find, findnodes, findvalue and exists use *)

(* Without a context node it croaks, which leaves what LookupNs leaves. *)
Find(given) ==
  /\ InPerl
  /\ Len(calls) < MaxNesting
  /\ given \in Named \cup {NULL}
  /\ node' = IF given = NULL THEN node ELSE given
  /\ node' # NULL
  /\ cnode' = node'
  /\ calls' = Append(calls, Frame(given, IF given = NULL THEN NULL ELSE node, node'))
  /\ UNCHANGED <<live, held, pool, varData>>

(* A faulty form: an exception passes by. *)
Leave_thrown ==
  /\ calls' = Front(calls)
  /\ UNCHANGED <<node, pool>>

(* What follows the eval *)
Leave ==
  /\ calls' = Front(calls)
  /\ pool' = {}
  /\ node' = IF Running.given = NULL THEN node ELSE Running.prev

(* What _findnodes or _find have found are objects before the pool goes;   *)
(* nothing after an error.                                                 *)
Return(found) ==
  /\ InLibxml
  /\ found \subseteq Running.sets
  /\ held' = held \cup found
  /\ Leave
  /\ UNCHANGED <<varData, cnode>>
  /\ Collect({})

(* A callback dies: the context is restored, and the exception jumps over  *)
(* libxml2 into the eval. *)
Die ==
  /\ InPerl /\ calls # <<>>
  /\ cnode' = Running.saved.cnode
  /\ Leave
  /\ UNCHANGED <<held, varData>>
  /\ Collect({})

Next ==
  \/ \E t \in Trees : Create(t) \/ Keep(t) \/ Drop(t)
  \/ \E t \in Trees \cup {NULL} : SetContextNode(t) \/ Find(t)
  \/ LookupNs
  \/ \E data \in SUBSET Trees : RegisterVarLookup(data)
  \/ CallFunction
  \/ CallVariable
  \/ \E value, lost \in SUBSET Trees : FunctionReturns(value, lost) \/ VariableReturns(value, lost)
  \/ \E found \in SUBSET Trees : Return(found)
  \/ Die

Spec == Init /\ [][Next]_vars

-----------------------------------------------------------------------------
(* Properties *)

(* Types *)
TypeOK ==
  /\ {live, held, pool, varData} \subseteq SUBSET Trees
  /\ {node, cnode} \subseteq Trees \cup {NULL}
  /\ calls \in Seq(Frames)

(* No tree is freed while an evaluation has nodes of it, the innermost or  *)
(* one that waits for a callback, whatever the functions return, lose,     *)
(* evaluate themselves or die of.                                          *)
NodesAlive ==
  \A k \in DOMAIN calls : calls[k].sets \subseteq live

(* Evaluations do not disturb one another ("XML::LibXML::XPathContext      *)
(* objects are reentrant", XPathContext.pod): each will find the context   *)
(* node with which it began when those in its callbacks are over, libxml2  *)
(* goes on among its own nodes, and Perl code finds no pool to free.       *)
ContextsKept ==
  /\ calls # <<>> => node = Running.context
  /\ \A k \in DOMAIN calls :
       k < Len(calls) => calls[k].context = IF calls[k + 1].given = NULL
                                            THEN calls[k + 1].context ELSE calls[k + 1].prev
  /\ InLibxml => cnode \in Running.sets
  /\ InPerl => pool = {}
=============================================================================
