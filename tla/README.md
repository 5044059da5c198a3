# Verification of XML::LibXML

XML::LibXML is the Perl binding of libxml2. This directory holds TLA+ models of
its own core logic, the TLC configurations that check them and proofs for TLAPS.
libxml2 and the Perl interpreter are external: they are modelled by what the
binding uses of them.

Run a check with `tlc -workers 2 -config HeldNodes.cfg MCProxyNode.tla`, the
proofs with `tlapm DomListProofs.tla` and likewise of `ProxyNodeProofs`, `RegistryProofs`,
`ParserProofs`, `NamespacesProofs`, `XPathContextProofs`, `SaxProofs` and
`InductionLemmas`, which the others use.

## The system

| Component | State | Operations | What makes it hard | What makes it correct |
| --- | --- | --- | --- | --- |
| Proxy nodes and owners (`perl-libxml-mm.c`, `.h`) | per node a proxy: node, owner, count; Perl objects that point to it | `PmmNodeToSv`, `PmmNewFragment`, `PmmREFCNT_dec`, `PmmFreeNode`, `PmmFixOwner`, `PmmFixOwnerList`, `PmmFixOwnerNode` | counts are kept by hand over a hundred handlers; releasing one proxy frees others, and trees with them; sequences of calls | a node that Perl holds stays in memory, what nothing refers to is freed, counts are exact |
| Node handlers (`LibXML.xs`) | none of their own | create, visit, place, remove, copy and release nodes | each combines an operation on the tree with one on the owners, in an order that matters | as above, after every handler |
| DOM tree operations (`dom.c`) | five pointers per node: parent, children, last, next, prev | `domAddNodeToList`, `domUnlinkNode`, `domAppendChild`, `domInsertBefore`, `domReplaceChild`, `domRemoveChild`; names and values; `domNodeNormalize` | fragments, ends of lists, a node moved within its list, arguments that are related | the pointers agree, there are no cycles, only the nodes named move |
| Namespace reconciliation (`dom.c`, `LibXML.xs`) | nsDef lists, ns pointers of elements and attributes | `domReconcileNs`, `domRemoveNsRefs`, `domAddNsDef`; `createElementNS`, `_setNamespace`, `setNamespaceDeclURI`, `setNamespaceDeclPrefix`, `_setAttributeNS` | a pointer may name a declaration that a moved subtree leaves behind, or one that becomes redundant and is freed | an ns pointer names a declaration in scope; none leaks; a move changes no name |
| PSVI status (`dom.c`, `.h`) | one status per document, psvi pointers of nodes | `domClearPSVI`, `PmmInvalidatePSVI`, `PmmClearPSVI` | a move makes a validated document tainted | no stale psvi pointer after a change |
| Registry and threads (`perl-libxml-mm.c`, `LibXML.pm`) | a hash from addresses to proxies, a mutex | `PmmRegisterProxyNode`, `PmmUnregisterProxyNode`, `PmmCloneProxyNodes`, `CLONE`, `CLONE_SKIP`, `DESTROY` | threads share trees; some steps take the mutex and some do not | counts and registry entries are those of all threads |
| Parsers (`LibXML.xs`, `LibXML.pm`) | libxml2's error handlers and its external entity loader, two saved loaders, `_State_` of a parser | `INIT_ERROR_HANDLER`, `LibXML_init_parser`, `LibXML_cleanup_parser`, `externalEntityLoader`, `_parse_*` | one set of globals for all parses; callbacks that start another parse, or die | the program's loader stays in force; an error is thrown by the function that meets it, where no other has set the handlers meanwhile or the function checks for itself |
| Push parser (`LibXML.xs`, `LibXML.pm`) | `CONTEXT`, a parser context that outlives the calls | `init_push`, `push`, `finish_push` | use after the end or after an error, callbacks inside a push | an error of an earlier chunk is not forgotten |
| Input callbacks (`LibXML.pm`, `LibXML.xs`) | `$_CUR_CB`, `@_CB_STACK`, `@_GLOBAL_CALLBACKS` and what outer parses saved of them | `init_callbacks`, `cleanup_callbacks`, `_callback_match`, `_open`, `_read`, `_close`, `LibXML_input_*` | nested parses, callbacks that die anywhere | every parse has its own callbacks, an input is read by the group that opened it |
| SAX (`perl-libxml-sax.c`, `SAX.pm`) | a stack of namespaces, the buffer of joined characters | `PSaxStartElement`, `PSaxEndElement`, `PSaxCharacters`, ... | one C callback calls the handler several times, and each call may die | events nest, names are resolved as the document says (attributes: where the declaration stands before them or outside), text arrives once and in order |
| XPath (`xpath.c`, `XPathContext`) | the context node, variables, functions, a pool of nodes | `findnodes`, `find`, `setContextNode`, `registerVarLookupFunc`, `LibXML_generic_extension_function`, `LibXML_save_context` | evaluation calls Perl, which evaluates with the same context, drops objects or dies; libxml2 holds nodes without counting them | no tree is freed while an evaluation has nodes of it; each evaluation has its context back |
| Reader | a libxml2 reader and the document it keeps | `read`, `preserveNode`, `copyCurrentNode` | who frees the document | one owner of the document |
| DTD subsets | intSubset and extSubset of a document | `setInternalSubset`, `removeInternalSubset`, ... | a DTD is a child, a subset and a held node at once | a DTD is freed once |
| Schemas, RelaxNG, patterns | one libxml2 object each | create, validate, destroy | nothing of the binding's own | one owner |
| Errors, strings, Perl collections, Devel | see `PROJECT.json` | | | |

`LibXML.xs` calls `dom.c` for the links and `perl-libxml-mm.c` for the owners;
`perl-libxml-mm.c` reads the links (a node without a parent is the root of a
tree and is freed with its proxy). Parsers, XPath, the Reader and SAX all return
nodes through `PmmNodeToSv`, so the rules of proxies carry everything else.
That is why they are modelled first. The second place where components meet is a
parse: `LibXML.pm` installs the input callbacks and marks the parser busy, calls a
function of `LibXML.xs`, which sets the globals of libxml2, and libxml2 calls Perl
back: callbacks, entity loaders and SAX handlers, which may use a parser again or die.
An XPath evaluation is the third: functions in Perl run inside libxml2 and may use the
same context.

## Modules

- `ProxyNode` models documents, fragments, elements (and every other node that
  may have a parent) and attributes, with their proxies. One variable, `heap`,
  holds the C structures: what is in memory, parents, document pointers, and per
  proxy its owner, its count and the number of Perl objects that point to it.
  The operators have the names of the C functions; each takes a heap and returns
  one. Each handler of `LibXML.xs` is one action: the interpreter runs a handler
  to its end before it runs another.
- `MCProxyNode` instances it for TLC.
- `ProxyInvariants` defines what `ProxyNodeProofs` needs of a heap between calls and within one:
  the inductive invariants, and what the helpers expect and leave. `ProxyNodeProofs` proves the
  counts of `ProxyNode` exact, and that they keep in memory what is held.
- `DomList` models the pointers parent, children, last, next and prev and the
  operations of `dom.c` that change them, again one action per handler.
  A list is found by walking along next from the first child (`Walk`), as
  the code does, and `removeChildNodes` is a fold over the list it finds.
- `NodeLists` is what the DOM promises of them: each node has a sequence of
  children, and an operation takes the nodes it names out of their lists and puts
  them into one place. `DomList` implements it.
- `MCDomList` instances `DomList` for TLC, and `DomListProofs` has its proofs.
- `Registry` models threads under `:threads_shared`: the Perl objects and the
  registry of each thread, the shared proxies and counts, and the actions that
  touch them: a handler that returns a node, `DESTROY`, the copying of a thread
  by the interpreter, `CLONE` as a later step, and the end of a thread.
  Other threads run between the copying and `CLONE`; the two threads concerned do not.
- `MCRegistry` instances it for TLC, and `RegistryProofs` has its proofs.
- `Namespaces` models declarations as the structures they are in memory (`decl`), the
  lists `nsDef` (`def`) and the pointers of an element's name and of one attribute
  (`ns`, `attr`). `ReconcileNs` visits a subtree with parents first, as the recursion of the
  code does (what it does to one child does not read another), and keeps the
  chain of unused declarations, which it frees at the end. Each handler is one action.
  `MCNamespaces` instances it, and `NamespacesProofs` has its proofs.
- `InputCallbacks` models the package variables of `XML::LibXML::InputCallback` and the
  parse functions of `LibXML.pm` with the `eval` around them. `calls` is the stack of
  parse functions under way; a callback begins in one action and returns, or dies, in
  another, and other parses may run between the two. `CallbackScopes` is what this is for:
  each parse has a scope of its own. `MCInputCallbacks` instances it.
- `ParserGlobals` models what the functions of `LibXML.xs` do to libxml2 in the same
  situation: the target of errors, the loader and the places where it is saved, and the
  push contexts. A call knows its function, as they differ in what they make of an error:
  the DOM parse functions rely on `saved_error` alone; `PmmSaxError` writes to the `saved_error`
  of a SAX parse by itself; `_parse_xml_chunk`, `_processXIncludes`, `_push` and `_end_push` look at their
  result and croak; `_end_sax_push` has neither. XPath (`find`) sets the error handlers too and calls
  Perl, so it disturbs a call around it like a parse. A function that dies restores nothing, and leaves
  `wellFormed` of a push context as it was. `MCParserGlobals` instances it.
  `ParserProofs` has the proofs of both. `InputCallbacks` and `ParserGlobals` are two
  views of the same nesting of calls; neither reads a variable of the other, which is
  why they are not composed. `Parses` has the constants of both. What has the same name in both, as `push` of
  `LibXML.pm` and `_push` of `LibXML.xs`, begins with `Xs` in `ParserGlobals`.
- `XPathContext` models one context and the evaluations under way with it (`calls`), each
  waiting in a callback but the innermost. What Perl frees is a tree as a whole, so a node is
  known by its tree: `live` is what is in memory, and each action ends with the trees
  that nothing refers to any more being freed (`Collect`). A frame has the
  lexicals of `_guarded_find_call`, the trees that libxml2 has nodes of, the
  arguments on Perl's stack and what `LibXML_save_context` has saved. `MCXPathContext` instances it, and
  `XPathContextProofs` has its proofs.
- `Sax` models one parse that calls a handler. A callback of libxml2 is a list of
  instructions (`todo`), as each call of the handler may be the last; `log` is what the
  handler has seen. `MCSax` has the start tags, and `SaxProofs` the proofs.
- `InductionLemmas` has what the proofs need of data built step by step: induction over
  the natural numbers and over sequences stated for sets, the existence of
  iterations, folds over sequences, and what is met when a pointer is followed
  from node to node (`Chain`).

`PmmREFCNT_dec` recurses over owners. The model says what the recursion arrives
at: the least set of proxies that is closed under losing the last reference
(`Expired`). The order of the recursion shows in nothing else. What it frees of
memory is each freed root with the subtree below it at that moment.

### What the models leave out

In `ProxyNode`: the order of siblings (it is the subject of `DomList`), names,
namespaces and text; DTD nodes; `addSibling`, `normalize` and the merging of text;
the text below an attribute; copying, importing and adopting an attribute; what
is read through the document pointer of a node whose document was freed;
`addChild` calls that would make a cycle, for which it does not look; a fragment inside a
fragment; `setAttributeNode` of an attribute that another element still has, which
links it into both; `replaceChild` of a node that is no child of the target. A
document has at most one element. A handle that is returned is kept or dropped
at once.

In `DomList`: one document, no attributes and no memory. A node that leaves its
list is put into a fragment that is empty then and that the call does not name;
it stands for the new fragment the code allocates. The document tests of
`domIsParent` are void in it.

In `Registry`: trees that change (the documentation asks the program for a lock
then), so every node is owned by the document; objects marked with
`threads::shared::share`, which `DESTROY` skips; objects that `join` returns; and the
order in which the interpreter frees the registry and the last objects of a
thread: the registry goes last. A handler changes counts under the registry
mutex and is one action. What it reads before it takes the mutex are links,
which do not change, and the owner of an object its own thread holds.

In `Namespaces`: more than one attribute of an element that has a namespace; the prefix
`xml`; `setNamespace` called on an attribute; the import of an
attribute that has no parent; `xmlReconciliateNs`, which `replaceNode` calls of libxml2.
Which Perl objects hold a tree is left to `ProxyNode`: here a tree is dropped
as a whole.

In `InputCallbacks`: `register_callbacks` and `unregister_callbacks`, which do not change
the groups of a parse that runs; `parse_chunk` and `finish_push`, which install no callbacks;
`processXIncludes` called in a callback; a push inside a callback of a push to the
same parser. The XInclude step of `parse_*` is part of the parse. What a callback reads
is no part of the model.

In `ParserGlobals`: the option `recover` and the argument `restore` of `finish_push`, which turn errors into
warnings; errors are those of well-formedness; the HTML
parser, where the default of `no_network` is the other way round; the options that
libxml2 keeps per context; a push of an empty chunk, which returns before it does anything. What `find` makes of its own errors is not in it, only
what it does to the calls around it. Of the functions that set the error handlers and no loader
(`toStringC14N`, `validate`, ...) XPath stands for all: what they leave in the globals is the same, and the others call no Perl.
`PmmSaxError` in a push without a structured handler writes to the `saved_error` of `_start_push`, which
is freed by then: whether that error is saved is open. Schemas save and restore the loader by themselves and
are not in it. A parse under `no_network` that dies, or has another parse inside,
may leave the loader without network installed after it is over: that is in the model,
and no property denies it. An error that is reported after the parse
it goes to is over is written to a variable that is no longer there; the model only says
that it reaches no call.

In `Sax`: the locator; SAX in push mode; warnings and recoverable errors (of a fatal error the handler
hears nothing, when the structured handler of `INIT_ERROR_HANDLER` takes it, or once, or twice: `ErrorReports`); `Builder`,
`Generator` and `Parser.pm`; the declaration `xmlns:xml`. Two things the code does are in it that a
reader may not expect: an attribute that stands before the declaration of its prefix
in the same tag gets the outer namespace, and text that waits in the buffer when a
fatal error comes is lost. A method that dies leaves the vector of the context behind;
a dying `end_dtd` goes unnoticed.

In `XPathContext`: trees that a function takes apart, so that a node libxml2 has goes with a
part of its tree; nodes without a document, which `domXPathCompFindCtxt` hangs into a temporary
one (an object made of such a node in a function keeps the temporary document, and a function that dies leaves
the node in it); documents that `document()` loads; elements of a returned array that the program
assigns to later, which are the same scalars as those in the pool; changes of the data of
the variables while an evaluation runs; registering functions, namespaces and variables in a callback,
which `XPathContext.pod` advises against; `setContextNode(undef)` in a callback, after which the
restored context points to a freed scalar. Another `setContextNode` there frees a scalar too, but Perl
makes the next one in the same place, so the restored pointer is that of the new node. `find` of
`XML::LibXML::Node` calls no Perl and is not in it.

### Calls the runs leave out unless they are about them

The code does not keep its own rules after certain legal calls. Each has a
name in the constant `Uses`, so that the other properties can be checked on
every other sequence of calls, and adding the name to `Uses` in a `.cfg` shows
what follows. A handler states the calls that it leaves out by the heap before the call (and
by the links as the call moves them), never by what `PmmFixOwner` has made of the owners. `OwnersFollow` says which
placements keep owners right: each owner below what moves comes along or is above the new place,
or the walk of `PmmFixOwner` reaches the proxy. `KeptOutside` says that the owner `replaceNode`
has read stays without what leaves. Of `ProxyNode`:

| Name | Call | What follows |
| --- | --- | --- |
| `FragmentSelf` | `firstChild`, `insertBefore`, ... on a fragment that belongs to a document | the child is owned by the document instead of the fragment |
| `OnlyChild` | `insertBefore(x, undef)` of an only child | the node is in no tree |
| `HalfFixedFragment` | `insertBefore` of a fragment with held nodes that would need another owner and are not at or below the first | only the first is fixed |
| `EarlyStop` | `appendChild`, `addChild`, `insertBefore`, `replaceChild`, `replaceNode` where the walk stops above a held node that needs the new owner: at a node that has it already, or at once, as with the fragment that `replaceChild` inserts | the node below keeps its owner |
| `ReusedFragment` | a fragment is used again after it was inserted | owners can form a cycle and leak |
| `SelfReference` | `insertBefore(x, x)` | x is owned by the target and is not below it |
| `UnheldRoot` | `replaceNode` on a node that alone keeps its fragment | the owner is used after it was freed |
| `HiddenAttribute` | `removeChildNodes` and moves over a held attribute of an unheld element | the attribute keeps its owner |
| `DuplicateAttribute` | `addChild` of an attribute over a held one of the same name | the held attribute is freed |

Of `DomList`: `OnlyChild` as above, and `StrangeChild`, `replaceChild(x, y)` where y is
not a child of the target, which leaves y in two lists. Of `Registry`: `SecondObject`, a
thread that is spawned while its parent has two objects of one node. Of `XPathContext`:
`SetInside`, `setContextNode` in a function or variable, and `VariableNodes`, a variable whose nodes
nothing else holds, as `LibXML_perldata_to_LibXMLdata` is called there without the parser context that leads to the pool.

The properties that fail then, each with a few nodes:

- `NoDangling` with `FragmentSelf`, `UnheldRoot`, `EarlyStop` or `HalfFixedFragment`, and `RootOwned` with the last three;
  `NothingLeaks` with `ReusedFragment`.
- `InsertedLast` of `DomList` with `OnlyChild`: without a reference node "the newNode will
  be set as the new last child" (`Node.pod`); the node is in no list.
- `ReplacedUnbound` of `DomList` with `StrangeChild`: the old node "will be
  unbound from the Node" (`Node.pod`); `domReplaceChild` does not test whose child it is.
- `ObjectsInMemory` of `Registry` with `SecondObject`: `PmmRegistryHashCopier` counts a
  proxy once, however many objects of it were copied.
- `NodesAlive` and `ContextsKept` of `XPathContext` with `SetInside`: when only the context has an object of
  the tree that is evaluated, replacing the context node frees the tree. "XML::LibXML::XPathContext objects
  are reentrant, meaning that you can call methods of an XML::LibXML::XPathContext even from XPath extension
  functions registered with the same object" (`XPathContext.pod`). `NodesAlive` with `VariableNodes`.
- `DocumentAlive` of `ProxyNode`, with no name at all: `removeAttributeNode` gives the attribute
  no owner, so that its document pointer may outlive the document.

Two other constants do the same for single actions. `Careful` of `Namespaces`: programs use
`unbindNode` and `removeChildNodes` only on subtrees whose declarations they contain.
Without it `NamesInScope` fails, as neither reconciles. `RefuseInside` of
`InputCallbacks`: an open callback refuses an URI while an input is open (see `RefusedInput`).

## What the runs check

| Run | Instance | Shows |
| --- | --- | --- |
| `HeldNodes` | 3 elements and 3 fragments, or a document, 2 fragments, an element and 2 attributes | `NoDangling`, `NothingLeaks`, `RootOwned`: a node that is held is in memory as its owners lead to its root, and what nothing refers to is freed, attributes by rules of their own |
| `TwoDocuments` | 2 documents, 2 fragments, 2 elements | `TypeOK`, `CountsExact`, `HandlesLive`, `OwnersLive`, `LinksAlive`: counts are exact, and trees in memory as a whole, over two documents |
| `ChildLists` | 4 elements, 4 fragments | `TypeOK`, `WellLinked`, `NoCycles`, `ImplementsDOM`: the pointers agree, no node is above itself, and every operation is one of `NodeLists` |
| `SharedNodes` | 3 threads, a document with 2 nodes, 2 objects of each per thread | `ObjectsInMemory`, `CountsExact`, `RegistryExact`, `NothingLeaks`: threads share proxies whose counts are the sum of what the threads have |
| `MovedNames` | 3 elements, 3 declarations, 2 prefixes, 2 namespaces | `TypeOK`, `NamesInScope`, `DeclaredOnce`, `MovesKeepNamespaces`, `MovesKeepNames`: no name points to a freed declaration, none leaks, a move changes no namespace and no prefix of a name, and the text of the tree says the same after it |
| `SaxEvents` | 4 pieces of content, 3 start tags, documents and chunks, joined characters or not | `TypeOK`, `StackMatchesTags`, `NamesResolved`, `StreamWellFormed`, `TextInOrder`, `TextArrives`: what the handler sees is a well-formed stream with the names of the document (but for an attribute before the declaration of its own prefix in the same tag), wherever it dies, and all text arrives |
| `NestedParses` | 2 parsers, 3 groups, 2 parses deep | `TypeOK`, `DepthExact`, `ScopesExact`, `BusyExact`, `NothingLeft`, `ParsesEnd`, `ImplementsScopes`: each parse has its own callbacks, also after parses in its callbacks, and no parser stays busy |
| `LoadersAndErrors` | a parser of trees with `no_network` and a SAX parser, 3 functions deep and in all | `XsTypeOK`, `GlobalLoaderStays`, `NoErrorFurtherOut`, `UndisturbedErrorsThrown`: the program's loader stays in force, and errors are thrown where they are met: under the conditions that the property states for each kind of function |
| `ReentrantContext` | 2 trees, 2 evaluations within one another | `NodesAlive`, `ContextsKept`: no tree is freed while libxml2 has nodes of it, and every evaluation has its context, its place and its pool back |

`RootOwned` is the reason for `NoDangling`: a held node keeps its tree because its
owners include the root of it, and the root frees the tree only when its count
is zero. `NothingLeaks` is the converse. They are the two sides of one argument
and pull in opposite directions: a reference too many breaks one, a reference too
few the other. `NamesInScope` and `DeclaredOnce` are such a pair for declarations, and
`ScopesExact` and `NothingLeft` for callbacks.

Three runs each show that a stated rule does not hold of the code:

| Run | Violated | Where |
| --- | --- | --- |
| `TwiceDeclared` | `MovesDeclareOnce` | `_domReconcileNsAttr` looks above the element and misses the declaration that was copied to the element a moment before |
| `RefusedInput` | `ReadByOpener` | `LibXML_input_open` takes the 0 of an open callback for an open input, which is then read through the group of the input around it |
| `LostErrors` | `ErrorsThrown` | `CLEANUP_ERROR_HANDLER` of a function in a callback resets the handler of the DOM parse (`_parse_string`, `_parse_fh`, `_parse_file`) around it |

What each of them quotes of the repository is in `PROJECT.json`. `ErrorsThrown` is about the DOM parse functions only,
for which `UndisturbedErrorsThrown` has the condition that no other function has set the handlers in a callback:
where one has, an error may be lost, and need not be (one that comes before the callback is saved). The other functions lose
fewer: `PmmSaxError` keeps the errors of a SAX parse (`t/14sax.t` tests it) unless a function in its callbacks dies and leaves the handler set,
and those that check their result lose none. Of `_end_sax_push` the runs say only what holds of every function. `ChunkTextArrives` of `Sax`, `TextArrives` for chunks too,
does not hold either: `parse_chunk` calls no `end_document`, and joined
characters at its end stay in the buffer.

### Bounds

`MaxHandles = 1`: the program keeps one object per node. More objects of one
node only add to its count; the proofs hold for any number. The action that
returns a second object of a held node is there: it is created and dropped at once.
Three elements make a chain in which the middle node is
held or not, a node with two children, and a move of a subtree below its own
sibling; three fragments are enough for each of them to be apart. `HeldNodes` has the trees of elements
and those with attributes in one run; its `CONSTRAINT SmallTrees` leaves out the trees that have
three elements and attributes at once. Two documents with
two elements cover import, adoption and moves of a subtree. Two attributes of
one element cover replacing one by the other. In `ChildLists`, four elements are
the least in which a fragment with two children goes between two others;
with fewer the chain of a fragment has no inner link to lose. In `SharedNodes` the third
thread is the one that acts while the second is copied from the first, and may be
spawned by either; two objects of a node tell the count of a registry entry from its
presence.
In `MovedNames`, three elements are the least in which a declaration, a redundant
one below it and a name that uses the redundant one are apart; two edits, in any order with
all moves, make every relation between two declarations of one prefix. Every operation
that adds names needs free structures (`Room`), and `MaxDecls = 3` of them.
In `NestedParses`, `MaxInputs = 2` lets an entity open while the document is read,
`MaxNesting = 2` a parse in a callback, and `MaxParses = 3` a second one after it; deeper nesting is
what the proofs are for. In `LoadersAndErrors` a third level shows a call that is neither
innermost nor outermost; a parser with `ext_ent_handler` sets and saves the loader as one with `no_network` does,
and is left to the proofs. In `SaxEvents`, end tags are not counted in `MaxCalls = 4`, so
that a document has room for the document event, two nested elements with text
in one of them; the start tags have a prefix bound outside, inside, later in the same tag, and not at all.

In `ReentrantContext`, one evaluation within another empties the pool, moves the context node and dies
below the outer one, and two trees are the one that is freed and one that is not; deeper
nesting and more trees are what the proofs are for.

Nodes of one kind are interchangeable, and `SYMMETRY` is used where every
property is an invariant or the property of steps. The heap, the lists, the threads, the
declarations and the context have no terminal state (every handle can be dropped, every node made again), so
deadlock is checked there. The bounded number of parses ends
`NestedParses` and the one parse of `SaxEvents` is over at some point: these say
`CHECK_DEADLOCK FALSE`. `LoadersAndErrors` checks it, as the program may always set or
unset its loader.

### Fairness

Most components are called and return; nothing in them waits. That a dropped node is
freed is not a liveness property here: it is freed in the same call, and
`NothingLeaks` is an invariant. Two modules have liveness properties.

`InputCallbacks`, `FairSpec`: `WF_vars(CallbackEnds)`, a callback returns or dies, whatever
it does in between; `SF_vars(Close)` and `SF_vars(Return)`, libxml2 does not read an input
for ever and does not go on opening others: an input is finite, and the parser closes each before it returns.
These two are strong because `Close` is disabled while a callback runs. `ParsesEnd`
then says that a parser does not stay busy; it would if an exception missed the `eval` that
resets `_State_`.

`Sax`: `WF_vars(Next)`. A parse is a single call of Perl in one thread and its input is
finite; the bound `MaxCalls` says so. What may fail in `TextArrives` is not progress but
what the parse has delivered when it is over.

`ParserGlobals` and the others have none.

## What is proved

`ProxyNodeProofs` proves of `Spec` for all finite sets of nodes, any `MaxHandles`
and any `Uses` without `UnheldRoot`:

- `TypeCorrect`: `[]TypeOK`
- `CountsAlwaysExact`: `[]CountsExact`
- `HandlesAlwaysLive`: `[]HandlesLive`
- `OwnersAlwaysLive`: `[]OwnersLive`

All four follow from `AlwaysSound`: `[]Sound(heap)`. `Sound` has two parts.
`Counted` is the type with the three statements on counts, handles and owners;
they support each other, as a count shows that no reference is left only while
every reference is counted. `Planted` says that documents have no parent, nothing hangs below an
attribute, and a document in memory has its proxy: `PmmNewFragment` counts a
reference on the proxy of the document without looking whether there is one.

The heart is `DecCounted`: given a heap in which the counts are exact but for the
references about to be dropped, `PmmREFCNT_dec` leaves exact counts. The
set of freed proxies is a least closed set; `ExpiredClosed` and
`ExpiredExpires` show that it is a fixed point, so that a freed proxy has no
reference but from freed ones (`ExpiredUnreferenced`), and no kept proxy loses
its owner. `ReownSettled` is the same for `PmmFixOwner`, which raises counts and
drops others. Every handler has a lemma, and most are three
steps long on top of these.

The assumption that `UnheldRoot` is not in `Uses` is needed: with it `replaceNode`
makes a freed fragment an owner, and `OwnersLive` is false (adding
it to `Uses` in `HeldNodes.cfg` shows the node that dangles). All other names may be in `Uses`: after
those calls owners are the wrong ones, and counts are still exact. The
constants have the assumptions `NodesAssumption` and `BoundsAssumption` of `ProxyNode`.

With `Uses = {}` the same module proves what the counts are for:

- `NothingDangles`: `[]NoDangling`, a node that Perl holds is in memory
- `LinksAlwaysAlive`: `[]LinksAlive`
- `RootsAlwaysOwned`: `[]RootOwned`
- `NothingEverLeaks`: `[]NothingLeaks`

`RootOwned` is not inductive: it says that the owners of a held node lead to its root, and not that they still do
after a part of the way has moved. `AlwaysSafe` is the inductive invariant
`Safe`: `Sound`, and beside it
`Treed` (following parents ends, and what is linked is in memory and of one document),
`Homed` (a root in memory has a proxy and is no element),
`Cased` (following owners ends, a proxy is of a node in memory, and a fragment with children is owned by its document),
`Wanted` (each proxy has a reference) and
`Owned` (the owner of a proxy, or what the owner passes on to if it is a fragment, is above the node's parent or is it).
A freed root then has no proxy below it that stays: the one nearest to the root would have an owner
above it, and so a reference to the root (`DecFrees`, and `DecSafe` on top of it).

A handler changes the tree first and fixes owners after. In between the moved nodes are exempt, which
`Pending` says, with the set of nodes whose owners are still to be fixed. `RelinkSafe` brings a heap into that state,
`PlaceSafe` out of it, for any move and any owner `PmmFixOwner` is given, and each handler is a sequence of such
steps with `PmmNodeToSv` and releases between them. `removeChildNodes` is the
one that fixes several subtrees at once and gives up a fragment it may not need (`FragmentGivenUp`).
What is assumed of `appendChild`, `addChild`, `insertBefore` and `Replace` is a condition on the heap before the call,
`OwnersFollow`, and that it is enough is proved: for each node below what moves, its owner is one that may stay, or the
node is among those that `PmmFixOwner` gives the new one (`FollowFixed`). For `Replace`, `KeptOutside` names proxies that keep the new owner; they are
shown to keep it through the new fragment, the new proxy and the release of the old owners (`ReparentKeeps`, `ReplaceKeeps`).
The nine names of `RiskyUses` are left out since each call breaks one of the four: TLC finds the
violation for each name alone in `Uses` with one document, two or three fragments, two elements and
at most two attributes. Parents and owners are followed by the recursive function `Upwards`; the facts about it are
proved by induction on the number of steps.

`ParserProofs` proves of `Spec` of `InputCallbacks`, for any parsers, groups and bounds, and any
`RefuseInside`, from `GroupsAssumption` alone (each parser has a list of groups):
`TypesCorrect`, `DepthAlwaysExact`, `BusyAlwaysExact`, `NothingEverLeft` and
`ScopesImplemented`, the refinement of `CallbackScopes`. The inductive invariant `Sound`
has seven parts. Beside the types and the two properties that are inductive with them,
`Stacked` says that the entries of the parses in `@_CB_NESTED_STACK` lie above one
another, `Bottom` that the lowest entry is the empty one that the outermost parse found,
`Own` that every parse has the groups of its parser, and `Asked` that a callback belongs
to one of them. `Stacked` is the reason why the scope of an outer parse survives
(`ScopesAfter...`): what happens above touches only entries above. The refinement
has one step per kind of action: a parse begins (`Enter`), a callback begins or ends
(`Serve`, `Release` or a stutter), a parse ends or dies (`Leave`).

Of `XsSpec`, the specification of `ParserGlobals`, it proves for any parsers and options, from `NestingAssumption` and
`LoadersAssumption`: `GlobalTypesCorrect`, `GlobalLoaderAlwaysStays`, `NoErrorEverFurtherOut` and
`UndisturbedErrorsAlwaysThrown`. The loaders and the calls do not read one another, so
there are two inductive invariants. `SoundLoaders` adds that a global loader was saved
exactly while the program has one set. `SoundCalls` adds what a call knows of its errors:
an undisturbed call has the sink, and a running call in which none has died has it or nobody has (`Aimed`), so that an
error it met is saved by libxml2, or by `PmmSaxError` in a SAX parse (`Recorded`),
and two functions of the push interface never share a context (`Alone`), so
that a broken context stays broken until it is freed.

`XPathContextProofs` proves for any trees and any depth, from `TreesAssumption`, `UsesAssumption` and
`Uses = {}`: `TypesCorrect`, `NodesAlwaysAlive` and `ContextsAlwaysKept`. The question is who holds a
tree that libxml2 works on. `SetsKept` says that it is the tree of the evaluation's context node, or
in its pool (which is in the context or in the saved copy), or in the data of the variables. The context node of an outer
evaluation may be held by nothing but the `$prev_node` of one inside it: `Covered` says that it is
still the context node, or that some evaluation in between has it. That is inductive only with the chain of
`ContextsKept`, which links each evaluation to the next. `PlacesSaved` is what makes libxml2 go on among its own
nodes. Both calls in `RiskyUses` break it.

`RegistryProofs` proves for any threads, nodes and numbers of objects, from `ThreadsAssumption` and
`"SecondObject" \notin Uses`: `ObjectsAlwaysInMemory`, `CountsAlwaysExact`, `RegistryAlwaysExact` and
`NothingEverLeaks`. `CountsExact` speaks of a sum over all threads, and a thread that is copied but has not
run `CLONE` is not in the sum yet. `Sound` adds what bridges that gap: `Copying`, that a copy has what
its source still has, at most one object of each node and its table, and that the source waits for it; `Absent`, that
a thread that is not there has nothing; `LiveCounted`, that a proxy is in memory
exactly while its count is positive. `SumFunction` is a fold; how a sum changes
when one summand does is a lemma on top of `FS_` theorems. With `SecondObject` the
copier counts once what is there twice, and the assumption cannot be dropped.

Of `InputCallbacks`, `ParserProofs` also proves `ScopesAlwaysExact` and `AlwaysReadByOpener`, from
`~RefuseInside`. `Served` is their invariant: the groups in use by a parse are those that opened its open inputs,
the last one first, or its parser's own groups before any is open. An URI that is refused while another
input is open breaks it, and `RefusedInput` shows that `ReadByOpener` is then lost.

`SaxProofs` proves all five safety properties of `Sax` for documents of any size and depth,
any tags that satisfy `TagsAssumption` (no prefix is declared twice in a tag, a declaration has
a URI) and a handler that dies anywhere: `TypesOK`, `StackAlwaysMatches`, `StreamAlwaysWellFormed`,
`NamesAlwaysResolved` and `TextAlwaysInOrder`. Between two callbacks of libxml2 it is easy to
say what holds; within a callback it is not, as each instruction may be the last.
`Streams` says it for every phase: the instructions that are left, the namespace stack (with
the frame of an element half declared, or not yet taken away), and the state of a
reader of the events so far. `StreamWellFormed` is a fold of that reader over the log, so
that appending an event is one step of the reader (`ReaderSteps`). `NamesResolved` holds as
what the stack finds for a prefix is what the open tags mean by it (`SameMeaning`). An attribute
sees the declarations left of it only, so the property, and the theorem, say nothing of an attribute whose prefix is declared
further right in its own tag (`DeclaredLater`): the code reports that one with the outer namespace. `Ordered` divides the texts of the document into those delivered, those
in the buffer, and the one that an instruction still has to deliver.

`DomListProofs` proves for any nodes, from `KindsAssumption` and `"StrangeChild" \notin Uses`:
`PointersTyped`, `AlwaysWellLinked` and `NeverCyclic`. The last two speak of walks. The inductive
invariant `Good` speaks of neighbours: `Shaped` says of each node what its pointers say of the
nodes they point to, and `Grounded` that along next, and along parent, every set of nodes has one that points out
of it, which is the absence of cycles without a word on paths. `GoodLists` and
`GoodAncestors` derive the walks from it: a grounded walk meets no node twice, so it ends within as
many steps as there are nodes (`WalkEnds`, by the pigeonhole principle). Every operation of `dom.c` is a
cut (`CutGood`), which takes one node out, and a placement (`PlaceGood`), which puts a chain of nodes
into a gap of a list; what the code writes in its many cases is shown to be one of these.
A placement keeps parents grounded when the place is not under what is placed: that is what `domTestHierarchy`
establishes (`HierarchyAbove`). `removeChildNodes` folds over the list of children, and `AllGatheredGood` is the
induction over it. `StrangeChild` leaves a node in two lists; the other risky call, `OnlyChild`, leaves
good links, and these theorems hold with it.

`ListsImplemented` proves `ImplementsDOM`, the refinement of `NodeLists`, for `Uses = {}`, as both
risky calls do what the DOM does not say. `Good` says that lists are lists; here it matters
which list an operation leaves. A sequence is the list of a node exactly when the pointers spell it
(`ListSpelled`, `SpelledIsList`), so it is enough to follow sequences through changes of pointers:
a cut takes a node out of its list (`CutLists`) and a placement splices a run of nodes
into one place of one list (`PlacedHere`, `PlacedElsewhere`). `IsPut` states the second for every
operation, with the two neighbours of the place, and `NotUnder` keeps `NodeLists`' own hierarchy test
(`AboveWithin`). Then each handler is one step of `NodeLists` or leaves all lists
(`PutStep`, `AppendStep`, `InsertStep`, `ReplaceDOM`, `RemoveDOM`, `AddChildDOM`). `replaceChild` places next
to a node and takes that node away afterwards, the DOM puts one in the place of the other: `ReplacedIs`
shows that it is the same. `removeChildNodes` moves the children one by one, and `SomeGathered` is the invariant
of its loop: after k moves the fragment has the first k children, the node the others.
`AlwaysInsertedLast` and `AlwaysReplacedUnbound` say that the two risky calls are the only ones with which
`InsertedLast` and `ReplacedUnbound`, two statements of `Node.pod`, fail.

`NamespacesProofs` proves for any finite set of elements, any prefixes and URIs, from `NamesAssumption` and
`Careful`: `TypeCorrect`, `AlwaysNamesInScope`, `AlwaysDeclaredOnce`, `NamespacesAlwaysKept` and `NamesAlwaysReadable`. `Careful` cannot be dropped: without it
the invariant fails (see `Careful` above). The inductive invariant `Sound` has two parts. `Forest`
says that following parents ends and meets only elements in memory. `Good` says that each declaration
in memory is in one list, once (`Placed`), and that a name points to a declaration of its element or of one
above (`Scoped`). `NamesInScope` and `DeclaredOnce` each need the other: a declaration with two
owners would be freed while a name still uses it.

Neither holds inside `ReconcileNs`, which is a fold over the subtree that moved: `Visited` is the invariant of its loop. What is
in memory is in one list or in the chain of unused declarations, what has been visited has names in scope, and what has not
been visited is as it was. The chain may be freed at the end because no name is left that points into it (`FreedFacts`): a
declaration goes into it only while its own element is visited, and every other name that used it is on that
element or below, is visited later, and then gets a declaration that is in a list (`NodeStep`). `LoansCounted` and
`StepSpends` show that at most one declaration is allocated per name that leaves its element, so the bound `Room` in the guards never
stops a reconciliation half-way.

The two properties of moves are carried through the same loop. `SameNames` says that every pointer, wherever it
now goes, says the prefix and the URI that it said before, which gives `NamespacesAlwaysKept`, the statement
about pointers. `MovesKeepNames` is about a reader, who has only the declarations: the nearest element
that declares the prefix counts (`Reads`). `xmlSearchNs` is another reader, as above the element it starts
from it also trusts the pointers of the elements it passes. `SearchReads` is the lemma that both find the same name where
those elements are themselves readable. The loop visits parents first, so what is above a visited element is
readable by then, or is above the new place. There it must be assumed: the property without that
condition holds for three elements and fails for four, where an element above the new place uses a
name that a declaration between the two hides from the reader, but not from `xmlSearchNs`, and the moved name takes it
over. The other half is that an element declares no prefix for two names (`Ordered`): that
holds of a readable element, and each step of the reconciliation keeps it (`RefReads`). A careful `unbindNode` changes no declaration: the nearest one is within the
subtree (`UnbindReadable`). Elements in no namespace are not asked about: a default declaration above their new place
does change how they are read, as the code has no `xmlns=""` for them.

### Only model-checked

- `ParsesEnd` and `TextArrives` rest on fairness, which is out of the provers' reach. All other
  properties of the passing runs are proved.

The library's induction theorems take an operator as a parameter, which none of the provers
can instantiate. `InductionLemmas` states them for sets instead: a set of numbers with 0 and the successor
of each member has them all. That is enough for recursive functions and
for folds, so what they compute is proved and not only checked.

## Not modelled

- Of `xpath.c`, the temporary document of nodes without one; of `XPathContext`, functions that change trees.
- The Reader, the DTD subsets and the PSVI status: each moves the ownership of one
  structure; they belong with `ProxyNode`, which has no DTD nodes yet.
- Counts that handlers change without the registry mutex: `Registry` has trees that stand still.
- Schemas, RelaxNG, patterns and regular expressions: one object of libxml2 each, with one owner.
- The chain of `XML::LibXML::Error`, `Builder`, `Generator`, strings, Perl collections:
  data without control that a model could tell apart.
- `ppport.h` and `Av_CharPtrPtr.c` come from elsewhere. The first has three quarters of
  the lines of C in the repository.

## Plan

1. `ProxyNode`, `DomList` with `NodeLists`, `Registry`, with their proofs (done).
2. `Namespaces`, `InputCallbacks` with `CallbackScopes`, `ParserGlobals`, `Sax`, with their proofs (done).
3. `XPathContext` with its proofs (done); its composition with the trees of `ProxyNode`, so that a function
   may take a tree apart; then DTD nodes and `PmmClearPSVI` in `ProxyNode`.
4. In `Registry`, the counts that handlers change without the mutex, in steps of their own.
5. Proofs of every invariant and every property of steps that the runs check (done).
