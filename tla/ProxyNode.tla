----------------------------- MODULE ProxyNode -----------------------------
(***************************************************************************)
(* The memory management of XML::LibXML (perl-libxml-mm.c) and the node    *)
(* handlers of LibXML.xs that use it.                                      *)
(*                                                                         *)
(* Every libxml2 node that Perl holds has a proxy: a reference count and   *)
(* an owner, the node whose proxy it keeps alive.  A proxy dies when its   *)
(* count reaches zero; it then frees its node, when that node is the root  *)
(* of a tree, and releases its owner.  Each Perl object blessed by         *)
(* PmmNodeToSv is one "handle" of the proxy it points to.                  *)
(*                                                                         *)
(* A proxy is named by its node.  The order of siblings, the names, the    *)
(* namespaces and the contents of nodes are left out; sibling links are    *)
(* the subject of DomList.                                                 *)
(***************************************************************************)
EXTENDS Integers, FiniteSets

CONSTANTS
  Docs,         \* documents (XML_DOCUMENT_NODE)
  Frags,        \* document fragments (XML_DOCUMENT_FRAG_NODE)
  Elems,        \* elements and the other nodes that may have a parent
  Attrs,        \* attributes (XML_ATTRIBUTE_NODE)
  NULL,
  MaxHandles,   \* handles the program keeps of one node; more are dropped at once
  Uses          \* the uses of the interface listed in RiskyUses that are made

Nodes == Docs \cup Frags \cup Elems \cup Attrs

(* Legal calls after which an invariant below does not hold; a run that    *)
(* makes one of them shows it.  Each handler states the calls it leaves    *)
(* out when its use is not in Uses, by the heap before the call.           *)
RiskyUses == {
  "FragmentSelf",       \* firstChild, insertBefore, ... called on a fragment of a document
  "OnlyChild",          \* insertBefore(x, NULL) where x is the only child of the target
  "HalfFixedFragment",  \* insertBefore of a fragment, the owners of which do not follow
  "EarlyStop",          \* insertion of a node, below which PmmFixOwner stops too early
  "ReusedFragment",     \* another use of a fragment that was already inserted
  "SelfReference",      \* insertBefore(x, x) where x is not a child of the target
  "UnheldRoot",         \* replaceNode on a node that alone keeps its fragment alive
  "HiddenAttribute",    \* removeChildNodes over an attribute held below an unheld element
  "DuplicateAttribute"} \* addChild of an attribute over a held one of the same name

ASSUME NodesAssumption ==
  /\ IsFiniteSet(Nodes)
  /\ NULL \notin Nodes
  /\ Docs \cap (Frags \cup Elems \cup Attrs) = {}
  /\ Frags \cap (Elems \cup Attrs) = {}
  /\ Elems \cap Attrs = {}

ASSUME BoundsAssumption == MaxHandles \in Nat \ {0} /\ Uses \subseteq RiskyUses

(***************************************************************************)
(* heap.alloc    nodes in memory                                           *)
(* heap.parent   node->parent                                              *)
(* heap.doc      node->doc                                                 *)
(* heap.live     nodes with a proxy that is not freed (node->_private)     *)
(* heap.owner    proxy->owner                                              *)
(* heap.count    proxy->count                                              *)
(* heap.handles  Perl objects that point to the proxy                      *)
(***************************************************************************)
VARIABLE heap

vars == <<heap>>

Heaps == [alloc   : SUBSET Nodes,
          parent  : [Nodes -> Nodes \cup {NULL}],
          doc     : [Nodes -> Docs \cup {NULL}],
          live    : SUBSET Nodes,
          owner   : [Nodes -> Nodes \cup {NULL}],
          count   : [Nodes -> Int],
          handles : [Nodes -> Nat]]

-----------------------------------------------------------------------------
(* The tree of libxml2.                                                    *)

(* The nodes that the pointer F leads to from n; climb[<<m, k>>] are the k *)
(* nodes from m upwards.                                                   *)
Upwards(F, n) ==
  LET climb[at \in (Nodes \cup {NULL}) \X (0..Cardinality(Nodes))] ==
        IF at[1] = NULL \/ at[2] = 0 THEN {} ELSE {at[1]} \cup climb[<<F[at[1]], at[2] - 1>>]
  IN  climb[<<F[n], Cardinality(Nodes)>>]

Ancestors(h, n) == Upwards(h.parent, n)

Subtree(h, n) == {m \in h.alloc : m = n \/ n \in Ancestors(h, m)}

Below(h, n) == {m \in h.alloc : h.parent[m] = n}

Kids(h, n)  == Below(h, n) \ Attrs          \* node->children

Props(h, n) == Below(h, n) \cap Attrs       \* node->properties

(* Memory for a new node.  What a pointer to freed memory reads after that *)
(* memory was handed out again is not modelled.                            *)
Free(h, kind) == kind \ (h.alloc \cup h.live \cup {h.doc[m] : m \in h.alloc})

(* The handlers read the document of their nodes; what they do with a      *)
(* document that was freed is not modelled (see DocumentAlive).            *)
DocInMemory(h, n) == h.doc[n] \in h.alloc \cup {NULL}

(* xmlFreeNode, xmlFreeDoc and xmlFreeProp over the nodes of S *)
xmlFreed(h, S) ==
  [h EXCEPT !.alloc  = @ \ S,
            !.parent = [n \in Nodes |-> IF n \in S THEN NULL ELSE @[n]],
            !.doc    = [n \in Nodes |-> IF n \in S THEN NULL ELSE @[n]]]

(* xmlUnlinkNode, domUnlinkNode *)
Unlink(h, n) == [h EXCEPT !.parent[n] = NULL]

(* xmlSetTreeDoc *)
SetTreeDoc(h, n, d) ==
  [h EXCEPT !.doc = [m \in Nodes |-> IF m \in Subtree(h, n) THEN d ELSE @[m]]]

(* xmlAddChild, once the node is unlinked and in the document of its parent *)
AddChild(h, p, n) == [h EXCEPT !.parent[n] = p]

(* The nodes that an insertion of n moves: its children when n is a fragment. *)
Moved(h, n) == IF n \in Frags THEN Kids(h, n) ELSE {n}

(* The links domAppendChild, domInsertBefore and domReplaceChild leave when  *)
(* they place n, or the children of a fragment n, below s.                   *)
Graft(h, s, n) ==
  LET there == IF h.doc[n] = h.doc[s] THEN h ELSE SetTreeDoc(h, n, h.doc[s])
  IN  [there EXCEPT !.parent =
         [m \in Nodes |-> IF m \in Moved(h, n) THEN s ELSE IF m = n THEN NULL ELSE @[m]]]

(* domTestHierarchy and domIsParent, for n that is to be placed below s *)
HierarchyOK(h, s, n) ==
  /\ s \notin Attrs
  /\ n \in Elems \cup Frags
  /\ n # s
  /\ n \notin Ancestors(h, s)

(* domTestDocument *)
DocumentOK(s, n) == s \in Docs => n \notin Elems

-----------------------------------------------------------------------------
(* Releasing references: PmmREFCNT_dec and PmmFreeNode.                    *)

Ownees(h, S, q) == {r \in S : h.owner[r] = q}

(* The count of q once drops[q] references are released by the caller and  *)
(* each proxy of D, being freed, has released its owner.                   *)
Remaining(h, drops, D, q) ==
  h.count[q] - drops[q] - Cardinality(Ownees(h, D, q))

Expires(h, drops, D, q) ==
  /\ drops[q] > 0 \/ Ownees(h, D, q) # {}
  /\ Remaining(h, drops, D, q) <= 0

(* The proxies that nothing but other proxies refers to. *)
Losable(h, drops) == {q \in h.live : Remaining(h, drops, h.live, q) <= 0}

CascadeClosed(h, drops, D) == \A q \in h.live : Expires(h, drops, D, q) => q \in D

(* The proxies the recursion of PmmREFCNT_dec frees: the smallest set that *)
(* contains every proxy whose count the releases bring to zero.            *)
Expired(h, drops) ==
  {q \in Losable(h, drops) :
     \A D \in SUBSET Losable(h, drops) : CascadeClosed(h, drops, D) => q \in D}

(* A proxy without owner frees its node; one with an owner frees it when   *)
(* the node is the root of a tree.  PmmFreeNode keeps a linked attribute.  *)
FreesNode(h, q) ==
  /\ h.owner[q] \notin h.live \/ h.parent[q] = NULL
  /\ q \in Attrs => h.parent[q] = NULL

FreedWith(h, D) == UNION {Subtree(h, q) : q \in {r \in D : FreesNode(h, r)}}

PmmREFCNT_dec(h, drops) ==
  LET dead == Expired(h, drops)
  IN  [xmlFreed(h, FreedWith(h, dead)) EXCEPT
         !.live  = @ \ dead,
         !.count = [q \in Nodes |-> IF q \in h.live \ dead
                                    THEN Remaining(h, drops, dead, q) ELSE 0],
         !.owner = [q \in Nodes |-> IF q \in dead THEN NULL ELSE @[q]]]

-----------------------------------------------------------------------------
(* Creating proxies and handles.                                           *)

(* PmmOWNERPO: a proxy without owner is its own owner *)
PmmOWNERPO(h, n) == IF h.owner[n] = NULL THEN n ELSE h.owner[n]

(* Faulty forms: the owner is counted for every handle, or the proxy is    *)
(* counted for its first handle only.                                      *)
PmmNodeToSv_ownerAgain(h, n, o) ==
  LET new == n \notin h.live
      rise(q) == (IF q = n THEN 1 ELSE 0) + (IF q = o THEN 1 ELSE 0)
  IN  [h EXCEPT !.live       = @ \cup {n},
                !.owner[n]   = IF new THEN o ELSE @,
                !.count      = [q \in Nodes |-> @[q] + rise(q)],
                !.handles[n] = @ + 1]

PmmNodeToSv_firstOnly(h, n, o) ==
  LET new == n \notin h.live
      rise(q) == (IF q = n /\ new THEN 1 ELSE 0) + (IF new /\ q = o THEN 1 ELSE 0)
  IN  [h EXCEPT !.live       = @ \cup {n},
                !.owner[n]   = IF new THEN o ELSE @,
                !.count      = [q \in Nodes |-> @[q] + rise(q)],
                !.handles[n] = @ + 1]

PmmNodeToSv(h, n, o) ==
  LET new == n \notin h.live
      rise(q) == (IF q = n THEN 1 ELSE 0) + (IF new /\ q = o THEN 1 ELSE 0)
  IN  [h EXCEPT !.live       = @ \cup {n},
                !.owner[n]   = IF new THEN o ELSE @,
                !.count      = [q \in Nodes |-> @[q] + rise(q)],
                !.handles[n] = @ + 1]

(* Faulty forms: the document of the fragment is not its owner, or is not  *)
(* counted.                                                                *)
PmmNewFragment_unowned(h, f, d) ==
  [h EXCEPT !.alloc = @ \cup {f}, !.doc[f] = d, !.live = @ \cup {f}]

PmmNewFragment_uncounted(h, f, d) ==
  [h EXCEPT !.alloc = @ \cup {f}, !.doc[f] = d, !.live = @ \cup {f}, !.owner[f] = d]

(* PmmNewFragment: the proxy of fragment f, not yet referenced *)
PmmNewFragment(h, f, d) ==
  [h EXCEPT !.alloc    = @ \cup {f},
            !.doc[f]   = d,
            !.live     = @ \cup {f},
            !.owner[f] = d,
            !.count    = [q \in Nodes |-> IF q = d /\ d \in h.live THEN @[q] + 1 ELSE @[q]]]

-----------------------------------------------------------------------------
(* Changing owners: PmmFixOwner, PmmFixOwnerList, PmmFixOwnerNode.         *)

(* A faulty form: the former owners are not released. *)
Reown_keeps(h, S, p) ==
  LET own(v)  == IF v = p THEN NULL ELSE p
      rise(q) == Cardinality({v \in S : own(v) = q})
  IN  [h EXCEPT !.owner = [v \in Nodes |-> IF v \in S THEN own(v) ELSE @[v]],
                !.count = [q \in Nodes |-> @[q] + rise(q)]]

(* Every proxy of S gets p as its owner, or none when it is p itself, and  *)
(* releases the owner it had.                                              *)
Reown(h, S, p) ==
  LET own(v)   == IF v = p THEN NULL ELSE p
      rise(q)  == Cardinality({v \in S : own(v) = q})
      drops    == [q \in Nodes |-> Cardinality({v \in S : h.owner[v] = q})]
  IN  PmmREFCNT_dec(
        [h EXCEPT !.owner = [v \in Nodes |-> IF v \in S THEN own(v) ELSE @[v]],
                  !.count = [q \in Nodes |-> @[q] + rise(q)]],
        drops)

(* The proxies PmmFixOwnerList changes in the trees of roots: it goes down *)
(* through nodes without proxy and stops at a proxy that p owns already.   *)
Reached(h, roots, p) ==
  {v \in h.live \ Docs :
     /\ h.owner[v] # p
     /\ \E r \in roots :
          /\ v \in Subtree(h, r)
          /\ \A a \in Ancestors(h, v) \cap Subtree(h, r) \cap h.live : h.owner[a] # p}

(* A faulty form: the node is fixed and not its subtree. *)
PmmFixOwner_nodeOnly(h, n, p) ==
  IF n \in Docs \/ h.owner[n] = p THEN h ELSE Reown(h, {n}, p)

(* PmmFixOwner(n, p).  Without a parent n becomes the owner of what is     *)
(* below it; its attributes keep p.                                        *)
PmmFixOwner(h, n, p) ==
  IF n \in Docs \/ h.owner[n] = p THEN h
  ELSE IF p # NULL /\ h.parent[n] # NULL THEN Reown(h, Reached(h, {n}, p), p)
  ELSE LET own == Reown(h, {n} \cup Reached(h, Props(h, n), p), p)
       IN  Reown(own, Reached(own, Kids(own, n), n), n)

(* PmmFixOwnerNode over the list S of siblings: below a node without proxy *)
(* it fixes the children and not the attributes.                           *)
PmmFixOwnerNodes(h, S, p) ==
  Reown(h, Reached(h, (S \cap h.live) \cup UNION {Kids(h, n) : n \in S \ h.live}, p), p)

(* LibXML_reparent_removed_node: a removed node moves to a new fragment f. *)
Reparent(h, n, f) ==
  LET frag == PmmNewFragment(h, f, h.doc[n])
  IN  PmmFixOwner(AddChild(frag, f, n), n, f)

-----------------------------------------------------------------------------
(* The handlers.  Held(n): Perl has an object for n that still has data.   *)

Kept == {n \in heap.alloc : heap.handles[n] > 0}

Held(n) == n \in Kept /\ DocInMemory(heap, n)

(* Node::DESTROY *)
Drop(h, n) ==
  PmmREFCNT_dec([h EXCEPT !.handles[n] = @ - 1],
                [q \in Nodes |-> IF q = n THEN 1 ELSE 0])

(* A handler that returns n: the caller keeps the handle, or drops it at   *)
(* the end of the statement when it keeps MaxHandles of them already.      *)
Return(h, n) == heap' = IF h.handles[n] > MaxHandles THEN Drop(h, n) ELSE h

DESTROY(n) == n \in Kept /\ heap' = Drop(heap, n)

(* XML::LibXML::Document->new *)
createDocument ==
  \E d \in Free(heap, Docs) :
    Return(PmmNodeToSv([heap EXCEPT !.alloc = @ \cup {d}, !.doc[d] = d], d, NULL), d)

(* A new node of the document d, or of none, alone in a new fragment *)
InNewFragment(h, n, d, f) ==
  LET made == [h EXCEPT !.alloc = @ \cup {n}, !.doc[n] = d]
  IN  PmmNodeToSv(AddChild(PmmNewFragment(made, f, d), f, n), n, f)

createDocumentFragment(d) ==
  /\ Held(d)
  /\ \E f \in Free(heap, Frags) :
       Return(PmmNodeToSv([heap EXCEPT !.alloc = @ \cup {f}, !.doc[f] = d], f, d), f)

(* Document::createElement, and Element->new when d is NULL *)
createElement(d) ==
  /\ d # NULL => Held(d)
  /\ \E e \in Free(heap, Elems), f \in Free(heap, Frags) :
       Return(InNewFragment(heap, e, d, f), e)

createAttribute(d) ==
  /\ Held(d)
  /\ \E a \in Free(heap, Attrs) :
       Return(PmmNodeToSv([heap EXCEPT !.alloc = @ \cup {a}, !.doc[a] = d], a, d), a)

(* Element::_setAttribute of a name the element does not have yet *)
setAttribute(e) ==
  /\ Held(e)
  /\ \E a \in Free(heap, Attrs) :
       heap' = [heap EXCEPT !.alloc = @ \cup {a}, !.parent[a] = e, !.doc[a] = heap.doc[e]]

(* The handlers that give PmmOWNERPO(s) to a node of the tree of s expect  *)
(* it to keep that tree; the owner of a fragment is only its document.     *)
KeepsTree(s) == "FragmentSelf" \notin Uses => s \notin Frags \/ heap.owner[s] = NULL

(* parentNode, firstChild, nextSibling, childNodes, attributes, ...: the   *)
(* neighbour m of n gets the owner of n if it has no proxy yet.            *)
navigate(n, m) ==
  /\ Held(n)
  /\ m \in heap.alloc \ {n}
  /\ m \in heap.live \/ KeepsTree(n)
  /\ \/ heap.parent[n] = m
     \/ heap.parent[m] = n
     \/ /\ heap.parent[n] # NULL /\ heap.parent[m] = heap.parent[n]
        /\ n \in Attrs <=> m \in Attrs
  /\ Return(PmmNodeToSv(heap, m, PmmOWNERPO(heap, n)), m)

ownerDocument(n) ==
  /\ Held(n)
  /\ heap.doc[n] \in heap.alloc
  /\ Return(PmmNodeToSv(heap, heap.doc[n], NULL), heap.doc[n])

ownerNode(n) ==
  /\ Held(n)
  /\ LET o == PmmOWNERPO(heap, n)
     IN  o \in heap.alloc /\ Return(PmmNodeToSv(heap, o, NULL), o)

(* No earlier insertion has given the fragment another owner or document,  *)
(* and it owns no node which such an insertion moved elsewhere.            *)
FragmentOK(n) ==
  "ReusedFragment" \notin Uses /\ n \in Frags =>
    /\ heap.owner[n] = heap.doc[n]
    /\ Ownees(heap, heap.live, n) \subseteq Subtree(heap, n)

(* The nodes M are to be placed below s, then PmmFixOwner(v, p) is called.  *)
(* Every proxy below M has an owner that suits the new place, one that      *)
(* comes along or is above it there, or PmmFixOwner reaches the proxy.  A   *)
(* fragment v gets the owner p, so what v owns follows; a v without proxy   *)
(* gets one with the owner p, where PmmFixOwner stops.                      *)
OwnersFollow(M, v, p, s) ==
  \A r \in M : \A x \in heap.live \cap Subtree(heap, r) :
    \/ heap.owner[x] \in Subtree(heap, r) \cup Ancestors(heap, s) \cup {s, p} \cup ({v} \cap Frags)
    \/ r = v /\ v \in heap.live /\ x \in Reached(heap, {v}, p)

(* A faulty form: the nodes below s keep their owners. *)
appendChild_unfixed(s, n) ==
  /\ Held(s) /\ Held(n)
  /\ s \notin Docs
  /\ HierarchyOK(heap, s, n)
  /\ Return(PmmNodeToSv(Graft(heap, s, n), n, PmmOWNERPO(heap, s)), n)

appendChild(s, n) ==
  /\ Held(s) /\ Held(n)
  /\ FragmentOK(s) /\ FragmentOK(n)
  /\ s \notin Docs
  /\ HierarchyOK(heap, s, n)
  /\ "EarlyStop" \in Uses \/ OwnersFollow(Moved(heap, n), n, s, s)
  /\ LET placed == PmmNodeToSv(Graft(heap, s, n), n, PmmOWNERPO(heap, s))
     IN  Return(PmmFixOwner(placed, n, s), n)

(* addChild.  It does not look for cycles, and the calls that would make    *)
(* one are left out.  xmlAddChild frees an attribute of the same name.     *)
addChild(s, n) ==
  /\ Held(s) /\ Held(n)
  /\ FragmentOK(s)
  /\ s \in Docs \cup Elems \cup Frags
  /\ n \in Elems /\ n # s /\ n \notin Ancestors(heap, s)
  /\ "EarlyStop" \in Uses \/ OwnersFollow({n}, n, s, s)
  /\ LET there  == SetTreeDoc(Unlink(heap, n), n, heap.doc[s])
         placed == PmmNodeToSv(AddChild(there, s, n), n, PmmOWNERPO(heap, s))
     IN  Return(PmmFixOwner(placed, n, s), n)

addChildAttribute(s, n, old) ==
  /\ Held(s) /\ Held(n)
  /\ s \in Elems
  /\ n \in Attrs
  /\ old \in (Props(heap, s) \ {n}) \cup {NULL}
  /\ old \in heap.live => "DuplicateAttribute" \in Uses
  /\ LET there  == SetTreeDoc(Unlink(heap, n), n, heap.doc[s])
         placed == AddChild(xmlFreed(there, {old}), s, n)
         given  == PmmNodeToSv(placed, n, PmmOWNERPO(heap, s))
     IN  Return(PmmFixOwner(given, n, s), n)

(* insertBefore(s, n, r), and insertAfter, where r is the sibling after a  *)
(* held node; first is the node domInsertBefore returns.  When n is the    *)
(* only child of s and r is NULL, n is unlinked and placed nowhere.        *)
insertBefore(s, n, r, first) ==
  LET lost == r = NULL /\ Kids(heap, s) = {n}
      tree == IF lost THEN Unlink(heap, n) ELSE Graft(heap, s, n)
      to   == PmmOWNERPO(heap, s)
  IN  /\ Held(s) /\ Held(n)
      /\ FragmentOK(s) /\ FragmentOK(n) /\ KeepsTree(s)
      /\ HierarchyOK(heap, s, n) /\ DocumentOK(s, n)
      /\ lost => "OnlyChild" \in Uses
      /\ r # NULL =>
           /\ r \in Kids(heap, s) \ {n}
           /\ \E y \in Kids(heap, s) : Held(y)
           /\ Moved(heap, n) # {}
      /\ first \in IF Moved(heap, n) = {} THEN {n} ELSE Moved(heap, n)
      /\ \/ (IF n \in Frags THEN "HalfFixedFragment" ELSE "EarlyStop") \in Uses
         \/ OwnersFollow(Moved(heap, n), first, to, s)
      /\ Return(PmmFixOwner(PmmNodeToSv(tree, first, to), first, to), first)

(* insertBefore(s, n, n), or insertAfter when n is the next sibling: n     *)
(* stays where it is and gets the owner of s.                              *)
insertBeforeItself(s, n) ==
  /\ Held(s) /\ Held(n)
  /\ KeepsTree(s)
  /\ heap.parent[n] # s => "SelfReference" \in Uses
  /\ LET to == PmmOWNERPO(heap, s)
     IN  Return(PmmFixOwner(PmmNodeToSv(heap, n, to), n, to), n)

(* Proxies outside the nodes T keep q: each is held, or owns one of them.  *)
KeptOutside(h, T, q) ==
  \E C \in SUBSET (h.live \ T) :
    q \in C /\ \A r \in C : h.handles[r] > 0 \/ Ownees(h, C, r) # {}

(* replaceChild(s, n, old) and replaceNode(old, n), once n and old have    *)
(* passed their tests; to is the owner n gets, which must not depend on    *)
(* what leaves with old.                                                   *)
Replace(s, n, old, to) ==
  LET cut == Unlink(Graft(heap, s, n), old)
  IN  /\ DocInMemory(heap, s)
      /\ FragmentOK(s) /\ FragmentOK(n)
      /\ HierarchyOK(heap, s, n) /\ DocumentOK(s, n)
      /\ old \in Kids(heap, s) \ {n}
      /\ "EarlyStop" \in Uses \/ OwnersFollow(Moved(heap, n), n, to, s)
      /\ "UnheldRoot" \in Uses \/ KeptOutside(cut, Subtree(cut, old), to)
      /\ \E f \in Free(heap, Frags) :
           LET out  == Reparent(cut, old, f)
               kept == PmmNodeToSv(out, old, PmmOWNERPO(out, old))
           IN  Return(PmmFixOwner(kept, n, to), old)

replaceChild(s, n, old) ==
  /\ Held(s) /\ Held(n) /\ Held(old)
  /\ \/ s \notin Docs /\ KeepsTree(s) /\ Replace(s, n, old, PmmOWNERPO(heap, s))
     \/ n \in {s, old} /\ Return(PmmNodeToSv(heap, n, PmmOWNERPO(heap, n)), n)

replaceNode(old, n) ==
  /\ Held(old) /\ Held(n)
  /\ old \notin Attrs /\ heap.parent[old] # NULL
  /\ n \notin Ancestors(heap, old)
  /\ Replace(heap.parent[old], n, old, PmmOWNERPO(heap, old))

-----------------------------------------------------------------------------
(* Removing, importing and adopting nodes.                                 *)

removeChild(s, n) ==
  /\ Held(s) /\ Held(n)
  /\ n \in Kids(heap, s)
  /\ \E f \in Free(heap, Frags) :
       Return(PmmNodeToSv(Reparent(Unlink(heap, n), n, f), n, NULL), n)

removeChildNodes(s) ==
  /\ Held(s)
  /\ \E f \in Free(heap, Frags) :
       LET kids  == Kids(heap, s)
           frag  == PmmNewFragment(heap, f, heap.doc[s])
           moved == [frag EXCEPT !.parent = [n \in Nodes |-> IF n \in kids THEN f ELSE @[n]]]
           fixed == PmmFixOwnerNodes(moved, kids, f)
       IN  /\ "HiddenAttribute" \notin Uses =>
                \A n \in kids \ heap.live : Props(heap, n) \cap heap.live = {}
           /\ heap' = IF fixed.count[f] > 0 THEN fixed
                      ELSE PmmREFCNT_dec([fixed EXCEPT !.count[f] = @ + 1],
                                         [q \in Nodes |-> IF q = f THEN 1 ELSE 0])

unbindNode(n) ==
  /\ Held(n)
  /\ n \notin Docs \cup Frags
  /\ IF n \in Attrs THEN heap' = Unlink(heap, n)
     ELSE \E f \in Free(heap, Frags) : heap' = Reparent(Unlink(heap, n), n, f)

(* A faulty form: a handle of the old root is dropped that was never made. *)
setDocumentElement_noHandle(d, e) ==
  /\ Held(d) /\ Held(e)
  /\ d \in Docs /\ e \in Elems
  /\ \E old \in Kids(heap, d), f \in Free(heap, Frags) :
       LET there == SetTreeDoc(Unlink(Reparent(Unlink(heap, old), old, f), e), e, d)
       IN  heap' = Drop(PmmFixOwner(AddChild(there, d, e), e, d), old)

(* Document::setDocumentElement of LibXML.pm: the old root is removed with *)
(* removeChild, the new one is set, and Perl drops its handles of the old. *)
(* The document has one root at most.                                      *)
setDocumentElement(d, e) ==
  LET place(h) ==
        LET there == SetTreeDoc(Unlink(h, e), e, d)
        IN  PmmFixOwner(AddChild(there, d, e), e, d)
  IN  /\ Held(d) /\ Held(e)
      /\ d \in Docs /\ e \in Elems
      /\ Cardinality(Kids(heap, d)) <= 1
      /\ IF Kids(heap, d) = {} THEN heap' = place(heap)
         ELSE \E old \in Kids(heap, d), f \in Free(heap, Frags) :
              /\ DocInMemory(heap, old)
              /\ LET got == PmmNodeToSv(heap, old, d)
                IN  heap' = Drop(place(Reparent(Unlink(got, old), old, f)), old)

(* xmlDocCopyNode and xmlCopyNode: the nodes of S, of which n is the root, *)
(* are copied to the fresh nodes g gives them, in document d.              *)
Copied(h, n, S, g, d) ==
  LET new     == {g[m] : m \in S}
      orig(x) == CHOOSE m \in S : g[m] = x
      up(x)   == h.parent[orig(x)]
  IN  [h EXCEPT
         !.alloc  = @ \cup new,
         !.doc    = [x \in Nodes |-> IF x \in new THEN d ELSE @[x]],
         !.parent = [x \in Nodes |-> IF x \notin new THEN @[x]
                                     ELSE IF x # g[n] /\ up(x) \in S THEN g[up(x)]
                                     ELSE NULL]]

CopyMaps(h, S) ==
  {g \in [S -> Free(h, Elems \cup Attrs)] :
     /\ \A m1, m2 \in S : g[m1] = g[m2] => m1 = m2
     /\ \A m \in S : m \in Attrs <=> g[m] \in Attrs}

CopyInFragment(n, S, d) ==
  \E g \in CopyMaps(heap, S) :
    LET copy == Copied(heap, n, S, g, d)
    IN  \E f \in Free(copy, Frags) :
          LET frag == PmmNewFragment(copy, f, d)
          IN  Return(PmmNodeToSv(AddChild(frag, f, g[n]), g[n], f), g[n])

(* A fragment that is cloned, imported or adopted becomes the child of a   *)
(* fragment; these three handlers are modelled for the other nodes.        *)

(* Node::cloneNode: the attributes are copied with an element, the rest of *)
(* the subtree when deep.                                                  *)
cloneNode(n, deep) ==
  /\ Held(n)
  /\ n \in Elems
  /\ CopyInFragment(n, IF deep THEN Subtree(heap, n) ELSE {n} \cup Props(heap, n), heap.doc[n])

importNode(d, n) ==
  /\ Held(d) /\ Held(n)
  /\ d \in Docs /\ n \in Elems
  /\ CopyInFragment(n, Subtree(heap, n), d)

adoptNode(d, n) ==
  /\ Held(d) /\ Held(n)
  /\ d \in Docs /\ n \in Elems
  /\ \E f \in Free(heap, Frags) :
       LET moved == SetTreeDoc(Unlink(heap, n), n, d)
           frag  == PmmNodeToSv(PmmNewFragment(moved, f, d), n, f)
       IN  Return(PmmFixOwner(AddChild(frag, f, n), n, f), n)

-----------------------------------------------------------------------------
(* Attribute nodes.  setAttributeNode of an attribute that another element *)
(* still has would leave it linked into both; such calls are left out.     *)

(* old is the attribute of s with the name of a, or NULL *)
setAttributeNode(s, a, old) ==
  /\ Held(s) /\ Held(a)
  /\ s \in Elems /\ a \in Attrs
  /\ \/ heap.parent[a] = NULL
     \/ old # NULL /\ heap.doc[a] = heap.doc[s]
  /\ old \in (Props(heap, s) \cup {NULL}) \ {a}
  /\ LET there == SetTreeDoc(Unlink(heap, a), a, heap.doc[s])
         over  == [m \in Nodes |-> IF m = a THEN s ELSE IF m = old THEN NULL ELSE there.parent[m]]
         set   == PmmFixOwner([there EXCEPT !.parent = over], a, s)
     IN  IF old = NULL THEN heap' = set
         ELSE Return(PmmFixOwner(PmmNodeToSv(set, old, NULL), old, NULL), old)

(* Faulty forms: the proxy of the attribute is not looked at, or the        *)
(* attribute is not freed.                                                 *)
removeAttribute_held(s, a) ==
  Held(s) /\ a \in Props(heap, s) /\ heap' = xmlFreed(heap, {a})

removeAttribute_unfreed(s, a) ==
  Held(s) /\ a \in Props(heap, s) /\ heap' = Unlink(heap, a)

removeAttribute(s, a) ==
  /\ Held(s)
  /\ a \in Props(heap, s)
  /\ heap' = IF a \in heap.live THEN PmmFixOwner(Unlink(heap, a), a, NULL)
             ELSE xmlFreed(heap, {a})

removeAttributeNode(s, a) ==
  /\ Held(s) /\ Held(a)
  /\ a \in Props(heap, s)
  /\ Return(PmmFixOwner(PmmNodeToSv(Unlink(heap, a), a, NULL), a, NULL), a)

-----------------------------------------------------------------------------
Init ==
  heap = [alloc   |-> {},
          parent  |-> [n \in Nodes |-> NULL],
          doc     |-> [n \in Nodes |-> NULL],
          live    |-> {},
          owner   |-> [n \in Nodes |-> NULL],
          count   |-> [n \in Nodes |-> 0],
          handles |-> [n \in Nodes |-> 0]]

Create ==
  \/ createDocument
  \/ createElement(NULL)
  \/ \E d \in Docs : createDocumentFragment(d) \/ createAttribute(d) \/ createElement(d)
  \/ \E e \in Elems : setAttribute(e) \/ cloneNode(e, TRUE) \/ cloneNode(e, FALSE)
  \/ \E d \in Docs, n \in Kept : importNode(d, n)

Visit ==
  \E n \in Kept :
    DESTROY(n) \/ ownerDocument(n) \/ ownerNode(n) \/ \E m \in Nodes : navigate(n, m)

Place ==
  \E s, n \in Kept :
    \/ appendChild(s, n) \/ addChild(s, n) \/ setDocumentElement(s, n) \/ adoptNode(s, n)
    \/ \E r \in Kids(heap, s) \cup {NULL}, first \in Nodes : insertBefore(s, n, r, first)
    \/ insertBeforeItself(s, n)
    \/ replaceNode(s, n) \/ \E old \in Kept : replaceChild(s, n, old)
    \/ \E old \in Props(heap, s) \cup {NULL} :
         setAttributeNode(s, n, old) \/ addChildAttribute(s, n, old)

Detach ==
  \E s \in Kept :
    \/ unbindNode(s) \/ removeChildNodes(s)
    \/ \E n \in Below(heap, s) :
         removeChild(s, n) \/ removeAttribute(s, n) \/ removeAttributeNode(s, n)

Next == Create \/ Visit \/ Place \/ Detach

Spec == Init /\ [][Next]_vars

-----------------------------------------------------------------------------
(* Properties.                                                             *)

(* The heap has the shape of the C structures. *)
TypeOK == heap \in Heaps

(* proxy->count is exact: the number of Perl objects of the proxy plus the *)
(* number of proxies it owns (PmmREFCNT_inc and PmmREFCNT_dec are paired   *)
(* over PmmNodeToSv, PmmNewFragment, PmmFixOwner and DESTROY).             *)
CountsExact ==
  \A q \in Nodes :
    heap.count[q] = IF q \in heap.live
                    THEN heap.handles[q] + Cardinality(Ownees(heap, heap.live, q)) ELSE 0

(* A Perl object never points to a freed proxy, whatever the sequence of   *)
(* calls: DESTROY and SvPROXYNODE rely on it.                              *)
HandlesLive == \A q \in Nodes : heap.handles[q] > 0 => q \in heap.live

(* The owner of a proxy is not freed before the proxy releases it:         *)
(* PmmOWNERPO never meets a node whose _private was cleared.               *)
OwnersLive == \A q \in heap.live : heap.owner[q] \in heap.live \cup {NULL}

(* perl-libxml-mm.h:52-57: a node that is referred to from Perl is not     *)
(* deleted: every proxy points to a node in memory.                        *)
NoDangling == heap.live \subseteq heap.alloc

(* Nothing in memory points to freed memory: parents are in memory, and so *)
(* is the document of every node that has a parent.                        *)
LinksAlive ==
  \A n \in heap.alloc :
    /\ heap.parent[n] \in heap.alloc \cup {NULL}
    /\ heap.parent[n] # NULL => heap.doc[n] \in heap.alloc \cup {NULL}

(* ownerDocument on a held node: its document is in memory, whatever the   *)
(* node (perl-libxml-mm.h:52-57).                                          *)
DocumentAlive == \A n \in heap.live : heap.doc[n] \in heap.alloc \cup {NULL}

(* The owners of a proxy, followed upwards. *)
Owners(h, n) == Upwards(h.owner, n)

(* perl-libxml-mm.c:427-429, "delete the subtree if it is not required any *)
(* more": a proxy is held, or owns, through others, one that is; and a     *)
(* tree is in memory only while its root has a proxy.                      *)
NothingLeaks ==
  /\ \A q \in heap.live :
       \E r \in heap.live : heap.handles[r] > 0 /\ q \in Owners(heap, r) \cup {r}
  /\ \A n \in heap.alloc : heap.parent[n] = NULL => n \in heap.live

(* What makes the counts protect trees: the owners of a held node include  *)
(* the root of its tree, or the node is that root ("it is very important   *)
(* to fix an entire subtree", perl-libxml-mm.c:698-701).                   *)
RootOwned ==
  \A n \in heap.live :
    heap.parent[n] # NULL =>
      \E r \in Ancestors(heap, n) : heap.parent[r] = NULL /\ r \in Owners(heap, n)

=============================================================================
