------------------------------ MODULE DomList ------------------------------
(***************************************************************************)
(* The lists of siblings of dom.c: the pointers parent, children, last,    *)
(* next and prev of nodes, and the operations that change them.  Owners    *)
(* and memory are the subject of ProxyNode; names, namespaces, documents   *)
(* and attributes are left out.                                            *)
(***************************************************************************)
EXTENDS SequencesExt

CONSTANTS
  Elems,   \* elements and the other nodes that may have a parent
  Frags,   \* document fragments
  NULL,
  Uses     \* the calls listed in RiskyUses that are made

Nodes == Elems \cup Frags

(* Calls after which the lists are not what the DOM says. *)
RiskyUses == {
  "OnlyChild",     \* insertBefore(x, NULL) where x is the only child of the target
  "StrangeChild"}  \* replaceChild(x, y) where y is not a child of the target

ASSUME KindsAssumption ==
  /\ IsFiniteSet(Nodes) /\ Elems \cap Frags = {} /\ NULL \notin Nodes
  /\ Cardinality(Frags) >= Cardinality(Elems)
  /\ Uses \subseteq RiskyUses

VARIABLE links

vars == <<links>>

Pointers == [Nodes -> Nodes \cup {NULL}]

Links == [parent : Pointers, children : Pointers, last : Pointers,
          next : Pointers, prev : Pointers]

-----------------------------------------------------------------------------
(* Reading and writing pointers.                                           *)

(* p->field = v unless p is NULL *)
Set(field, p, v) == IF p = NULL THEN field ELSE [field EXCEPT ![p] = v]

(* The walk from n along a pointer: n, the node it points to, and so on to *)
(* the NULL after the last one.                                            *)
Walk(field, n) ==
  LET at[k \in 0..Cardinality(Nodes)] ==
        IF k = 0 THEN n ELSE IF at[k - 1] = NULL THEN NULL ELSE field[at[k - 1]]
  IN  at

(* The list of the children of p, as the walk along next finds it *)
Listed(l, p) ==
  LET at == Walk(l.next, l.children[p])
  IN  [i \in 1..Cardinality({k \in DOMAIN at : at[k] # NULL}) |-> at[i - 1]]

Ancestors(l, n) == Range(Walk(l.parent, l.parent[n])) \ {NULL}

(* A faulty form: only the parent is looked at. *)
domIsParent_near(l, cur, ref) == ref = cur \/ l.parent[cur] = ref

domIsParent(l, cur, ref) ==
  \/ ref = cur
  \/ l.children[ref] # NULL /\ l.parent[cur] # NULL /\ ref \in Ancestors(l, cur)

-----------------------------------------------------------------------------
(* The operations of dom.c on a set of links.                              *)

(* A faulty form: the end of the list is not moved. *)
domUnlinkNode_noLast(l, n) ==
  [l EXCEPT
     !.next     = [Set(@, l.prev[n], l.next[n]) EXCEPT ![n] = NULL],
     !.prev     = [Set(@, l.next[n], l.prev[n]) EXCEPT ![n] = NULL],
     !.children = IF l.parent[n] # NULL /\ l.children[l.parent[n]] = n
                  THEN Set(@, l.parent[n], l.next[n]) ELSE @,
     !.parent[n] = NULL]

(* domUnlinkNode, and xmlUnlinkNode of libxml2, which does the same *)
domUnlinkNode(l, n) ==
  LET p == l.parent[n]
  IN  [l EXCEPT
         !.next     = [Set(@, l.prev[n], l.next[n]) EXCEPT ![n] = NULL],
         !.prev     = [Set(@, l.next[n], l.prev[n]) EXCEPT ![n] = NULL],
         !.last     = IF p # NULL /\ l.last[p] = n THEN Set(@, p, l.prev[n]) ELSE @,
         !.children = IF p # NULL /\ l.children[p] = n THEN Set(@, p, l.next[n]) ELSE @,
         !.parent[n] = NULL]

(* What the insertion of n inserts: n, or what a fragment n holds; the first  *)
(* and the last of it, and a field of the fragment once it is empty.       *)
Moved(l, n)       == IF n \in Frags THEN ToSet(Listed(l, n)) ELSE {n}
Foremost(l, n)    == IF n \in Frags THEN l.children[n] ELSE n
Hindmost(l, n)    == IF n \in Frags THEN l.last[n] ELSE n
Emptied(field, n) == IF n \in Frags THEN [field EXCEPT ![n] = NULL] ELSE field

(* domAddNodeToList puts cur, or the children of a fragment cur, between    *)
(* leader and followup; without both it puts them nowhere.                 *)
domAddNodeToList(l, cur, leader, followup) ==
  LET p     == l.parent[IF leader # NULL THEN leader ELSE followup]
      moved == Moved(l, cur)
      first == Foremost(l, cur)
      final == Hindmost(l, cur)
      here  == [l EXCEPT !.parent   = [m \in Nodes |-> IF m \in moved THEN p ELSE @[m]],
                         !.children = Emptied(@, cur),
                         !.last     = Emptied(@, cur)]
      Tie(ll) ==
        [ll EXCEPT
           !.next     = Set(Set(@, leader, first),
                            IF followup # NULL THEN final ELSE NULL, followup),
           !.prev     = Set(Set(@, IF leader # NULL THEN first ELSE NULL, leader),
                            followup, final),
           !.children = IF leader = NULL THEN Set(@, p, first) ELSE @,
           !.last     = IF followup = NULL THEN Set(@, p, final) ELSE @]
  IN  IF leader = NULL /\ followup = NULL THEN l
      ELSE IF NULL \in {first, final} \/ first = leader THEN here
      ELSE Tie(here)

(* xmlAddChild of libxml2, for a node in no list *)
xmlAddChild(l, p, n) ==
  [l EXCEPT !.parent[n]   = p,
            !.next        = Set(@, l.last[p], n),
            !.prev[n]     = l.last[p],
            !.children[p] = IF @ = NULL THEN n ELSE @,
            !.last[p]     = n]

(* A faulty form: a fragment is appended like any node. *)
domAppendChild_whole(l, s, n) ==
  LET cut == domUnlinkNode(l, n)
  IN  IF cut.children[s] # NULL THEN domAddNodeToList(cut, n, cut.last[s], NULL)
      ELSE [cut EXCEPT !.parent[n] = s, !.children[s] = n, !.last[s] = n]

domAppendChild(l, s, n) ==
  LET cut   == domUnlinkNode(l, n)
      moved == Moved(cut, n)
  IN  IF cut.children[s] # NULL THEN domAddNodeToList(cut, n, cut.last[s], NULL)
      ELSE [cut EXCEPT !.parent   = [m \in Nodes |-> IF m \in moved THEN s ELSE @[m]],
                       !.children = [Emptied(@, n) EXCEPT ![s] = Foremost(cut, n)],
                       !.last     = [Emptied(@, n) EXCEPT ![s] = Hindmost(cut, n)]]

domRemoveChild(l, s, old) == IF l.parent[old] = s THEN domUnlinkNode(l, old) ELSE l

(* A faulty form: the reference node is looked up before n is unlinked. *)
domInsertBefore_early(l, s, n, r) ==
  LET cut == domUnlinkNode(l, n)
  IN  IF r = n THEN l
      ELSE IF r # NULL /\ (l.parent[r] # s \/ (n \in Frags /\ l.children[n] = NULL)) THEN l
      ELSE IF l.children[s] = NULL THEN domAppendChild(l, s, n)
      ELSE IF r = NULL THEN domAddNodeToList(cut, n, cut.last[s], NULL)
      ELSE domAddNodeToList(cut, n, l.prev[r], r)

(* Nothing is inserted before n itself, before a node that is no child of s, *)
(* and no empty fragment is inserted before a node.                        *)
domInsertBefore(l, s, n, r) ==
  LET cut == domUnlinkNode(l, n)
  IN  IF r = n THEN l
      ELSE IF r # NULL /\ (l.parent[r] # s \/ (n \in Frags /\ l.children[n] = NULL)) THEN l
      ELSE IF l.children[s] = NULL THEN domAppendChild(l, s, n)
      ELSE IF r = NULL THEN domAddNodeToList(cut, n, cut.last[s], NULL)
      ELSE domAddNodeToList(cut, n, cut.prev[r], r)

domReplaceChild(l, s, n, old) ==
  LET cut == domUnlinkNode(l, n)
      put == domAddNodeToList(cut, n, cut.prev[old], cut.next[old])
  IN  IF cut.children[s] = old /\ cut.last[s] = old
      THEN domAppendChild(domRemoveChild(cut, s, old), s, n)
      ELSE IF n \in Frags /\ cut.children[n] = NULL THEN domRemoveChild(cut, s, old)
      ELSE [put EXCEPT !.parent[old] = NULL, !.next[old] = NULL, !.prev[old] = NULL]

-----------------------------------------------------------------------------
(* The handlers of LibXML.xs.  A node that leaves its list is put into a   *)
(* new fragment: an empty one that no argument of the call is.             *)

Fresh(l, S) == {f \in Frags \ S : l.children[f] = NULL}

(* domTestHierarchy *)
HierarchyOK(s, n) == ~ domIsParent(links, s, n)

appendChild(s, n) == HierarchyOK(s, n) /\ links' = domAppendChild(links, s, n)

(* Without a reference node the new node becomes the last child. *)
insertLast(s, n) ==
  /\ HierarchyOK(s, n)
  /\ Listed(links, s) = <<n>> => "OnlyChild" \in Uses
  /\ links' = domInsertBefore(links, s, n, NULL)

insertBefore(s, n, r) == HierarchyOK(s, n) /\ links' = domInsertBefore(links, s, n, r)

(* insertAfter of a last child appends, also when r is a child of another node. *)
insertAfter(s, n, r) ==
  /\ HierarchyOK(s, n)
  /\ links.next[r] = NULL /\ Listed(links, s) = <<n>> => "OnlyChild" \in Uses
  /\ links' = domInsertBefore(links, s, n, links.next[r])

replaceChild(s, n, old) ==
  /\ n # old /\ n # s
  /\ HierarchyOK(s, n)
  /\ links.parent[old] # s => "StrangeChild" \in Uses
  /\ LET put == domReplaceChild(links, s, n, old)
     IN  \E f \in Fresh(put, {s, n}) : links' = xmlAddChild(put, f, old)

replaceNode(old, n) ==
  /\ ~ domIsParent(links, old, n)
  /\ links.parent[old] # NULL
  /\ replaceChild(links.parent[old], n, old)

removeChild(s, n) ==
  /\ links.parent[n] = s
  /\ LET cut == domRemoveChild(links, s, n)
     IN  \E f \in Fresh(cut, {s}) : links' = xmlAddChild(cut, f, n)

unbindNode(n) ==
  LET cut == domUnlinkNode(links, n)
  IN  \E f \in Fresh(cut, {}) : links' = xmlAddChild(cut, f, n)

(* The child c of some node becomes the last one of the fragment f. *)
Gathered(l, f, c) ==
  LET cut == domUnlinkNode(l, c)
  IN  IF cut.children[f] # NULL THEN domAddNodeToList(cut, c, cut.last[f], NULL)
      ELSE [cut EXCEPT !.children[f] = c, !.last[f] = c, !.parent[c] = f]

AllGathered(l, f, list) == FoldLeft(LAMBDA ll, c : Gathered(ll, f, c), l, list)

(* The children of s move one by one to a new fragment f. *)
removeChildNodes(s) ==
  \E f \in Fresh(links, {s}) :
    links' = [AllGathered(links, f, Listed(links, s)) EXCEPT !.children[s] = NULL,
                                                             !.last[s] = NULL]

(* addChild looks for no cycle; the calls that would make one are left out. *)
addChild(s, n) ==
  /\ s # n /\ n \notin Ancestors(links, s)
  /\ links' = xmlAddChild(domUnlinkNode(links, n), s, n)

-----------------------------------------------------------------------------
(* Each element is created alone in a fragment. *)
Init ==
  \E own \in [Elems -> Frags] :
    /\ \A x, y \in Elems : own[x] = own[y] => x = y
    /\ LET none  == [n \in Nodes |-> NULL]
           child == [p \in Nodes |-> IF \E x \in Elems : own[x] = p
                                     THEN CHOOSE x \in Elems : own[x] = p ELSE NULL]
       IN  links = [parent   |-> [n \in Nodes |-> IF n \in Elems THEN own[n] ELSE NULL],
                    children |-> child, last |-> child, next |-> none, prev |-> none]

Next ==
  \/ \E s, n \in Nodes : appendChild(s, n) \/ insertLast(s, n)
  \/ \E s, n \in Nodes, r \in Elems :
       insertBefore(s, n, r) \/ insertAfter(s, n, r) \/ replaceChild(s, n, r)
  \/ \E n \in Nodes, old \in Elems : replaceNode(old, n)
  \/ \E s \in Nodes, n \in Elems : removeChild(s, n) \/ addChild(s, n)
  \/ \E n \in Elems : unbindNode(n)
  \/ \E s \in Nodes : removeChildNodes(s)

Spec == Init /\ [][Next]_vars

-----------------------------------------------------------------------------
(* Properties.                                                             *)

(* The pointers have the types of the C structure, and a fragment is in no *)
(* list: what is inserted of it is its children (dom.c:326-335).           *)
TypeOK ==
  /\ links \in Links
  /\ \A f \in Frags : {links.parent[f], links.next[f], links.prev[f]} = {NULL}

(* The five pointers agree: walks along next and along prev meet the same  *)
(* nodes, between the ends the parent has, and these are all the nodes     *)
(* that call it their parent (domUnlinkNode and domAddNodeToList).         *)
WellLinked ==
  \A p \in Nodes :
    LET list == Listed(links, p)
    IN  /\ ToSet(list) = {n \in Nodes : links.parent[n] = p}
        /\ Cardinality(ToSet(list)) = Len(list)
        /\ links.last[p] = IF list = <<>> THEN NULL ELSE Last(list)
        /\ \A i \in DOMAIN list : links.prev[list[i]] = IF i = 1 THEN NULL ELSE list[i - 1]

(* No node is above itself: what domIsParent is for ("this test is very    *)
(* important to avoid circular constructs in trees", dom.c:362-363).       *)
NoCycles == \A n \in Nodes : n \notin Ancestors(links, n)

(* The pointers implement the lists of the DOM: every operation moves the  *)
(* nodes it names to one place and no other node changes its place.        *)
DOM == INSTANCE NodeLists WITH kids <- [p \in Nodes |-> Listed(links, p)]

ImplementsDOM == DOM!Spec

(* lib/XML/LibXML/Node.pod:380, "If $refNode is undefined, the newNode will *)
(* be set as the new last child of the parent node".                       *)
InsertedLast ==
  [][\A s \in Nodes, n \in Elems : insertLast(s, n) => links'.last[s] = n]_vars

(* lib/XML/LibXML/Node.pod:184, "The $oldNode will be unbound from the Node":  *)
(* after replaceChild no list has the node that was replaced but the one   *)
(* it is the only child of.                                                *)
ReplacedUnbound ==
  [][\A s, n \in Nodes, old \in Elems :
       replaceChild(s, n, old) =>
         \A p \in Nodes : links'.children[p] = old => links'.parent[old] = p]_vars
=============================================================================
