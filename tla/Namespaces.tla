----------------------------- MODULE Namespaces -----------------------------
(***************************************************************************)
(* Namespace declarations and the names that point to them (dom.c, the     *)
(* namespace functions of LibXML.xs).  An element or an attribute has its  *)
(* namespace by a pointer to an xmlNs structure, which belongs to the list *)
(* nsDef of one element and is freed with it.  When a node moves, dom.c    *)
(* reconciles the pointers of its subtree with the declarations in scope   *)
(* at the new place.                                                       *)
(***************************************************************************)
EXTENDS Naturals, FiniteSets, SequencesExt

CONSTANTS
  Nodes,      \* elements
  NsPrefixes, \* prefixes of declarations; the default namespace has NULL
  URIs,       \* namespace names
  MaxDecls,   \* bound: xmlNs structures allocated at a time
  MaxEdits,   \* bound: operations that change names where they are
  Careful,    \* programs unbind only nodes that use no declaration from above
  NULL

VARIABLES
  parent,   \* the element above a node, NULL for a root
  live,     \* elements in memory
  names,    \* declarations and the pointers to them, see Names
  edits     \* how many names were changed, for the bound

vars == <<parent, live, names, edits>>

Decls == 1..MaxDecls
Refs  == {"ns", "attr"}   \* an element's own name; its attribute in a namespace

ASSUME NamesAssumption ==
  /\ IsFiniteSet(Nodes) /\ NULL \notin Nodes
  /\ MaxDecls \in Nat /\ MaxEdits \in Nat
  /\ NULL \notin Decls \cup [prefix : NsPrefixes, href : URIs \cup {NULL}]

(* def[n] is the list nsDef of n, ns[n] and attr[n] point to a declaration *)
(* and decl[d] is what is stored in it, NULL when it is not allocated.     *)
Names ==
  [def  : [Nodes -> Seq(Decls)],
   ns   : [Nodes -> Decls \cup {NULL}],
   attr : [Nodes -> Decls \cup {NULL}],
   decl : [Decls -> {NULL} \cup [prefix : NsPrefixes, href : URIs \cup {NULL}]]]

Init ==
  /\ parent = [n \in Nodes |-> NULL]
  /\ live = {}
  /\ names = [def  |-> [n \in Nodes |-> <<>>],
              ns   |-> [n \in Nodes |-> NULL],
              attr |-> [n \in Nodes |-> NULL],
              decl |-> [d \in Decls |-> NULL]]
  /\ edits = 0

-----------------------------------------------------------------------------
(* Trees *)

(* n and the elements above it *)
Above(up, n) ==
  LET path[m \in Nodes \cup {NULL}] == IF m = NULL THEN {} ELSE {m} \cup path[up[m]]
  IN  path[n]

Subtree(up, n) == {m \in live : n \in Above(up, m)}

(* A node of S that is above no other node of S *)
Lowest(up, S) == CHOOSE m \in S : \A k \in S : m \in Above(up, k) => k = m

-----------------------------------------------------------------------------
(* Declarations.  A store is a value of names. *)

Matches(store, d, prefix) ==
  store.decl[d].href # NULL /\ store.decl[d].prefix = prefix

(* xmlSearchNs: the declaration of prefix that n sees.  Above n it also    *)
(* trusts the pointers of the elements it passes.                          *)
SearchNs(store, up, n, prefix) ==
  LET Own(a)  == IF a = n \/ store.ns[a] = NULL THEN <<>> ELSE <<store.ns[a]>>
      Seen(a) == store.def[a] \o Own(a)
      Hit(a)  == SelectInSeq(Seen(a), LAMBDA d : Matches(store, d, prefix))
      found[a \in Nodes \cup {NULL}] ==
        IF a = NULL THEN NULL
        ELSE IF Hit(a) # 0 THEN Seen(a)[Hit(a)] ELSE found[up[a]]
  IN  found[n]

Unused(store) == {d \in Decls : store.decl[d] = NULL}

FreshDecl(store) == CHOOSE d \in Unused(store) : \A e \in Unused(store) : d <= e

Allocated(store, prefix, href) ==
  [store EXCEPT !.decl[FreshDecl(store)] = [prefix |-> prefix, href |-> href]]

Freed(store, ds) ==
  [store EXCEPT !.decl = [d \in Decls |-> IF d \in ds THEN NULL ELSE @[d]]]

AddNsDef(store, n, d) ==
  [store EXCEPT !.def[n] = IF d \in ToSet(@) THEN @ ELSE <<d>> \o @]

RemoveNsDef(store, n, d) == [store EXCEPT !.def[n] = RemoveFirst(@, d)]

(* xmlNewNs refuses a second declaration of a prefix on one element. *)
Redeclares(store, n, prefix) ==
  \E d \in ToSet(store.def[n]) : store.decl[d].prefix = prefix

NewNs(store, n, prefix, href) ==
  [Allocated(store, prefix, href) EXCEPT !.def[n] = Append(@, FreshDecl(store))]

-----------------------------------------------------------------------------
(* Reconciliation.  unused is the chain of the declarations found to be    *)
(* redundant, which are freed when the whole subtree has been visited.     *)

(* A faulty form: a declaration in scope is taken for its prefix alone. *)
ReconcileRef_prefixOnly(work, up, n, ref) ==
  LET store == work.store
      d     == store[ref][n]
      outer == SearchNs(store, up, up[n], store.decl[d].prefix)
      own   == d \in ToSet(store.def[n])
  IN  IF d # NULL /\ outer # NULL
      THEN [store  |-> [RemoveNsDef(store, n, d) EXCEPT ![ref][n] = outer],
            unused |-> work.unused \cup IF own THEN {d} ELSE {}]
      ELSE work

(* One pointer of n: it takes the declaration in scope above n when that   *)
(* one binds the same prefix to the same name, keeps a declaration of n,   *)
(* and otherwise gets a copy that n declares.                              *)
ReconcileRef(work, up, n, ref) ==
  LET store == work.store
      d     == store[ref][n]
      outer == SearchNs(store, up, up[n], store.decl[d].prefix)
      own   == d \in ToSet(store.def[n])
  IN  CASE d = NULL -> work
        [] d # NULL /\ outer # NULL /\ store.decl[outer].href = store.decl[d].href ->
             [store  |-> [RemoveNsDef(store, n, d) EXCEPT ![ref][n] = outer],
              unused |-> work.unused \cup IF own THEN {d} ELSE {}]
        [] OTHER ->
             LET from == IF own THEN RemoveNsDef(store, n, d)
                         ELSE Allocated(store, store.decl[d].prefix, store.decl[d].href)
                 to   == IF own THEN d ELSE FreshDecl(store)
             IN  [work EXCEPT !.store = [AddNsDef(from, n, to) EXCEPT ![ref][n] = to]]

ReconcileNode(work, up, n) ==
  ReconcileRef(ReconcileRef(work, up, n, "ns"), up, n, "attr")

(* _domReconcileNs visits the nodes of a subtree, parents first. *)
Reconciled(store, up, n) ==
  MapThenFoldSet(LAMBDA m, work : ReconcileNode(work, up, m),
                 [store |-> store, unused |-> {}],
                 LAMBDA m : m, LAMBDA S : Lowest(up, S), Subtree(up, n))

(* A faulty form: what was found to be redundant is not freed. *)
ReconcileNs_unfreed(store, up, n) == Reconciled(store, up, n).store

ReconcileNs(store, up, n) ==
  LET done == Reconciled(store, up, n)
  IN  Freed(done.store, done.unused)

(* The pointers that leave their element: each may need a copy. *)
Borrowed(n) ==
  {r \in Subtree(parent, n) \X Refs :
     names[r[2]][r[1]] \notin ToSet(names.def[r[1]]) \cup {NULL}}

(* Bound: there are structures left for the copies. *)
Room(k) == Cardinality(Unused(names)) >= k

-----------------------------------------------------------------------------
(* Operations *)

Edit(n) ==
  /\ n \in live
  /\ edits < MaxEdits
  /\ edits' = edits + 1
  /\ UNCHANGED <<parent, live>>

(* createElement and createElementNS *)
Create(n, prefix, href) ==
  /\ n \notin live
  /\ href = NULL => prefix = NULL
  /\ live' = live \cup {n}
  /\ \/ href = NULL /\ UNCHANGED names
     \/ /\ href # NULL /\ Room(1)
        /\ names' = [NewNs(names, n, prefix, href) EXCEPT !.ns[n] = FreshDecl(names)]
  /\ UNCHANGED <<parent, edits>>

(* _setNamespace; it also moves n into the namespace when activate is set. *)
SetNamespace(n, prefix, href, activate) ==
  LET seen  == SearchNs(names, parent, n, prefix)
      reuse == activate /\ seen # NULL /\ names.decl[seen].href = href
      clear == prefix = NULL /\ href = NULL
  IN  /\ Edit(n)
      /\ \/ /\ clear /\ activate /\ seen = NULL
            /\ names' = [names EXCEPT !.ns[n] = NULL]
         \/ /\ ~clear /\ reuse
            /\ names' = [names EXCEPT !.ns[n] = seen]
         \/ /\ ~clear /\ ~reuse /\ ~Redeclares(names, n, prefix) /\ Room(1)
            /\ names' = [NewNs(names, n, prefix, href) EXCEPT
                           !.ns[n] = IF activate THEN FreshDecl(names) ELSE @]

(* The place of the declaration of prefix on n that setNamespaceDecl* edits, 0 if none *)
Edited(n, prefix) ==
  SelectInSeq(names.def[n], LAMBDA d : names.decl[d] = [prefix |-> prefix, href |-> names.decl[d].href]
                                       /\ (prefix # NULL \/ names.decl[d].href # NULL))

(* domRemoveNsRefs: nothing below n points to d any more. *)
RemoveNsRefs(store, n, d) ==
  LET Cleared(ref) == [m \in Nodes |-> IF m \in Subtree(parent, n) /\ store[ref][m] = d
                                       THEN NULL ELSE store[ref][m]]
  IN  [store EXCEPT !.ns = Cleared("ns"), !.attr = Cleared("attr")]

SetNamespaceDeclURI(n, prefix, href) ==
  /\ Edit(n)
  /\ Edited(n, prefix) # 0
  /\ LET d    == names.def[n][Edited(n, prefix)]
         base == [names EXCEPT !.decl[d].href = href]
     IN  names' = IF href = NULL THEN RemoveNsRefs(base, n, d) ELSE base

SetNamespaceDeclPrefix(n, prefix, new) ==
  /\ Edit(n)
  /\ prefix # new
  /\ SearchNs(names, parent, n, new) = NULL
  /\ Edited(n, prefix) # 0
  /\ LET d == names.def[n][Edited(n, prefix)]
     IN  /\ names.decl[d].href = NULL => new = NULL
         /\ names' = [names EXCEPT !.decl[d].prefix = new]

(* What xmlGetNsList lists at n: the first declaration of each prefix *)
InScope(n) ==
  {d \in Decls : \E a \in Above(parent, n) :
     /\ d \in ToSet(names.def[a])
     /\ ~\E b \in Above(parent, n) \ Above(parent, a) :
          Redeclares(names, b, names.decl[d].prefix)}

(* _setAttributeNS uses a prefixed declaration of href in scope, else      *)
(* declares prefix on n, and gives up when n already declares it.          *)
SetAttributeNS(n, prefix, href) ==
  LET usable == {d \in InScope(n) : names.decl[d].href = href /\ names.decl[d].prefix # NULL}
  IN  /\ Edit(n)
      /\ names.attr[n] = NULL
      /\ \/ \E d \in usable : names' = [names EXCEPT !.attr[n] = d]
         \/ /\ usable = {} /\ prefix # NULL
            /\ ~Redeclares(names, n, prefix) /\ Room(1)
            /\ names' = [NewNs(names, n, prefix, href) EXCEPT !.attr[n] = FreshDecl(names)]

RemoveAttributeNS(n) ==
  /\ Edit(n)
  /\ names.attr[n] # NULL
  /\ names' = [names EXCEPT !.attr[n] = NULL]

(* A faulty form: the names of n are left as they were. *)
AppendChild_unreconciled(p, n) ==
  /\ {p, n} \subseteq live
  /\ n \notin Above(parent, p)
  /\ parent' = [parent EXCEPT ![n] = p]
  /\ UNCHANGED <<live, names, edits>>

(* domAppendChild and the other insertions *)
AppendChild(p, n) ==
  /\ {p, n} \subseteq live
  /\ n \notin Above(parent, p)
  /\ Room(Cardinality(Borrowed(n)))
  /\ parent' = [parent EXCEPT ![n] = p]
  /\ names' = ReconcileNs(names, parent', n)
  /\ UNCHANGED <<live, edits>>

(* A faulty form: as unbindNode does it. *)
RemoveChild_unreconciled(n) ==
  /\ n \in live
  /\ parent[n] # NULL
  /\ parent' = [parent EXCEPT ![n] = NULL]
  /\ UNCHANGED <<live, names, edits>>

(* domRemoveChild *)
RemoveChild(n) ==
  /\ n \in live
  /\ parent[n] # NULL
  /\ Room(Cardinality(Borrowed(n)))
  /\ parent' = [parent EXCEPT ![n] = NULL]
  /\ names' = ReconcileNs(names, parent', n)
  /\ UNCHANGED <<live, edits>>

(* unbindNode and removeChildNodes leave the pointers as they are. *)
Unbind(n) ==
  /\ n \in live
  /\ parent[n] # NULL
  /\ Careful => \A r \in Borrowed(n) : \E m \in Subtree(parent, n) :
                  names[r[2]][r[1]] \in ToSet(names.def[m])
  /\ parent' = [parent EXCEPT ![n] = NULL]
  /\ UNCHANGED <<live, names, edits>>

(* A faulty form: the elements below the root stay. *)
Drop_rootOnly(n) ==
  /\ n \in live
  /\ parent[n] = NULL
  /\ live' = live \ {n}
  /\ names' = [Freed(names, ToSet(names.def[n])) EXCEPT !.def[n] = <<>>, !.ns[n] = NULL,
                                                         !.attr[n] = NULL]
  /\ UNCHANGED <<parent, edits>>

(* The last Perl object of the tree of a root goes, whichever node it was  *)
(* for: the tree is freed, and each element with its declarations.         *)
Drop(n) ==
  LET dead == Subtree(parent, n)
      gone == UNION {ToSet(names.def[m]) : m \in dead}
      Kept(f, none) == [m \in Nodes |-> IF m \in dead THEN none ELSE f[m]]
  IN  /\ n \in live
      /\ parent[n] = NULL
      /\ live' = live \ dead
      /\ parent' = Kept(parent, NULL)
      /\ names' = [Freed(names, gone) EXCEPT !.def  = Kept(@, <<>>),
                                            !.ns   = Kept(@, NULL),
                                            !.attr = Kept(@, NULL)]
      /\ UNCHANGED edits

Next ==
  \E n \in Nodes :
    \/ \E prefix \in NsPrefixes, href \in URIs \cup {NULL} :
         \/ Create(n, prefix, href)
         \/ \E activate \in BOOLEAN : SetNamespace(n, prefix, href, activate)
         \/ SetNamespaceDeclURI(n, prefix, href)
    \/ \E prefix, new \in NsPrefixes : SetNamespaceDeclPrefix(n, prefix, new)
    \/ \E prefix \in NsPrefixes, href \in URIs : SetAttributeNS(n, prefix, href)
    \/ RemoveAttributeNS(n)
    \/ \E p \in Nodes : AppendChild(p, n)
    \/ RemoveChild(n)
    \/ Unbind(n)
    \/ Drop(n)

Spec == Init /\ [][Next]_vars

-----------------------------------------------------------------------------
(* Properties *)

(* The variables have values of their types. *)
TypeOK ==
  /\ parent \in [Nodes -> Nodes \cup {NULL}]
  /\ live \subseteq Nodes
  /\ \A n \in Nodes : parent[n] # NULL => {n, parent[n]} \subseteq live
  /\ names \in Names
  /\ edits \in 0..MaxEdits

(* A name points to a declaration of its element or of one above it, so    *)
(* that the declaration is in memory for as long as the name is.           *)
NamesInScope ==
  \A n \in live, ref \in Refs :
    names[ref][n] # NULL =>
      \E a \in Above(parent, n) : names[ref][n] \in ToSet(names.def[a])

(* Every allocated declaration is in the nsDef of exactly one element and  *)
(* once: none leaks, and none is freed twice.                              *)
DeclaredOnce ==
  \A d \in Decls :
    LET at == {p \in live \X (1..MaxDecls) :
                 p[2] \in DOMAIN names.def[p[1]] /\ names.def[p[1]][p[2]] = d}
    IN  Cardinality(at) = IF names.decl[d] = NULL THEN 0 ELSE 1

Said(n, ref) == IF names[ref][n] = NULL THEN NULL ELSE names.decl[names[ref][n]]

(* A move, with the freeing of redundant declarations in it, changes the   *)
(* namespace of no element and of no attribute that stays in memory, nor   *)
(* the prefix that it is written with.                                     *)
MovesKeepNamespaces ==
  [][\A n \in live \cap live' : parent'[n] # parent[n] =>
       \A m \in live \cap live', ref \in Refs : Said(m, ref)' = Said(m, ref)]_vars

(* What a reader of the serialised tree makes of a name.  It has only the  *)
(* declarations: the nearest element that declares the prefix counts, and  *)
(* what it says must be the namespace of the name.                         *)
Binds(store, a, prefix) == \E d \in ToSet(store.def[a]) : Matches(store, d, prefix)

Reads(store, up, n, name) ==
  \E a \in Above(up, n) :
    /\ Binds(store, a, name.prefix)
    /\ \A d \in ToSet(store.def[a]) : Matches(store, d, name.prefix) => store.decl[d] = name
    /\ \A b \in Above(up, n) : Binds(store, b, name.prefix) => b \in Above(up, a)

(* The names of n say in the serialised tree what their pointers say, and  *)
(* n does not declare one prefix for two namespaces.                       *)
Readable(store, up, n) ==
  /\ \A ref \in Refs : store[ref][n] # NULL => Reads(store, up, n, store.decl[store[ref][n]])
  /\ \A d, e \in ToSet(store.def[n]) :
       store.decl[d].href # NULL /\ Matches(store, e, store.decl[d].prefix) =>
         store.decl[d] = store.decl[e]

(* A subtree whose names are readable stays so where it is moved to, if    *)
(* the names above its new place are: what was declared above its old      *)
(* place is declared again below, and what the new place declares for      *)
(* another namespace is declared anew.                                     *)
MovesKeepNames ==
  [][\A n \in live \cap live' :
       /\ parent'[n] # parent[n]
       /\ \A m \in Subtree(parent, n) \cup Above(parent, parent'[n]) : Readable(names, parent, m)
       => \A m \in Subtree(parent, n) : Readable(names, parent, m)']_vars

(* No element below n declares a prefix twice. *)
DistinctPrefixes(n) ==
  \A m \in Subtree(parent, n) : \A d, e \in ToSet(names.def[m]) :
    names.decl[d].prefix = names.decl[e].prefix => d = e

(* A move declares a prefix on an element only when no declaration of it   *)
(* is in scope there to be reused (lib/XML/LibXML/DOM.pod).                *)
MovesDeclareOnce ==
  [][\A n \in live \cap live' :
       /\ parent'[n] # parent[n]
       /\ \A m \in Subtree(parent, n) : Readable(names, parent, m)
       /\ DistinctPrefixes(n)
       => DistinctPrefixes(n)']_vars
=============================================================================
