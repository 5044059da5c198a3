--------------------------- MODULE ProxyInvariants ---------------------------
(***************************************************************************)
(* The inductive invariants of the memory management, and what is said of  *)
(* a heap in the middle of a call.                                         *)
(*                                                                         *)
(* Sound says that the counts, handles and owners agree (Counted), and     *)
(* where documents and attributes stand (Planted).  It does not say that a *)
(* held node is in memory.  Safe adds the trees: parents are followed to a *)
(* root, and the nodes of a tree are in memory together (Treed); a root    *)
(* has a proxy (Homed); owners are followed to an end, and a proxy is of a *)
(* node in memory (Cased); a proxy has a reference (Wanted); and the owner *)
(* of a proxy keeps the node above it, itself or through the fragments it  *)
(* passes (Owned).  Between a change of the tree and the PmmFixOwner that  *)
(* follows it, Owned holds but for the moved nodes (Pending).              *)
(*                                                                         *)
(* ProxyNodeProofs proves both invariants.                                 *)
(***************************************************************************)
EXTENDS ProxyNode, InductionLemmas

-----------------------------------------------------------------------------
(* The counts. *)

(* Each proxy is counted, but for the references drops that are still to be released. *)
Owed(h, drops) ==
  \A q \in h.live :
    h.count[q] = h.handles[q] + Cardinality(Ownees(h, h.live, q)) + drops[q]

(* A count is that of the handles and of the proxies owned; a handle keeps
   its proxy, and a proxy its owner. *)
Counted(h) ==
  /\ h \in Heaps
  /\ \A q \in Nodes :
       h.count[q] = IF q \in h.live
                    THEN h.handles[q] + Cardinality(Ownees(h, h.live, q)) ELSE 0
  /\ \A q \in Nodes : h.handles[q] > 0 => q \in h.live
  /\ \A q \in h.live : h.owner[q] \in h.live \cup {NULL}

(* Documents have no parent, and a proxy while in memory; nothing is below
   an attribute. *)
Planted(h) ==
  /\ \A d \in Docs : h.parent[d] = NULL
  /\ \A m \in Nodes : h.parent[m] \notin Attrs
  /\ \A d \in Docs \cap h.alloc : d \in h.live

(* The inductive invariant of the counts. *)
Sound(h) == Counted(h) /\ Planted(h)

(* How many references to each proxy are still to be released. *)
Ledgers == [Nodes -> Nat]

(* Only trees and documents differ. *)
SameProxies(h, r) ==
  /\ r.live = h.live /\ r.owner = h.owner /\ r.count = h.count /\ r.handles = h.handles

-----------------------------------------------------------------------------
(* What the helpers that release references do to the counts. *)

(* What is left when owners are changed or references released. *)
Settled(h, r) ==
  /\ Sound(r)
  /\ r.handles = h.handles /\ r.live \subseteq h.live /\ r.alloc \subseteq h.alloc
  /\ \A m \in Nodes : r.parent[m] \in {h.parent[m], NULL}

(* Reown moves one reference for each proxy of S, from its owner to p: the
   heap in which p has been given them, and what is then released. *)
Rehung(h, S, p) ==
  LET own(v)  == IF v = p THEN NULL ELSE p
      rise(q) == Cardinality({v \in S : own(v) = q})
  IN  [h EXCEPT !.owner = [v \in Nodes |-> IF v \in S THEN own(v) ELSE @[v]],
                !.count = [q \in Nodes |-> @[q] + rise(q)]]

(* The references that the proxies of S hold on their owners. *)
Released(h, S) == [q \in Nodes |-> Cardinality({v \in S : h.owner[v] = q})]

(* A handle goes away and its reference with it: the heap without the
   handle, and the reference that is then released. *)
Dropping(h, n) == [h EXCEPT !.handles[n] = @ - 1]

(* One reference to n is to be released. *)
OneOf(n) == [q \in Nodes |-> IF q = n THEN 1 ELSE 0]

(* removeChildNodes gives up the reference to the fragment it made. *)
GivenUp(h, f) == [h EXCEPT !.count[f] = @ + 1]

-----------------------------------------------------------------------------
(* Following pointers upwards. *)

(* The nodes, and the end of every pointer. *)
Ends == Nodes \cup {NULL}

(* The values of parent and owner. *)
Pointers == [Nodes -> Ends]

(* Along F every node comes to an end. *)
Grounded(F) == Rooted(Nodes, F)

(* The nodes from n upwards along F, n among them. *)
Line(F, n) == Chain(Nodes, NULL, F, n)

(* G is F with the nodes of M under p. *)
IsMove(F, M, p, G) ==
  /\ G \in Pointers
  /\ \A x \in Nodes : G[x] = IF x \in M THEN p ELSE F[x]

(* No node of M is above another one. *)
Apart(F, M) == \A m \in M : Line(F, F[m]) \cap M = {}

-----------------------------------------------------------------------------
(* The trees and their owners. *)

(* Trees without cycles, each of one document *)
Treed(h) ==
  /\ Grounded(h.parent)
  /\ \A n \in Nodes : h.parent[n] # NULL =>
       n \in h.alloc /\ h.parent[n] \in h.alloc /\ h.doc[n] = h.doc[h.parent[n]]
  /\ \A f \in Frags : h.parent[f] = NULL
  /\ \A a \in Attrs : h.parent[a] \in Elems \cup {NULL}
  /\ \A d \in Docs \cap h.alloc : h.doc[d] = d

(* The root of a tree has a proxy, but for the nodes of L. *)
Homed(h, L) ==
  \A n \in h.alloc \ L : h.parent[n] = NULL => n \in h.live /\ n \notin Elems

(* Proxies are of nodes in memory and own no one that owns them; documents
   have no owner, and a fragment with children is owned by its document. *)
Cased(h) ==
  /\ Grounded(h.owner)
  /\ h.live \subseteq h.alloc
  /\ \A q \in Nodes : h.owner[q] # NULL => q \in h.live \ Docs /\ h.owner[q] \notin Attrs
  /\ \A n \in Nodes : h.parent[n] \in Frags => h.owner[h.parent[n]] = h.doc[h.parent[n]]

(* Each proxy is wanted by something, but for those of E. *)
Wanted(h, E) == \A q \in h.live \ E : h.count[q] > 0

(* A fragment passes the nodes it owns on to its own owner: the owners G
   of fragments only. *)
Passing(G) == [v \in Nodes |-> IF v \in Frags THEN G[v] ELSE NULL]

(* k, or what its fragments pass on to, is q or above q. *)
Keeps(F, G, k, q) == Line(Passing(G), k) \cap Line(F, q) # {}

(* The owner of x keeps the node above x. *)
Anchored(F, G, x) == Keeps(F, G, G[x], F[x])

(* Every proxy that is not of a root keeps the node above it, through its
   owner. *)
Owned(h) == \A x \in h.live : h.parent[x] # NULL => Anchored(h.parent, h.owner, x)

(* All but for nodes that have no proxy yet (L) or nothing that wants them
   yet (E). *)
Stable(h, L, E) == Sound(h) /\ Treed(h) /\ Homed(h, L) /\ Cased(h) /\ Wanted(h, E)

(* The inductive invariant, between the calls of the interface. *)
Safe(h) == Stable(h, {}, {}) /\ Owned(h)

(* Every node of K that is no root has a node of K above it. *)
Backed(F, K) == \A y \in K : F[y] # NULL => Line(F, F[y]) \cap K # {}

(* Trees are in memory as they were, or not at all. *)
SameTree(h, r) ==
  /\ r.alloc \subseteq h.alloc
  /\ \A n \in h.alloc : Line(h.parent, n) \cap r.alloc # {} => n \in r.alloc
  /\ \A n \in h.alloc : Line(h.parent, n) \cap h.live = {} => n \in r.alloc
  /\ \A n \in r.alloc : r.parent[n] = h.parent[n] /\ r.doc[n] = h.doc[n]
                        /\ Line(r.parent, n) = Line(h.parent, n)

-----------------------------------------------------------------------------
(* Changing owners: what PmmREFCNT_dec and PmmFixOwner may do, and leave. *)

(* What PmmREFCNT_dec leaves of a heap whose owners are made G. *)
Trimmed(h, G, r) ==
  /\ r.handles = h.handles /\ r.live \subseteq h.live /\ SameTree(h, r)
  /\ \A q \in r.live : r.owner[q] = G[q]
  /\ \A x \in r.live : h.parent[x] # NULL /\ Anchored(h.parent, G, x) =>
       Anchored(r.parent, r.owner, x)

(* Each proxy that survives is owned by what keeps it, or has another above it. *)
Moored(h, G, K) ==
  \A x \in K : h.parent[x] # NULL =>
    Anchored(h.parent, G, x) \/ Line(h.parent, h.parent[x]) \cap K # {}

(* The owners once those of S have the owner p *)
Given(h, S, p) == [v \in Nodes |-> IF v \in S THEN p ELSE h.owner[v]]

(* The proxies whose owner PmmFixOwner changes, when nothing below n is
   given n as its owner. *)
FixSet(h, n, p) == IF p # NULL /\ h.parent[n] # NULL THEN Reached(h, {n}, p) ELSE {n}

(* Owned, but for what is below the nodes of W. *)
OwnedBut(h, W) ==
  \A x \in h.live : h.parent[x] # NULL /\ Line(h.parent, x) \cap W = {} =>
    Anchored(h.parent, h.owner, x)

(* Below the moved nodes W a proxy has an owner, and one that moved with it
   is above it. *)
Loose(h, W) ==
  \A x \in h.live : \A w \in W : w \in Line(h.parent, x) =>
    /\ (x \in Attrs /\ x = w) \/ h.owner[x] # NULL
    /\ w \in Line(h.parent, h.owner[x]) => h.owner[x] \in Line(h.parent, h.parent[x])

(* All but that the owners below W are still to be fixed. *)
Pending(h, L, E, W) == Stable(h, L, E) /\ OwnedBut(h, W) /\ Loose(h, W)

(* The proxy n, which is one of the nodes M now below s, or the fragment
   they were in, is to get the owner p, which keeps s. *)
Placing(h, M, W, n, p, s) ==
  /\ \A m \in M : h.parent[m] = s
  /\ \/ n \in M
     \/ /\ n \in Frags /\ Below(h, n) = {} /\ W = {}
        /\ \A v \in h.live : h.owner[v] = n => Line(h.parent, v) \cap M # {}
  /\ p # n /\ p \notin Attrs /\ s \notin Attrs
  /\ s \in Frags => h.owner[s] \in Docs \cup {NULL}
  /\ Keeps(h.parent, h.owner, p, s)
  /\ M \cap Attrs \subseteq {n} /\ W \cap Attrs = {}
  /\ Line(h.parent, s) \cap (M \cup W) = {}
  /\ \A x \in Nodes : Line(h.parent, x) \cap M = {} \/ Line(h.parent, x) \cap W = {}

(* The owners G that PmmFixOwner gives, changing those of S *)
Giving(h, M, W, n, p, s, S, G) ==
  /\ G \in Pointers /\ Grounded(G) /\ G[n] = p
  /\ \A q \in Nodes : q \notin S => G[q] = h.owner[q]
  /\ Keeps(h.parent, G, p, s)
  /\ n \notin M => Keeps(h.parent, G, n, s)
  /\ \A x \in h.live : h.parent[x] # NULL /\ Line(h.parent, x) \cap (M \cup W) = {} =>
       x \notin S /\ Anchored(h.parent, G, x)

(* What is known of the owners below M in out, which PmmFixOwner made of h *)
FixedBelow(h, out, M, n, p) ==
  \A m \in M : \A x \in out.live \cap Subtree(out, m) :
    \/ out.owner[x] \in Subtree(out, m) \cup {m, p} \cup ({n} \cap Frags)
    \/ out.owner[x] \in Line(h.parent, h.parent[x])
    \/ n \in M /\ Anchored(h.parent, h.owner, x)

(* What PmmFixOwner leaves *)
Placed(h, M, n, out) ==
  /\ out.handles = h.handles /\ out.live \subseteq h.live /\ SameTree(h, out)
  /\ \A q \in out.live : q # n /\ Line(h.parent, q) \cap M = {} => out.owner[q] = h.owner[q]
  /\ n \in M => \A k \in out.live : Line(Passing(out.owner), k) = Line(Passing(h.owner), k)

(* A proxy of out keeps what the nodes of W are below. *)
Watched(h, out, W) ==
  W # {} => \E k \in out.live : \A w \in W : Keeps(h.parent, h.owner, k, h.parent[w])

-----------------------------------------------------------------------------
(* Changing trees, and making proxies. *)

(* h1 is h with the nodes of M below s, in the document of s. *)
Relinked(h, h1, M, s) ==
  /\ h1.alloc = h.alloc /\ h1.live = h.live /\ h1.owner = h.owner
  /\ h1.count = h.count /\ h1.handles = h.handles
  /\ IsMove(h.parent, M, s, h1.parent)
  /\ \A x \in Nodes : IF Line(h.parent, x) \cap M # {} THEN h1.doc[x] = h.doc[s]
                      ELSE \/ h1.doc[x] = h.doc[x]
                           \/ x \in Frags /\ \A y \in Nodes : h1.parent[y] # x

(* The nodes of M may be placed below s. *)
Placeable(h, M, s) ==
  /\ M \subseteq h.alloc \cap (Elems \cup Attrs) /\ Apart(h.parent, M)
  /\ s \in h.alloc \ Attrs /\ Line(h.parent, s) \cap M = {}
  /\ M \cap Attrs # {} => s \in Elems
  /\ s \in Frags => h.owner[s] = h.doc[s]

(* r is h with a proxy for n, which o owns. *)
Proxied(h, r, n, o) ==
  /\ r.alloc = h.alloc \cup {n} /\ r.live = h.live \cup {n}
  /\ r.parent = h.parent /\ IsMove(h.owner, {n}, o, r.owner)
  /\ \A x \in h.alloc : r.doc[x] = h.doc[x]
  /\ n \in Docs => r.doc[n] = n

(* o may own n: it keeps the tree of n. *)
Ownable(h, W, n, o) ==
  /\ o \in h.live \cup {NULL} /\ o \notin Attrs /\ (n \in Docs => o = NULL)
  /\ h.parent[n] = NULL => n \notin Elems
  /\ n \in Frags => n \notin h.alloc
  /\ h.parent[n] # NULL /\ Line(h.parent, n) \cap W = {} => Keeps(h.parent, h.owner, o, h.parent[n])
  /\ \A w \in W : w \in Line(h.parent, n) => o # NULL /\ w \notin Line(h.parent, o)

(* r is h with one more handle of n, whose owner is o if it had no proxy. *)
Blessed(h, n, o, r) ==
  /\ r \in Heaps /\ r.live = h.live \cup {n}
  /\ r.alloc = h.alloc /\ r.parent = h.parent /\ r.doc = h.doc
  /\ r.owner = [h.owner EXCEPT ![n] = IF n \notin h.live THEN o ELSE h.owner[n]]
  /\ r.handles = [h.handles EXCEPT ![n] = h.handles[n] + 1]
  /\ \A q \in Nodes :
       r.count[q] = h.count[q] + ((IF q = n THEN 1 ELSE 0)
                                  + (IF n \notin h.live /\ q = o THEN 1 ELSE 0))

(* g is h with memory for n. *)
WithMemory(h, g, n) ==
  /\ g \in Heaps /\ SameProxies(h, g) /\ g.parent = h.parent
  /\ g.alloc = h.alloc \cup {n} /\ \A x \in h.alloc : g.doc[x] = h.doc[x]
  /\ n \in Docs => g.doc[n] = n

(* n is held in r, and what is held in h is. *)
Holding(h, r, n) == r.handles[n] > 0 /\ \A q \in Nodes : h.handles[q] > 0 => r.handles[q] > 0

(* Only counts and handles differ. *)
SameShape(h, r) ==
  /\ r.alloc = h.alloc /\ r.parent = h.parent /\ r.doc = h.doc
  /\ r.live = h.live /\ r.owner = h.owner

(* Memory for n *)
Making(h, n, d) == [h EXCEPT !.alloc = @ \cup {n}, !.doc[n] = d]

(* h1 is h with the nodes of M moved below s. *)
Moving(h, L, M, s, h1) ==
  /\ L \in SUBSET Attrs /\ Pending(h, L, {}, {})
  /\ M \in SUBSET Nodes /\ Placeable(h, M, s)
  /\ Sound(h1) /\ Relinked(h, h1, M, s)

(* The proxy n enters s: as a node of M or as the fragment of the nodes of M. *)
Entering(h, M, n) ==
  \/ n \in M
  \/ /\ n \in Frags /\ \A m \in Nodes : h.parent[m] = n => m \in M
     /\ \A v \in h.live : h.owner[v] = n => Line(h.parent, v) \cap M # {}

(* p may become the owner of n, which enters s. *)
Receiving(h, M, n, p, s) ==
  /\ n \in h.live /\ p \in h.live /\ p # n /\ n # s /\ p \notin Attrs
  /\ Entering(h, M, n) /\ M \cap Attrs \subseteq {n}
  /\ Keeps(h.parent, h.owner, p, s)

(* g is h with the nodes M, and all below them, moved below s; their owners
   are as before, but for a proxy n that is new. *)
Carried(h, g, M, n, p, s) ==
  /\ Line(g.parent, s) = Line(h.parent, s)
  /\ \A x \in g.live : \A m \in M :
       /\ m \in Line(h.parent, x) <=> m \in Line(g.parent, x)
       /\ m \in Line(g.parent, x) =>
            /\ Line(g.parent, x) \subseteq Line(h.parent, x) \cup Line(h.parent, s)
            /\ \/ x \in h.live /\ g.owner[x] = h.owner[x]
               \/ x = n /\ n \notin h.live /\ g.owner[x] = p

(* h1 is h with the attribute a moved below the element s. *)
AttributePlaced(h, a, s, h1) ==
  /\ h1 \in Heaps /\ SameProxies(h, h1) /\ h1.alloc = h.alloc
  /\ \A x \in Nodes : h1.parent[x] = IF x = a THEN s ELSE h.parent[x]
  /\ \A x \in Nodes : h1.doc[x] = IF x = a THEN h.doc[s] ELSE h.doc[x]

(* S may be given the owner p: every proxy keeps being anchored. *)
Reowning(h, S, p) ==
  /\ S \in SUBSET (h.live \ Docs) /\ p \in h.live \cup {NULL} /\ p \notin Attrs
  /\ Line(h.owner, p) \cap S = {}
  /\ \A m \in Nodes : h.parent[m] \notin Frags \cap S
  /\ \A x \in h.live : h.parent[x] # NULL => Anchored(h.parent, Given(h, S, p), x)

(* PmmFixOwner reaches every proxy below n if none of them has the owner p. *)
Unreached(h, n, p) ==
  /\ n \in h.live \ Docs /\ p \in h.live /\ h.parent[n] # NULL
  /\ n \notin Line(h.parent, p)
  /\ \A v \in h.live : n \in Line(h.parent, v) => v \notin Docs /\ h.owner[v] # p

(* f is a fragment of its document that takes n in, where W have still to be fixed. *)
TakingIn(b, f, n, W) ==
  /\ f \in Frags \cap b.live /\ b.owner[f] = b.doc[f] /\ \A q \in Nodes : b.owner[q] # f
  /\ n \in Elems \cap b.live /\ b.handles[n] > 0
  /\ W \in SUBSET Elems
  /\ \A x \in Nodes : n \notin Line(b.parent, x) \/ Line(b.parent, x) \cap W = {}

(* n is kept, and every proxy below it is owned by f. *)
TakenIn(put, out, n, f) ==
  /\ n \in out.live /\ out.owner[n] = f
  /\ \A x \in out.live : n \in Line(put.parent, x) => out.owner[x] = f

(* b is h with the new fragment f of the document d. *)
FreshFragment(h, b, f, d) ==
  /\ f \in Frags \cap b.live /\ b.owner[f] = d /\ b.doc[f] = d
  /\ \A q \in Nodes : b.owner[q] # f
  /\ b.alloc = h.alloc \cup {f} /\ b.live = h.live \cup {f} /\ b.parent = h.parent
  /\ b.handles = h.handles /\ IsMove(h.owner, {f}, d, b.owner)
  /\ \A x \in h.alloc : b.doc[x] = h.doc[x]

(* n may leave its tree for the new fragment f. *)
Leaving(h, n, f, W) ==
  /\ n \in Elems \cap h.live /\ h.handles[n] > 0
  /\ f \in Frags \ (h.alloc \cup h.live) /\ h.doc[n] \in (Docs \cap h.live) \cup {NULL}
  /\ W \in SUBSET Elems
  /\ \A x \in Nodes : n \notin Line(h.parent, x) \/ Line(h.parent, x) \cap W = {}

(* A proxy that stays keeps what W hangs from. *)
Minding(h, out, n, W) ==
  W # {} =>
    \E k \in out.live \cap h.live : \A w \in W :
      /\ Keeps(h.parent, h.owner, k, h.parent[w])
      /\ h.parent[w] \in Nodes /\ n \notin Line(h.parent, h.parent[w])

(* n with its subtree went into the fragment f. *)
Reparented(h, out, n, f) ==
  /\ out.handles = h.handles /\ out.live \subseteq h.live \cup {f}
  /\ n \in out.live /\ out.owner[n] = f
  /\ \A x \in out.live \ {f} : out.owner[x] = IF n \in Line(h.parent, x) THEN f ELSE h.owner[x]
  /\ \A k \in out.live \ {f} : Line(Passing(out.owner), k) = Line(Passing(h.owner), k)
  /\ \A x \in out.alloc : out.parent[x] = IF x = n THEN f ELSE h.parent[x]
  /\ \A x \in out.alloc : n \notin Line(h.parent, x) => Line(out.parent, x) = Line(h.parent, x)
  /\ \A x \in h.alloc : n \notin Line(h.parent, x) /\ Line(h.parent, x) \cap out.alloc # {} =>
       x \in out.alloc

(* Once the nodes M are below s, old can leave the tree of s. *)
Replacing(h, M, s, old, to, tree) ==
  /\ Moving(h, {}, M, s, tree) /\ M \in SUBSET Elems
  /\ old \in Elems \cap h.live /\ old \notin M /\ h.parent[old] = s /\ h.handles[old] > 0
  /\ h.doc[old] \in (Docs \cap h.live) \cup {NULL}
  /\ to \in h.live /\ Keeps(h.parent, h.owner, to, s)

(* ... and what stays with s is as it was. *)
Staying(h, M, s, old, to, tree, out, f) ==
  /\ Pending(out, {}, {}, M) /\ Reparented(tree, out, old, f)
  /\ s \in out.alloc /\ out.handles = h.handles
  /\ out.live \subseteq h.live \cup {f}
  /\ Line(out.parent, s) \cap M = {} /\ Keeps(out.parent, out.owner, to, s)
  /\ \A m \in M : out.parent[m] = s

-----------------------------------------------------------------------------
(* Copies, and fragments that are emptied. *)

(* n is the root of new nodes of the document d: nothing in its tree has a proxy. *)
NewRoot(h, n, d) ==
  /\ n \in (Elems \cap h.alloc) \ h.live /\ h.parent[n] = NULL /\ h.doc[n] = d
  /\ \A x \in h.live : n \notin Line(h.parent, x)
  /\ d \in (Docs \cap h.live) \cup {NULL}

(* The copies that Copied makes of the nodes of S: the tree of S again. *)
Copying(h, n, S, g, d, c) ==
  /\ S \in SUBSET h.alloc /\ n \in S \cap Elems
  /\ g \in CopyMaps(h, S) /\ d \in (Docs \cap h.live) \cup {NULL}
  /\ \A m \in S : m # n => h.parent[m] \in S
  /\ c = Copied(h, n, S, g, d)

(* c is h with a new node g[m] of the document d for every m of S, linked
   as the originals are, and n's copy a root. *)
CopyIs(h, n, S, g, d, c) ==
  /\ c \in Heaps /\ SameProxies(h, c) /\ c.alloc = h.alloc \cup {g[m] : m \in S}
  /\ \A x \in Nodes : x \notin {g[m] : m \in S} => c.parent[x] = h.parent[x] /\ c.doc[x] = h.doc[x]
  /\ \A m \in S : c.doc[g[m]] = d
  /\ \A m \in S : c.parent[g[m]] = IF m = n THEN NULL ELSE g[h.parent[m]]
  /\ \A m \in S : g[m] \in Nodes /\ g[m] \notin h.alloc /\ g[m] \notin h.live
                  /\ g[m] \in Elems \cup Attrs /\ (m \in Attrs <=> g[m] \in Attrs)
  /\ \A m1, m2 \in S : g[m1] = g[m2] => m1 = m2

(* The children of s move to the new fragment f. *)
Emptying(h, s, f, b, moved) ==
  /\ Safe(h) /\ s \in h.live /\ h.doc[s] \in (Docs \cap h.live) \cup {NULL}
  /\ f \in Frags \ (h.alloc \cup h.live)
  /\ b = PmmNewFragment(h, f, h.doc[s])
  /\ moved = [b EXCEPT !.parent = [n \in Nodes |-> IF n \in Kids(h, s) THEN f ELSE @[n]]]
  /\ \A n \in Kids(h, s) \ h.live : Props(h, n) \cap h.live = {}

(* Then b is h with the fragment f, and moved is b with the children of s
   below f. *)
Emptied(h, s, f, b, moved) ==
  /\ Pending(b, {}, {f}, {}) /\ FreshFragment(h, b, f, h.doc[s])
  /\ Stable(moved, {}, {f}) /\ Kids(h, s) \in SUBSET Elems
  /\ moved.live = h.live \cup {f} /\ moved.owner = b.owner /\ moved.handles = h.handles
  /\ moved.alloc = h.alloc \cup {f}
  /\ \A x \in Nodes : moved.parent[x] = IF x \in Kids(h, s) THEN f ELSE h.parent[x]
  /\ \A x \in Nodes : Line(h.parent, x) \cap Kids(h, s) = {} => Line(moved.parent, x) = Line(h.parent, x)
  /\ \A x \in Nodes : Line(moved.parent, x) \cap Kids(h, s) = Line(h.parent, x) \cap Kids(h, s)

(* PmmFixOwnerNodes reaches every proxy below the children. *)
EmptiedRoots(m, K) == (K \cap m.live) \cup UNION {Kids(m, n) : n \in K \ m.live}

=============================================================================
