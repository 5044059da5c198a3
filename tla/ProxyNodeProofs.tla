-------------------------- MODULE ProxyNodeProofs --------------------------
(***************************************************************************)
(* The memory management of perl-libxml-mm.c is safe, whatever the         *)
(* sequence of calls.                                                      *)
(*                                                                         *)
(* First part: the invariant Sound.  The cascade of PmmREFCNT_dec frees    *)
(* the least set of proxies closed under losing their last reference; that *)
(* set is a fixed point, so every freed proxy has no reference but from    *)
(* freed ones, and what the others lose is what they are decremented by.   *)
(* Handlers that release and then go on are shown to leave the held nodes  *)
(* in place (Settled).  The theorems of this part assume only that no      *)
(* program calls replaceNode on a node whose root nothing holds            *)
(* ("UnheldRoot").                                                         *)
(*                                                                         *)
(* Second part: the invariant Safe.  When a root expires no node below it  *)
(* has a proxy that stays, so freeing the tree frees nothing that Perl     *)
(* holds.  The theorems of this part assume that no call of RiskyUses is   *)
(* made, each of which breaks a property proved here.                      *)
(*                                                                         *)
(* There is one lemma per helper of perl-libxml-mm.c and dom.c and one per *)
(* handler of LibXML.xs in each part.  Pointers are followed with Upwards; *)
(* what is needed of it is proved from the definition of its recursive     *)
(* function by the induction of InductionLemmas.                           *)
(***************************************************************************)
EXTENDS ProxyInvariants, FiniteSetTheorems, TLAPS

-----------------------------------------------------------------------------
(* Every set of nodes is finite. *)
LEMMA FiniteNodes ==
  ASSUME NEW S \in SUBSET Nodes
  PROVE  IsFiniteSet(S) /\ Cardinality(S) \in Nat
BY NodesAssumption, FS_Subset, FS_CardinalityType

(* The proxies that q owns are finitely many. *)
LEMMA OwneesFinite ==
  ASSUME NEW h \in Heaps, NEW S \in SUBSET Nodes, NEW q
  PROVE  /\ Ownees(h, S, q) \in SUBSET Nodes
         /\ IsFiniteSet(Ownees(h, S, q))
         /\ Cardinality(Ownees(h, S, q)) \in Nat
<1>1. Ownees(h, S, q) \in SUBSET Nodes
  BY DEF Ownees
<1>. QED BY <1>1, FiniteNodes

(* Fewer proxies own no more. *)
LEMMA OwneesMonotone ==
  ASSUME NEW h \in Heaps, NEW S \in SUBSET Nodes, NEW T \in SUBSET S, NEW q
  PROVE  /\ Ownees(h, T, q) \subseteq Ownees(h, S, q)
         /\ Cardinality(Ownees(h, T, q)) <= Cardinality(Ownees(h, S, q))
<1>1. Ownees(h, T, q) \subseteq Ownees(h, S, q)
  BY DEF Ownees
<1>. QED BY <1>1, OwneesFinite, FS_Subset

(* What q owns in S splits into what it owns in T and outside T. *)
LEMMA OwneesDifference ==
  ASSUME NEW h \in Heaps, NEW S \in SUBSET Nodes, NEW T \in SUBSET S, NEW q
  PROVE  Cardinality(Ownees(h, S \ T, q))
           = Cardinality(Ownees(h, S, q)) - Cardinality(Ownees(h, T, q))
<1>1. Ownees(h, S \ T, q) = Ownees(h, S, q) \ Ownees(h, T, q)
  BY DEF Ownees
<1>2. Ownees(h, S, q) \cap Ownees(h, T, q) = Ownees(h, T, q)
  BY DEF Ownees
<1>3. IsFiniteSet(Ownees(h, S, q))
  BY OwneesFinite
<1>4. Cardinality(Ownees(h, S, q) \ Ownees(h, T, q))
        = Cardinality(Ownees(h, S, q)) - Cardinality(Ownees(h, S, q) \cap Ownees(h, T, q))
  BY <1>3, FS_Difference
<1>. QED BY <1>1, <1>2, <1>4

-----------------------------------------------------------------------------
(* Expired(h, drops) is a fixed point of the cascade. *)

(* The more proxies are freed, the fewer references remain. *)
LEMMA RemainingMonotone ==
  ASSUME NEW h \in Heaps, NEW drops \in Ledgers, NEW q \in Nodes,
         NEW D \in SUBSET Nodes, NEW E \in SUBSET D
  PROVE  /\ Remaining(h, drops, D, q) \in Int
         /\ Remaining(h, drops, D, q) <= Remaining(h, drops, E, q)
         /\ Expires(h, drops, E, q) => Expires(h, drops, D, q)
<1>1. /\ h.count[q] \in Int /\ drops[q] \in Nat
      /\ Cardinality(Ownees(h, D, q)) \in Nat /\ Cardinality(Ownees(h, E, q)) \in Nat
  BY OwneesFinite DEF Heaps, Ledgers
<1>2. /\ Ownees(h, E, q) \subseteq Ownees(h, D, q)
      /\ Cardinality(Ownees(h, E, q)) <= Cardinality(Ownees(h, D, q))
  BY OwneesMonotone
<1>3. /\ Remaining(h, drops, D, q) \in Int /\ Remaining(h, drops, E, q) \in Int
      /\ Remaining(h, drops, D, q) <= Remaining(h, drops, E, q)
  BY <1>1, <1>2 DEF Remaining
<1>4. ASSUME Expires(h, drops, E, q) PROVE Expires(h, drops, D, q)
  <2>1. drops[q] > 0 \/ Ownees(h, D, q) # {}
    BY <1>2, <1>4 DEF Expires
  <2>. QED BY <2>1, <1>3, <1>4 DEF Expires
<1>. QED BY <1>3, <1>4

(* The least closed set of proxies is closed under the cascade. *)
LEMMA ExpiredClosed ==
  ASSUME NEW h \in Heaps, NEW drops \in Ledgers
  PROVE  CascadeClosed(h, drops, Expired(h, drops))
<1>. DEFINE dead == Expired(h, drops)
<1>1. h.live \in SUBSET Nodes /\ Losable(h, drops) \in SUBSET h.live
  BY DEF Heaps, Losable
<1>2. dead \in SUBSET Losable(h, drops)
  BY DEF Expired
<1>. SUFFICES ASSUME NEW q \in h.live, Expires(h, drops, dead, q)
              PROVE  q \in dead
  BY DEF CascadeClosed
<1>3. q \in Losable(h, drops)
  <2>1. Remaining(h, drops, h.live, q) <= Remaining(h, drops, dead, q)
    BY <1>1, <1>2, RemainingMonotone
  <2>2. Remaining(h, drops, h.live, q) \in Int /\ Remaining(h, drops, dead, q) \in Int
    BY <1>1, <1>2, RemainingMonotone
  <2>. QED BY <2>1, <2>2 DEF Expires, Losable
<1>4. ASSUME NEW D \in SUBSET Losable(h, drops), CascadeClosed(h, drops, D)
      PROVE  q \in D
  <2>1. dead \in SUBSET D
    BY <1>4 DEF Expired
  <2>2. Expires(h, drops, D, q)
    BY <2>1, <1>1, RemainingMonotone
  <2>. QED BY <2>2, <1>4 DEF CascadeClosed
<1>. QED BY <1>3, <1>4 DEF Expired

(* Every proxy that is freed has no reference left but from freed ones. *)
LEMMA ExpiredExpires ==
  ASSUME NEW h \in Heaps, NEW drops \in Ledgers, NEW q \in Expired(h, drops)
  PROVE  q \in h.live /\ Expires(h, drops, Expired(h, drops), q)
<1>. DEFINE dead == Expired(h, drops)
            D    == dead \ {q}
<1>1. h.live \in SUBSET Nodes /\ dead \in SUBSET Losable(h, drops)
      /\ Losable(h, drops) \in SUBSET h.live
  BY DEF Heaps, Losable, Expired
<1>. SUFFICES ASSUME ~ Expires(h, drops, dead, q) PROVE FALSE
  BY <1>1
<1>2. CascadeClosed(h, drops, D)
  <2>. SUFFICES ASSUME NEW r \in h.live, Expires(h, drops, D, r) PROVE r \in D
    BY DEF CascadeClosed
  <2>1. Expires(h, drops, dead, r)
    BY <1>1, RemainingMonotone
  <2>2. r \in dead
    BY <2>1, ExpiredClosed DEF CascadeClosed
  <2>. QED BY <2>1, <2>2
<1>3. q \in D
  BY <1>1, <1>2 DEF Expired
<1>. QED BY <1>3

-----------------------------------------------------------------------------
(* Releasing references. *)

(* A subtree is made of nodes. *)
LEMMA SubtreeFacts ==
  ASSUME NEW h, NEW n
  PROVE  Subtree(h, n) \subseteq h.alloc /\ (n \in h.alloc => n \in Subtree(h, n))
BY DEF Subtree

(* What PmmREFCNT_dec makes of each field. *)
LEMMA DecFields ==
  ASSUME NEW h \in Heaps, NEW drops \in Ledgers
  PROVE  LET r    == PmmREFCNT_dec(h, drops)
             dead == Expired(h, drops)
         IN  /\ r \in Heaps
             /\ dead \subseteq h.live
             /\ r.live = h.live \ dead
             /\ r.alloc = h.alloc \ FreedWith(h, dead)
             /\ r.handles = h.handles
             /\ r.owner = [q \in Nodes |-> IF q \in dead THEN NULL ELSE h.owner[q]]
             /\ r.count = [q \in Nodes |-> IF q \in h.live \ dead
                                           THEN Remaining(h, drops, dead, q) ELSE 0]
             /\ \A m \in Nodes : r.parent[m] \in {h.parent[m], NULL}
<1>. DEFINE dead == Expired(h, drops)
            F    == FreedWith(h, dead)
            x    == xmlFreed(h, F)
            r    == PmmREFCNT_dec(h, drops)
            own  == [q \in Nodes |-> IF q \in dead THEN NULL ELSE h.owner[q]]
            cnt  == [q \in Nodes |-> IF q \in h.live \ dead
                                     THEN Remaining(h, drops, dead, q) ELSE 0]
<1>1. dead \in SUBSET h.live /\ h.live \in SUBSET Nodes
  BY DEF Expired, Losable, Heaps
<1>2. /\ x \in Heaps /\ x.live = h.live /\ x.alloc = h.alloc \ F
      /\ x.handles = h.handles /\ x.owner = h.owner
      /\ \A m \in Nodes : x.parent[m] \in {h.parent[m], NULL}
  BY Zenon DEF xmlFreed, Heaps
<1>3. \A q \in Nodes : Remaining(h, drops, dead, q) \in Int
  BY <1>1, RemainingMonotone
<1>4. own \in [Nodes -> Nodes \cup {NULL}] /\ cnt \in [Nodes -> Int]
  BY <1>3 DEF Heaps
<1>5. r = [x EXCEPT !.live = h.live \ dead, !.count = cnt, !.owner = own]
  BY <1>2 DEF PmmREFCNT_dec
<1>. HIDE DEF dead, F, x, r, own, cnt
<1>6. /\ r \in Heaps /\ r.live = h.live \ dead /\ r.alloc = x.alloc /\ r.handles = x.handles
      /\ r.owner = own /\ r.count = cnt /\ r.parent = x.parent
  BY <1>1, <1>2, <1>4, <1>5 DEF Heaps
<1>. QED BY <1>1, <1>2, <1>6 DEF dead, F, x, r, own, cnt

(* A proxy that is freed has no handle, and owns no proxy that is kept. *)
LEMMA ExpiredUnreferenced ==
  ASSUME NEW h \in Heaps, NEW drops \in Ledgers, Owed(h, drops),
         NEW q \in Expired(h, drops)
  PROVE  /\ h.handles[q] = 0
         /\ \A v \in h.live \ Expired(h, drops) : h.owner[v] # q
<1>. DEFINE dead == Expired(h, drops)
            rest == Ownees(h, h.live \ dead, q)
<1>1. h.live \in SUBSET Nodes /\ dead \in SUBSET h.live /\ q \in Nodes /\ q \in h.live
  BY DEF Heaps, Expired, Losable
<1>2. Remaining(h, drops, dead, q) <= 0
  BY ExpiredExpires DEF Expires
<1>3. h.count[q] = h.handles[q] + Cardinality(Ownees(h, h.live, q)) + drops[q]
  BY <1>1 DEF Owed
<1>4. Cardinality(rest) = Cardinality(Ownees(h, h.live, q)) - Cardinality(Ownees(h, dead, q))
  BY <1>1, OwneesDifference
<1>5. /\ h.handles[q] \in Nat /\ drops[q] \in Nat
      /\ Cardinality(rest) \in Nat
      /\ Cardinality(Ownees(h, h.live, q)) \in Nat
      /\ Cardinality(Ownees(h, dead, q)) \in Nat
  <2>1. h.live \ dead \in SUBSET Nodes /\ dead \in SUBSET Nodes
    BY <1>1
  <2>. QED BY <1>1, <2>1, OwneesFinite DEF Heaps, Ledgers
<1>6. h.handles[q] = 0 /\ Cardinality(rest) = 0
  BY <1>2, <1>3, <1>4, <1>5 DEF Remaining
<1>7. rest = {}
  <2>1. h.live \ dead \in SUBSET Nodes
    BY <1>1
  <2>. QED BY <1>6, <2>1, OwneesFinite, FS_EmptySet
<1>. QED BY <1>6, <1>7 DEF Ownees

(* Proxies that are held, or own one another, outlive a release. *)
LEMMA DecKeeps ==
  ASSUME NEW h \in Heaps, NEW drops \in Ledgers, Owed(h, drops),
         NEW C \in SUBSET h.live, \A r \in C : h.handles[r] > 0 \/ Ownees(h, C, r) # {}
  PROVE  C \subseteq PmmREFCNT_dec(h, drops).live
<1>. DEFINE dead == Expired(h, drops)
            D    == dead \ C
<1>1. /\ h.live \in SUBSET Nodes /\ dead \in SUBSET Losable(h, drops)
      /\ Losable(h, drops) \in SUBSET h.live /\ D \in SUBSET Losable(h, drops)
      /\ D \in SUBSET dead /\ dead \in SUBSET Nodes /\ D \in SUBSET h.live
  BY DEF Heaps, Losable, Expired
<1>2. CascadeClosed(h, drops, D)
  <2>. SUFFICES ASSUME NEW r \in h.live, Expires(h, drops, D, r) PROVE r \in D
    BY DEF CascadeClosed
  <2>1. r \in dead /\ r \in Nodes
    <3>1. Expires(h, drops, dead, r)
      BY <1>1, RemainingMonotone
    <3>. QED BY <1>1, <3>1, ExpiredClosed DEF CascadeClosed
  <2>. SUFFICES ASSUME r \in C PROVE FALSE
    BY <2>1
  <2>. DEFINE rest == Ownees(h, h.live \ D, r)
  <2>2. Remaining(h, drops, D, r) <= 0
    BY DEF Expires
  <2>3. h.count[r] = h.handles[r] + Cardinality(Ownees(h, h.live, r)) + drops[r]
    BY DEF Owed
  <2>4. Cardinality(rest) = Cardinality(Ownees(h, h.live, r)) - Cardinality(Ownees(h, D, r))
    BY <1>1, OwneesDifference
  <2>5. /\ h.handles[r] \in Nat /\ drops[r] \in Nat
        /\ IsFiniteSet(rest) /\ Cardinality(rest) \in Nat
        /\ Cardinality(Ownees(h, h.live, r)) \in Nat
        /\ Cardinality(Ownees(h, D, r)) \in Nat
    <3>1. h.live \ D \in SUBSET Nodes /\ D \in SUBSET Nodes
      BY <1>1
    <3>. QED BY <1>1, <2>1, <3>1, OwneesFinite DEF Heaps, Ledgers
  <2>6. Ownees(h, C, r) \subseteq rest
    BY DEF Ownees
  <2>. HIDE DEF rest, D
  <2>7. h.handles[r] = 0 /\ Cardinality(rest) = 0
    BY <2>2, <2>3, <2>4, <2>5 DEF Remaining
  <2>8. rest = {}
    BY <2>5, <2>7, FS_EmptySet
  <2>. QED BY <2>6, <2>7, <2>8
<1>3. dead \subseteq D
  BY <1>1, <1>2 DEF Expired
<1>4. PmmREFCNT_dec(h, drops).live = h.live \ dead
  BY DecFields
<1>. QED BY <1>3, <1>4

(* PmmREFCNT_dec settles the debts of a counted heap. *)
LEMMA DecCounted ==
  ASSUME NEW h \in Heaps, NEW drops \in Ledgers, Owed(h, drops),
         \A q \in Nodes : h.handles[q] > 0 => q \in h.live,
         \A q \in h.live : h.owner[q] \in h.live \cup {NULL}
  PROVE  Counted(PmmREFCNT_dec(h, drops))
<1>. DEFINE r    == PmmREFCNT_dec(h, drops)
            dead == Expired(h, drops)
<1>1. /\ r \in Heaps /\ dead \in SUBSET h.live /\ h.live \in SUBSET Nodes
      /\ r.live = h.live \ dead /\ r.handles = h.handles
      /\ r.owner = [q \in Nodes |-> IF q \in dead THEN NULL ELSE h.owner[q]]
      /\ r.count = [q \in Nodes |-> IF q \in h.live \ dead
                                    THEN Remaining(h, drops, dead, q) ELSE 0]
  BY DecFields DEF Heaps
<1>. HIDE DEF r, dead
<1>2. ASSUME NEW q \in Nodes
      PROVE  r.count[q] = IF q \in r.live
                          THEN r.handles[q] + Cardinality(Ownees(r, r.live, q)) ELSE 0
  <2>1. CASE q \notin r.live
    BY <1>1, <2>1
  <2>2. CASE q \in r.live
    <3>1. r.count[q] = Remaining(h, drops, dead, q)
      BY <1>1, <2>2
    <3>2. Ownees(r, r.live, q) = Ownees(h, h.live \ dead, q)
      BY <1>1 DEF Ownees
    <3>3. Cardinality(Ownees(h, h.live \ dead, q))
            = Cardinality(Ownees(h, h.live, q)) - Cardinality(Ownees(h, dead, q))
      BY <1>1, OwneesDifference
    <3>4. h.count[q] = h.handles[q] + Cardinality(Ownees(h, h.live, q)) + drops[q]
      BY <1>1, <2>2 DEF Owed
    <3>5. /\ h.handles[q] \in Nat /\ drops[q] \in Nat
          /\ Cardinality(Ownees(h, h.live, q)) \in Nat
          /\ Cardinality(Ownees(h, dead, q)) \in Nat
      <4>1. dead \in SUBSET Nodes
        BY <1>1
      <4>. QED BY <1>1, <4>1, OwneesFinite DEF Heaps, Ledgers
    <3>. QED BY <1>1, <2>2, <3>1, <3>2, <3>3, <3>4, <3>5 DEF Remaining
  <2>. QED BY <2>1, <2>2
<1>3. ASSUME NEW q \in Nodes, r.handles[q] > 0 PROVE q \in r.live
  <2>1. q \in h.live
    BY <1>1, <1>3
  <2>2. q \notin dead
    <3>1. q \in dead => h.handles[q] = 0
      BY ExpiredUnreferenced DEF dead
    <3>. QED BY <1>1, <1>3, <3>1
  <2>. QED BY <1>1, <2>1, <2>2
<1>4. ASSUME NEW q \in r.live PROVE r.owner[q] \in r.live \cup {NULL}
  <2>1. q \in h.live \ dead /\ r.owner[q] = h.owner[q]
    BY <1>1, <1>4
  <2>2. h.owner[q] \notin dead
    BY <2>1, ExpiredUnreferenced DEF dead
  <2>. QED BY <1>1, <2>1, <2>2
<1>. QED BY <1>1, <1>2, <1>3, <1>4 DEF Counted, r

(* PmmREFCNT_dec frees no document whose proxy it keeps. *)
LEMMA DecPlanted ==
  ASSUME NEW h \in Heaps, NEW drops \in Ledgers, Planted(h)
  PROVE  Planted(PmmREFCNT_dec(h, drops))
<1>. DEFINE r    == PmmREFCNT_dec(h, drops)
            dead == Expired(h, drops)
<1>1. /\ r.live = h.live \ dead /\ r.alloc = h.alloc \ FreedWith(h, dead)
      /\ \A m \in Nodes : r.parent[m] \in {h.parent[m], NULL}
  BY DecFields
<1>. HIDE DEF r, dead
<1>2. Docs \subseteq Nodes /\ NULL \notin Attrs /\ Docs \cap Attrs = {}
  BY NodesAssumption DEF Nodes
<1>3. ASSUME NEW d \in Docs \cap r.alloc PROVE d \in r.live
  <2>1. d \in h.alloc /\ d \in h.live /\ d \notin FreedWith(h, dead) /\ h.parent[d] = NULL
    BY <1>1, <1>3 DEF Planted
  <2>2. d \in dead => FreesNode(h, d)
    BY <1>2, <2>1 DEF FreesNode
  <2>3. d \notin dead
    BY <2>1, <2>2, SubtreeFacts DEF FreedWith
  <2>. QED BY <1>1, <2>1, <2>3
<1>. QED BY <1>1, <1>2, <1>3 DEF Planted, r

-----------------------------------------------------------------------------
(* Changing the tree only. *)

(* What leaves the proxies alone leaves the counts exact. *)
LEMMA TreeCounted ==
  ASSUME NEW h, NEW r \in Heaps, Counted(h), SameProxies(h, r)
  PROVE  Counted(r)
BY DEF Counted, SameProxies, Ownees

(* domUnlinkNode touches no proxy. *)
LEMMA UnlinkSound ==
  ASSUME NEW h, Sound(h), NEW n \in Nodes
  PROVE  /\ Sound(Unlink(h, n)) /\ SameProxies(h, Unlink(h, n))
         /\ Unlink(h, n).doc = h.doc /\ Unlink(h, n).alloc = h.alloc
<1>1. /\ Unlink(h, n) \in Heaps /\ SameProxies(h, Unlink(h, n))
      /\ Unlink(h, n).doc = h.doc /\ Unlink(h, n).alloc = h.alloc
      /\ Unlink(h, n).parent = [h.parent EXCEPT ![n] = NULL]
  BY DEF Sound, Counted, Heaps, Unlink, SameProxies
<1>2. Planted(Unlink(h, n))
  <2>1. NULL \notin Attrs /\ Docs \subseteq Nodes
    BY NodesAssumption DEF Nodes
  <2>2. Planted(h) /\ h \in Heaps
    BY DEF Sound, Counted
  <2>. QED BY <1>1, <2>1, <2>2 DEF Planted, Heaps, SameProxies
<1>. QED BY <1>1, <1>2, TreeCounted DEF Sound

(* xmlAddChild touches no proxy. *)
LEMMA AddChildSound ==
  ASSUME NEW h, Sound(h), NEW n \in Nodes \ Docs, NEW p \in Nodes \ Attrs
  PROVE  /\ Sound(AddChild(h, p, n)) /\ SameProxies(h, AddChild(h, p, n))
         /\ AddChild(h, p, n).doc = h.doc /\ AddChild(h, p, n).alloc = h.alloc
<1>1. /\ AddChild(h, p, n) \in Heaps /\ SameProxies(h, AddChild(h, p, n))
      /\ AddChild(h, p, n).doc = h.doc /\ AddChild(h, p, n).alloc = h.alloc
      /\ AddChild(h, p, n).parent = [h.parent EXCEPT ![n] = p]
  BY DEF Sound, Counted, Heaps, AddChild, SameProxies
<1>2. Planted(AddChild(h, p, n))
  <2>1. Planted(h) /\ h \in Heaps
    BY DEF Sound, Counted
  <2>. QED BY <1>1, <2>1 DEF Planted, Heaps, SameProxies
<1>. QED BY <1>1, <1>2, TreeCounted DEF Sound

(* xmlSetTreeDoc touches no proxy. *)
LEMMA SetTreeDocSound ==
  ASSUME NEW h, Sound(h), NEW n \in Nodes, NEW d \in Docs \cup {NULL}
  PROVE  /\ Sound(SetTreeDoc(h, n, d)) /\ SameProxies(h, SetTreeDoc(h, n, d))
         /\ SetTreeDoc(h, n, d).alloc = h.alloc
         /\ SetTreeDoc(h, n, d).parent = h.parent
         /\ \A m \in Nodes : SetTreeDoc(h, n, d).doc[m] \in {h.doc[m], d}
<1>1. /\ SetTreeDoc(h, n, d) \in Heaps /\ SameProxies(h, SetTreeDoc(h, n, d))
      /\ SetTreeDoc(h, n, d).alloc = h.alloc /\ SetTreeDoc(h, n, d).parent = h.parent
      /\ \A m \in Nodes : SetTreeDoc(h, n, d).doc[m] \in {h.doc[m], d}
  BY DEF Sound, Counted, Heaps, SetTreeDoc, SameProxies
<1>2. Planted(SetTreeDoc(h, n, d))
  BY <1>1 DEF Sound, Planted, SameProxies
<1>. QED BY <1>1, <1>2, TreeCounted DEF Sound

(* domAppendChild and the like touch no proxy. *)
LEMMA GraftSound ==
  ASSUME NEW h, Sound(h), NEW s \in Nodes \ Attrs, NEW n \in Elems \cup Frags
  PROVE  /\ Sound(Graft(h, s, n)) /\ SameProxies(h, Graft(h, s, n))
         /\ Graft(h, s, n).alloc = h.alloc
         /\ \A m \in Nodes : Graft(h, s, n).doc[m] \in {h.doc[m], h.doc[s]}
<1>. DEFINE there == IF h.doc[n] = h.doc[s] THEN h ELSE SetTreeDoc(h, n, h.doc[s])
            links == [m \in Nodes |-> IF m \in Moved(h, n) THEN s
                                      ELSE IF m = n THEN NULL ELSE there.parent[m]]
            r     == Graft(h, s, n)
<1>1. /\ n \in Nodes \ Docs /\ h.doc[s] \in Docs \cup {NULL} /\ h \in Heaps
      /\ NULL \notin Nodes /\ Docs \subseteq Nodes /\ NULL \notin Attrs
  BY NodesAssumption DEF Nodes, Sound, Counted, Heaps
<1>2. /\ Sound(there) /\ SameProxies(h, there) /\ there.alloc = h.alloc
      /\ there.parent = h.parent
      /\ \A m \in Nodes : there.doc[m] \in {h.doc[m], h.doc[s]}
  <2>1. CASE h.doc[n] = h.doc[s]
    BY <2>1 DEF SameProxies
  <2>2. CASE h.doc[n] # h.doc[s]
    <3>. DEFINE moved == SetTreeDoc(h, n, h.doc[s])
    <3>1. /\ Sound(moved) /\ SameProxies(h, moved) /\ moved.alloc = h.alloc
          /\ moved.parent = h.parent
          /\ \A m \in Nodes : moved.doc[m] \in {h.doc[m], h.doc[s]}
      BY ZenonT(60), <1>1, SetTreeDocSound
    <3>. QED BY <2>2, <3>1
  <2>. QED BY <2>1, <2>2
<1>. HIDE DEF there
<1>3. links \in [Nodes -> Nodes \cup {NULL}]
  BY <1>1, <1>2 DEF Heaps
<1>4. there \in Heaps /\ r = [there EXCEPT !.parent = links]
  BY <1>2 DEF Graft, there, Sound, Counted
<1>. HIDE DEF links, r
<1>5. /\ r \in Heaps /\ r.parent = links /\ r.alloc = there.alloc /\ r.doc = there.doc
      /\ SameProxies(there, r)
  BY <1>3, <1>4 DEF Heaps, SameProxies
<1>6. Planted(r)
  <2>1. \A d \in Docs : d \notin Moved(h, n)
    <3>1. \A d \in Docs : h.parent[d] = NULL
      BY DEF Sound, Planted
    <3>. QED BY <1>1, <3>1 DEF Moved, Kids, Below
  <2>2. \A d \in Docs : links[d] = NULL
    BY <1>1, <1>2, <2>1 DEF links, Sound, Planted
  <2>3. \A m \in Nodes : links[m] \notin Attrs
    BY <1>1, <1>2 DEF links, Sound, Planted
  <2>4. \A d \in Docs \cap r.alloc : d \in r.live
    BY <1>2, <1>5 DEF Sound, Planted, SameProxies
  <2>. QED BY <1>5, <2>2, <2>3, <2>4 DEF Planted
<1>. QED BY <1>2, <1>5, <1>6, TreeCounted DEF Sound, SameProxies, r

(* Memory without proxies may be freed. *)
LEMMA FreedSound ==
  ASSUME NEW h, Sound(h), NEW S
  PROVE  /\ Sound(xmlFreed(h, S)) /\ SameProxies(h, xmlFreed(h, S))
         /\ xmlFreed(h, S).alloc \subseteq h.alloc
<1>. DEFINE r == xmlFreed(h, S)
<1>1. /\ r \in Heaps /\ SameProxies(h, r) /\ r.alloc = h.alloc \ S
      /\ \A m \in Nodes : r.parent[m] \in {h.parent[m], NULL}
  BY Zenon DEF Sound, Counted, Heaps, xmlFreed, SameProxies
<1>. HIDE DEF r
<1>2. NULL \notin Attrs /\ Docs \subseteq Nodes
  BY NodesAssumption DEF Nodes
<1>3. Planted(r)
  BY <1>1, <1>2 DEF Sound, Planted, SameProxies
<1>. QED BY <1>1, <1>3, TreeCounted DEF Sound, r

-----------------------------------------------------------------------------
(* Creating proxies and handles. *)

(* A set with a new member has one more. *)
LEMMA OneMore ==
  ASSUME NEW S \in SUBSET Nodes, NEW n \in Nodes \ S
  PROVE  Cardinality(S \cup {n}) = Cardinality(S) + 1
BY FiniteNodes, FS_AddElement

(* What PmmNodeToSv makes of each field. *)
LEMMA NodeToSvFields ==
  ASSUME NEW h \in Heaps, NEW n \in Nodes, NEW o \in Nodes \cup {NULL},
         NEW r, r = PmmNodeToSv(h, n, o)
  PROVE  /\ r \in Heaps
         /\ r.live = h.live \cup {n}
         /\ r.alloc = h.alloc /\ r.parent = h.parent /\ r.doc = h.doc
         /\ r.owner = [h.owner EXCEPT ![n] = IF n \notin h.live THEN o ELSE h.owner[n]]
         /\ r.handles = [h.handles EXCEPT ![n] = h.handles[n] + 1]
         /\ \A q \in Nodes :
              r.count[q] = h.count[q] + ((IF q = n THEN 1 ELSE 0)
                                         + (IF n \notin h.live /\ q = o THEN 1 ELSE 0))
<1>. DEFINE cnt == [q \in Nodes |->
              h.count[q] + ((IF q = n THEN 1 ELSE 0)
                            + (IF n \notin h.live /\ q = o THEN 1 ELSE 0))]
            hnd == [h.handles EXCEPT ![n] = h.handles[n] + 1]
            own == [h.owner EXCEPT ![n] = IF n \notin h.live THEN o ELSE h.owner[n]]
<1>1. cnt \in [Nodes -> Int] /\ hnd \in [Nodes -> Nat] /\ own \in [Nodes -> Nodes \cup {NULL}]
  BY DEF Heaps
<1>2. r = [h EXCEPT !.live = h.live \cup {n}, !.owner = own, !.count = cnt, !.handles = hnd]
  BY DEF PmmNodeToSv, Heaps
<1>. HIDE DEF cnt, hnd, own
<1>3. /\ r \in Heaps /\ r.live = h.live \cup {n}
      /\ r.alloc = h.alloc /\ r.parent = h.parent /\ r.doc = h.doc
      /\ r.owner = own /\ r.handles = hnd /\ r.count = cnt
  <2>. DEFINE s == [h EXCEPT !.live = h.live \cup {n}, !.owner = own, !.count = cnt, !.handles = hnd]
  <2>1. /\ s \in Heaps /\ s.live = h.live \cup {n}
        /\ s.alloc = h.alloc /\ s.parent = h.parent /\ s.doc = h.doc
        /\ s.owner = own /\ s.handles = hnd /\ s.count = cnt
    BY <1>1 DEF Heaps
  <2>. HIDE DEF s
  <2>2. r = s
    BY <1>2 DEF s
  <2>. QED BY <2>1, <2>2
<1>. QED BY <1>3 DEF cnt, hnd, own

(* PmmNodeToSv pairs each reference it adds with a count. *)
LEMMA NodeToSvCounted ==
  ASSUME NEW h, Counted(h), NEW n \in Nodes, NEW o \in h.live \cup {NULL}
  PROVE  Counted(PmmNodeToSv(h, n, o))
<1>. DEFINE r == PmmNodeToSv(h, n, o)
<1>1. h \in Heaps /\ h.live \in SUBSET Nodes /\ NULL \notin Nodes
  BY NodesAssumption DEF Counted, Heaps
<1>2. /\ r \in Heaps
      /\ r.live = h.live \cup {n}
      /\ r.owner = [h.owner EXCEPT ![n] = IF n \notin h.live THEN o ELSE h.owner[n]]
      /\ r.handles = [h.handles EXCEPT ![n] = h.handles[n] + 1]
      /\ \A q \in Nodes :
           r.count[q] = h.count[q] + ((IF q = n THEN 1 ELSE 0)
                                      + (IF n \notin h.live /\ q = o THEN 1 ELSE 0))
  <2>. HIDE DEF r
  <2>1. r = PmmNodeToSv(h, n, o)
    BY DEF r
  <2>. QED BY <1>1, <2>1, NodeToSvFields
<1>. HIDE DEF r
<1>3. \A v \in h.live : r.owner[v] = h.owner[v]
  BY <1>1, <1>2 DEF Heaps
<1>4. \A q \in Nodes : h.handles[q] \in Nat /\ Cardinality(Ownees(h, h.live, q)) \in Nat
  BY <1>1, OwneesFinite DEF Heaps
<1>5. ASSUME NEW q \in Nodes
      PROVE  r.count[q] = IF q \in r.live
                          THEN r.handles[q] + Cardinality(Ownees(r, r.live, q)) ELSE 0
  <2>1. h.count[q] = IF q \in h.live
                     THEN h.handles[q] + Cardinality(Ownees(h, h.live, q)) ELSE 0
    BY DEF Counted
  <2>2. CASE n \in h.live
    <3>1. r.live = h.live /\ Ownees(r, r.live, q) = Ownees(h, h.live, q)
      BY <1>2, <1>3, <2>2 DEF Ownees
    <3>. QED BY <1>1, <1>2, <1>4, <2>1, <2>2, <3>1 DEF Heaps
  <2>3. CASE n \notin h.live
    <3>1. r.owner[n] = o /\ o # n
      BY <1>1, <1>2, <2>3 DEF Heaps
    <3>2. Cardinality(Ownees(r, r.live, q))
            = Cardinality(Ownees(h, h.live, q)) + (IF q = o THEN 1 ELSE 0)
      <4>1. Ownees(h, h.live, q) \in SUBSET Nodes /\ n \in Nodes \ Ownees(h, h.live, q)
        BY <1>1, <2>3 DEF Ownees
      <4>2. CASE q = o
        <5>1. Ownees(r, r.live, q) = Ownees(h, h.live, q) \cup {n}
          BY <1>2, <1>3, <3>1, <4>2 DEF Ownees
        <5>2. Cardinality(Ownees(h, h.live, q) \cup {n}) = Cardinality(Ownees(h, h.live, q)) + 1
          BY <4>1, OneMore
        <5>. QED BY <4>2, <5>1, <5>2
      <4>3. CASE q # o
        <5>1. Ownees(r, r.live, q) = Ownees(h, h.live, q)
          BY <1>2, <1>3, <3>1, <4>3 DEF Ownees
        <5>. QED BY <1>4, <4>3, <5>1
      <4>. QED BY <4>2, <4>3
    <3>3. CASE q = n
      <4>1. Ownees(h, h.live, n) = {} /\ h.handles[n] = 0
        <5>1. \A v \in h.live : h.owner[v] # n
          BY <1>1, <2>3 DEF Counted
        <5>2. ~ (h.handles[n] > 0)
          BY <2>3 DEF Counted
        <5>3. h.handles[n] \in Nat
          BY <1>4
        <5>. QED BY <5>1, <5>2, <5>3 DEF Ownees
      <4>2. Cardinality(Ownees(h, h.live, n)) = 0
        BY <4>1, FS_EmptySet
      <4>. QED BY <1>1, <1>2, <2>1, <2>3, <3>1, <3>2, <3>3, <4>1, <4>2 DEF Heaps
    <3>4. CASE q # n
      BY <1>1, <1>2, <1>4, <2>1, <2>3, <3>1, <3>2, <3>4 DEF Heaps
    <3>. QED BY <3>3, <3>4
  <2>. QED BY <2>2, <2>3
<1>6. \A q \in Nodes : r.handles[q] > 0 => q \in r.live
  BY <1>1, <1>2 DEF Counted, Heaps
<1>7. \A q \in r.live : r.owner[q] \in r.live \cup {NULL}
  BY <1>1, <1>2, <1>3 DEF Counted, Heaps
<1>. QED BY <1>2, <1>5, <1>6, <1>7 DEF Counted, r

(* PmmNodeToSv keeps the invariant, and its node is held afterwards. *)
LEMMA NodeToSvSound ==
  ASSUME NEW h, Sound(h), NEW n \in Nodes, NEW o \in h.live \cup {NULL}
  PROVE  LET r == PmmNodeToSv(h, n, o)
         IN  /\ Sound(r)
             /\ r.live = h.live \cup {n}
             /\ r.alloc = h.alloc /\ r.parent = h.parent /\ r.doc = h.doc
             /\ r.handles[n] > 0
             /\ \A q \in Nodes : h.handles[q] > 0 => r.handles[q] > 0
<1>1. h \in Heaps /\ o \in Nodes \cup {NULL}
  BY DEF Sound, Counted, Heaps
<1>. DEFINE r == PmmNodeToSv(h, n, o)
<1>2. /\ r.live = h.live \cup {n}
      /\ r.alloc = h.alloc /\ r.parent = h.parent /\ r.doc = h.doc
      /\ r.handles = [h.handles EXCEPT ![n] = h.handles[n] + 1]
  BY <1>1 DEF PmmNodeToSv, Heaps
<1>3. Counted(r)
  BY NodeToSvCounted DEF Sound
<1>. HIDE DEF r
<1>4. Planted(r)
  BY <1>2 DEF Sound, Planted
<1>5. r.handles[n] > 0 /\ \A q \in Nodes : h.handles[q] > 0 => r.handles[q] > 0
  BY <1>1, <1>2 DEF Heaps
<1>. QED BY <1>2, <1>3, <1>4, <1>5 DEF Sound, r

(* A fresh fragment has no reference yet, and adds one to its document. *)
LEMMA NewFragmentSound ==
  ASSUME NEW h, Sound(h), NEW f \in Frags \ h.live, NEW d \in (Docs \cap h.live) \cup {NULL}
  PROVE  /\ Sound(PmmNewFragment(h, f, d))
         /\ PmmNewFragment(h, f, d).live = h.live \cup {f}
         /\ PmmNewFragment(h, f, d).handles = h.handles
         /\ PmmNewFragment(h, f, d).parent = h.parent
<1>. DEFINE cnt == [q \in Nodes |-> IF q = d /\ d \in h.live THEN h.count[q] + 1 ELSE h.count[q]]
            r   == PmmNewFragment(h, f, d)
<1>1. /\ h \in Heaps /\ h.live \in SUBSET Nodes /\ f \in Nodes /\ f \notin Docs
      /\ NULL \notin Nodes /\ Docs \subseteq Nodes /\ d # f
  BY NodesAssumption DEF Nodes, Sound, Counted, Heaps
<1>2. cnt \in [Nodes -> Int]
  BY <1>1 DEF Heaps
<1>3. r = [h EXCEPT !.alloc = h.alloc \cup {f}, !.doc = [h.doc EXCEPT ![f] = d],
                    !.live = h.live \cup {f}, !.owner = [h.owner EXCEPT ![f] = d], !.count = cnt]
  BY <1>1 DEF PmmNewFragment, Heaps
<1>. HIDE DEF cnt, r
<1>4. /\ r \in Heaps /\ r.live = h.live \cup {f} /\ r.owner = [h.owner EXCEPT ![f] = d]
      /\ r.alloc = h.alloc \cup {f} /\ r.parent = h.parent
      /\ r.handles = h.handles /\ r.count = cnt /\ r.doc = [h.doc EXCEPT ![f] = d]
  BY <1>1, <1>2, <1>3 DEF Heaps
<1>5. \A v \in h.live : r.owner[v] = h.owner[v] /\ h.owner[v] # f
  BY <1>1, <1>4 DEF Heaps, Sound, Counted
<1>6. \A q \in Nodes : h.handles[q] \in Nat /\ Cardinality(Ownees(h, h.live, q)) \in Nat
  BY <1>1, OwneesFinite DEF Heaps
<1>7. ASSUME NEW q \in Nodes
      PROVE  r.count[q] = IF q \in r.live
                          THEN r.handles[q] + Cardinality(Ownees(r, r.live, q)) ELSE 0
  <2>1. h.count[q] = IF q \in h.live
                     THEN h.handles[q] + Cardinality(Ownees(h, h.live, q)) ELSE 0
    BY DEF Sound, Counted
  <2>2. r.owner[f] = d
    BY <1>1, <1>4 DEF Heaps
  <2>3. CASE q = d
    <3>1. Ownees(h, h.live, q) \in SUBSET Nodes /\ f \in Nodes \ Ownees(h, h.live, q)
      BY <1>1 DEF Ownees
    <3>2. Ownees(r, r.live, q) = Ownees(h, h.live, q) \cup {f}
      BY <1>4, <1>5, <2>2, <2>3 DEF Ownees
    <3>3. Cardinality(Ownees(h, h.live, q) \cup {f}) = Cardinality(Ownees(h, h.live, q)) + 1
      BY <3>1, OneMore
    <3>4. q \in h.live /\ q \in r.live /\ r.count[q] = h.count[q] + 1
      BY <1>1, <1>4, <2>3 DEF cnt
    <3>5. h.count[q] = h.handles[q] + Cardinality(Ownees(h, h.live, q))
      BY <2>1, <3>4
    <3>6. Cardinality(Ownees(r, r.live, q)) = Cardinality(Ownees(h, h.live, q)) + 1
      BY <3>2, <3>3
    <3>. QED BY <1>4, <1>6, <3>4, <3>5, <3>6
  <2>4. CASE q # d
    <3>1. Ownees(r, r.live, q) = Ownees(h, h.live, q)
      BY <1>4, <1>5, <2>2, <2>4 DEF Ownees
    <3>2. r.count[q] = h.count[q]
      BY <1>4, <2>4 DEF cnt
    <3>3. q = f => Ownees(h, h.live, q) = {} /\ h.handles[q] = 0
      <4>1. ~ (h.handles[f] > 0) /\ h.handles[f] \in Nat
        BY <1>1, <1>6 DEF Sound, Counted
      <4>2. Ownees(h, h.live, f) = {}
        BY <1>5 DEF Ownees
      <4>. QED BY <4>1, <4>2
    <3>4. q = f => Cardinality(Ownees(h, h.live, q)) = 0
      BY <3>3, FS_EmptySet
    <3>. QED BY <1>4, <2>1, <3>1, <3>2, <3>3, <3>4
  <2>. QED BY <2>3, <2>4
<1>8. \A q \in Nodes : r.handles[q] > 0 => q \in r.live
  BY <1>4 DEF Sound, Counted
<1>9. \A q \in r.live : r.owner[q] \in r.live \cup {NULL}
  BY <1>1, <1>4, <1>5 DEF Sound, Counted, Heaps
<1>10. Planted(r)
  BY <1>1, <1>4 DEF Sound, Planted
<1>. QED BY <1>4, <1>7, <1>8, <1>9, <1>10 DEF Sound, Counted, r

-----------------------------------------------------------------------------
(* Changing owners. *)

(* PmmREFCNT_dec leaves a heap in which the held nodes are still held. *)
LEMMA DecSettled ==
  ASSUME NEW h \in Heaps, NEW drops \in Ledgers, Owed(h, drops), Planted(h),
         \A q \in Nodes : h.handles[q] > 0 => q \in h.live,
         \A q \in h.live : h.owner[q] \in h.live \cup {NULL}
  PROVE  Settled(h, PmmREFCNT_dec(h, drops))
<1>1. Counted(PmmREFCNT_dec(h, drops)) /\ Planted(PmmREFCNT_dec(h, drops))
  BY DecCounted, DecPlanted
<1>2. /\ PmmREFCNT_dec(h, drops).live = h.live \ Expired(h, drops)
      /\ PmmREFCNT_dec(h, drops).alloc = h.alloc \ FreedWith(h, Expired(h, drops))
      /\ PmmREFCNT_dec(h, drops).handles = h.handles
      /\ \A m \in Nodes : PmmREFCNT_dec(h, drops).parent[m] \in {h.parent[m], NULL}
  BY DecFields
<1>. QED BY <1>1, <1>2 DEF Settled, Sound

(* Reown (the loop of PmmFixOwner) is one call of PmmREFCNT_dec on the
   heap where the proxies of S already have their new owner: what that
   heap is, and that its counts still cover the references to release. *)
LEMMA RehungFacts ==
  ASSUME NEW h, Sound(h), NEW S \in SUBSET h.live, NEW p, p \in h.live \cup {NULL} \/ S = {}
  PROVE  LET mid   == Rehung(h, S, p)
             drops == Released(h, S)
         IN  /\ Reown(h, S, p) = PmmREFCNT_dec(mid, drops)
             /\ mid \in Heaps /\ drops \in Ledgers
             /\ mid.live = h.live /\ mid.handles = h.handles /\ mid.alloc = h.alloc
             /\ mid.parent = h.parent /\ mid.doc = h.doc
             /\ \A v \in Nodes : mid.owner[v] = IF v \notin S THEN h.owner[v]
                                               ELSE IF v = p THEN NULL ELSE p
             /\ \A q \in Nodes : mid.count[q] >= h.count[q]
             /\ S # {} /\ p \in Nodes \ S => mid.count[p] > h.count[p]
             /\ Owed(mid, drops) /\ Planted(mid)
             /\ \A q \in Nodes : mid.handles[q] > 0 => q \in mid.live
             /\ \A q \in mid.live : mid.owner[q] \in mid.live \cup {NULL}
<1>. DEFINE own(v) == IF v = p THEN NULL ELSE p
            to(q)  == {v \in S : own(v) = q}
            from(q) == {v \in S : h.owner[v] = q}
            drops  == [q \in Nodes |-> Cardinality(from(q))]
            owner  == [v \in Nodes |-> IF v \in S THEN own(v) ELSE h.owner[v]]
            count  == [q \in Nodes |-> h.count[q] + Cardinality(to(q))]
            mid    == Rehung(h, S, p)
<1>1. h \in Heaps /\ h.live \in SUBSET Nodes /\ S \in SUBSET Nodes /\ NULL \notin Nodes
  BY NodesAssumption DEF Sound, Counted, Heaps
<1>2. ASSUME NEW q
      PROVE  /\ IsFiniteSet(to(q)) /\ Cardinality(to(q)) \in Nat /\ to(q) \in SUBSET S
             /\ IsFiniteSet(from(q)) /\ Cardinality(from(q)) \in Nat /\ from(q) \in SUBSET S
  <2>1. to(q) \in SUBSET S /\ from(q) \in SUBSET S
    OBVIOUS
  <2>2. to(q) \in SUBSET Nodes /\ from(q) \in SUBSET Nodes
    BY <1>1, <2>1
  <2>. HIDE DEF to, from
  <2>. QED BY <2>1, <2>2, FiniteNodes
<1>3. Reown(h, S, p) = PmmREFCNT_dec(mid, drops) /\ drops = Released(h, S)
      /\ mid = [h EXCEPT !.owner = owner, !.count = count]
  BY DEF Reown, Rehung, Released
<1>4. drops \in Ledgers
  BY <1>2 DEF Ledgers
<1>5. owner \in [Nodes -> Nodes \cup {NULL}] /\ count \in [Nodes -> Int]
  <2>1. \A v \in S : own(v) \in Nodes \cup {NULL}
    BY <1>1
  <2>2. owner \in [Nodes -> Nodes \cup {NULL}]
    BY <1>1, <2>1 DEF Heaps
  <2>3. \A q \in Nodes : h.count[q] \in Int
    BY <1>1 DEF Heaps
  <2>4. \A q \in Nodes : h.count[q] + Cardinality(to(q)) \in Int
    <3>1. \A q \in Nodes : Cardinality(to(q)) \in Nat
      BY <1>2
    <3>. HIDE DEF to
    <3>. QED BY <2>3, <3>1
  <2>5. count \in [Nodes -> Int]
    <3>. HIDE DEF to
    <3>. QED BY <2>4
  <2>. QED BY <2>2, <2>5
<1>. HIDE DEF owner, count, mid
<1>6. /\ mid \in Heaps /\ mid.live = h.live /\ mid.handles = h.handles /\ mid.alloc = h.alloc
      /\ mid.parent = h.parent /\ mid.owner = owner /\ mid.count = count
      /\ mid.doc = h.doc
  BY <1>1, <1>3, <1>5 DEF Heaps
<1>7. Owed(mid, drops)
  <2>. SUFFICES ASSUME NEW q \in h.live
                PROVE  mid.count[q] = mid.handles[q] + Cardinality(Ownees(mid, h.live, q)) + drops[q]
    BY <1>6 DEF Owed
  <2>. DEFINE old == Ownees(h, h.live, q)
              new == Ownees(mid, h.live, q)
  <2>1. new = (old \ from(q)) \cup to(q)
    BY <1>1, <1>6 DEF owner, Ownees
  <2>2. from(q) \in SUBSET old /\ (old \ from(q)) \cap to(q) = {}
    BY <1>1 DEF Ownees
  <2>3. IsFiniteSet(old) /\ Cardinality(old) \in Nat
    BY <1>1, OwneesFinite
  <2>4. h.count[q] = h.handles[q] + Cardinality(old) /\ h.handles[q] \in Nat
    BY <1>1 DEF Sound, Counted, Heaps
  <2>5. mid.count[q] = h.count[q] + Cardinality(to(q)) /\ drops[q] = Cardinality(from(q))
    BY <1>1, <1>6 DEF count
  <2>6. /\ IsFiniteSet(to(q)) /\ Cardinality(to(q)) \in Nat
        /\ IsFiniteSet(from(q)) /\ Cardinality(from(q)) \in Nat
    BY <1>2
  <2>. HIDE DEF old, new, to, from, drops
  <2>7. Cardinality(old \ from(q)) = Cardinality(old) - Cardinality(from(q))
        /\ IsFiniteSet(old \ from(q))
    <3>1. old \cap from(q) = from(q)
      BY <2>2
    <3>. QED BY ZenonT(60), <2>3, <3>1, FS_Difference
  <2>8. Cardinality(new) = Cardinality(old \ from(q)) + Cardinality(to(q))
    <3>1. Cardinality((old \ from(q)) \cup to(q))
            = Cardinality(old \ from(q)) + Cardinality(to(q))
              - Cardinality((old \ from(q)) \cap to(q))
      BY <2>6, <2>7, FS_Union
    <3>2. Cardinality((old \ from(q)) \cap to(q)) = 0
      BY <2>2, FS_EmptySet
    <3>3. Cardinality(old \ from(q)) \in Nat
      BY <2>7, FS_CardinalityType
    <3>. QED BY <2>1, <2>6, <3>1, <3>2, <3>3
  <2>9. mid.count[q] = h.handles[q] + Cardinality(new) + drops[q]
    BY <2>3, <2>4, <2>5, <2>6, <2>7, <2>8
  <2>. QED BY <1>6, <2>9 DEF new
<1>8. \A q \in Nodes : mid.handles[q] > 0 => q \in mid.live
  BY <1>6 DEF Sound, Counted
<1>9. \A q \in mid.live : mid.owner[q] \in mid.live \cup {NULL}
  BY <1>1, <1>6 DEF owner, Sound, Counted
<1>10. Planted(mid)
  BY <1>6 DEF Sound, Planted
<1>11. ASSUME NEW q \in Nodes PROVE mid.count[q] >= h.count[q]
  <2>1. Cardinality(to(q)) \in Nat /\ h.count[q] \in Int
    BY <1>1, <1>2 DEF Heaps
  <2>2. mid.count[q] = h.count[q] + Cardinality(to(q))
    BY <1>6 DEF count
  <2>. HIDE DEF to
  <2>. QED BY <2>1, <2>2
<1>12. ASSUME S # {}, p \in Nodes \ S PROVE mid.count[p] > h.count[p]
  <2>1. to(p) = S
    BY <1>12
  <2>2. Cardinality(to(p)) \in Nat /\ h.count[p] \in Int /\ IsFiniteSet(to(p))
    BY <1>1, <1>2, <1>12 DEF Heaps
  <2>3. mid.count[p] = h.count[p] + Cardinality(to(p))
    BY <1>6, <1>12 DEF count
  <2>. HIDE DEF to
  <2>4. Cardinality(to(p)) # 0
    BY <1>12, <2>1, <2>2, FS_EmptySet
  <2>. QED BY <2>2, <2>3, <2>4
<1>13. \A v \in Nodes : mid.owner[v] = IF v \notin S THEN h.owner[v]
                                        ELSE IF v = p THEN NULL ELSE p
  BY <1>6 DEF owner
<1>. HIDE DEF drops
<1>. QED BY <1>3, <1>4, <1>6, <1>7, <1>8, <1>9, <1>10, <1>11, <1>12, <1>13 DEF mid

(* When Reown has released the old owners of S, the counts are exact
   again. *)
LEMMA ReownSettled ==
  ASSUME NEW h, Sound(h), NEW S \in SUBSET h.live, NEW p, p \in h.live \cup {NULL} \/ S = {}
  PROVE  Settled(h, Reown(h, S, p))
<1>. PICK mid, drops : mid = Rehung(h, S, p) /\ drops = Released(h, S)
  OBVIOUS
<1>1. /\ Reown(h, S, p) = PmmREFCNT_dec(mid, drops)
      /\ mid \in Heaps /\ drops \in Ledgers
      /\ mid.live = h.live /\ mid.handles = h.handles /\ mid.alloc = h.alloc
      /\ mid.parent = h.parent /\ Owed(mid, drops) /\ Planted(mid)
      /\ \A q \in Nodes : mid.handles[q] > 0 => q \in mid.live
      /\ \A q \in mid.live : mid.owner[q] \in mid.live \cup {NULL}
  BY RehungFacts
<1>2. Settled(mid, PmmREFCNT_dec(mid, drops))
  BY <1>1, DecSettled
<1>. QED BY <1>1, <1>2 DEF Settled

(* Proxies that are held, or own one another, outlive a change of the
   owners of others. *)
LEMMA ReownKeeps ==
  ASSUME NEW h, Sound(h), NEW S \in SUBSET h.live, NEW p \in h.live,
         NEW C \in SUBSET (h.live \ S), \A r \in C : h.handles[r] > 0 \/ Ownees(h, C, r) # {}
  PROVE  C \subseteq Reown(h, S, p).live
<1>. PICK mid, drops : mid = Rehung(h, S, p) /\ drops = Released(h, S)
  OBVIOUS
<1>1. /\ Reown(h, S, p) = PmmREFCNT_dec(mid, drops)
      /\ mid \in Heaps /\ drops \in Ledgers /\ Owed(mid, drops)
      /\ mid.live = h.live /\ mid.handles = h.handles
      /\ \A v \in Nodes : mid.owner[v] = IF v \notin S THEN h.owner[v]
                                         ELSE IF v = p THEN NULL ELSE p
  BY RehungFacts
<1>2. \A v \in C : mid.owner[v] = h.owner[v]
  BY <1>1 DEF Sound, Counted, Heaps
<1>3. C \in SUBSET mid.live /\ \A r \in C : mid.handles[r] > 0 \/ Ownees(mid, C, r) # {}
  BY <1>1, <1>2 DEF Ownees
<1>. QED BY <1>1, <1>3, DecKeeps

(* What follows from two settled steps. *)
LEMMA SettledTransitive ==
  ASSUME NEW h, NEW a, NEW b, Settled(h, a), Settled(a, b)
  PROVE  Settled(h, b)
BY DEF Settled

(* PmmFixOwner reaches proxies only. *)
LEMMA ReachedLive ==
  ASSUME NEW h, NEW roots, NEW p
  PROVE  Reached(h, roots, p) \in SUBSET h.live
BY DEF Reached

(* PmmFixOwner, for a node that is held, or an attribute. *)
LEMMA FixOwnerSettled ==
  ASSUME NEW h, Sound(h), NEW n \in h.live, NEW p \in h.live \cup {NULL},
         h.handles[n] > 0 \/ n \in Attrs
  PROVE  Settled(h, PmmFixOwner(h, n, p))
<1>1. n \in Nodes /\ h \in Heaps
  BY DEF Sound, Counted, Heaps
<1>2. CASE n \in Docs \/ h.owner[n] = p
  <2>1. PmmFixOwner(h, n, p) = h
    BY <1>2 DEF PmmFixOwner
  <2>. QED BY <2>1 DEF Settled
<1>3. CASE /\ ~ (n \in Docs \/ h.owner[n] = p)
           /\ p # NULL /\ h.parent[n] # NULL
  <2>1. PmmFixOwner(h, n, p) = Reown(h, Reached(h, {n}, p), p)
    BY <1>3 DEF PmmFixOwner
  <2>. QED BY <2>1, ReachedLive, ReownSettled
<1>4. CASE /\ ~ (n \in Docs \/ h.owner[n] = p)
           /\ ~ (p # NULL /\ h.parent[n] # NULL)
  <2>. DEFINE S    == {n} \cup Reached(h, Props(h, n), p)
              own  == Reown(h, S, p)
              T    == Reached(own, Kids(own, n), n)
  <2>1. S \in SUBSET h.live
    BY ReachedLive
  <2>2. Settled(h, own)
    BY <2>1, ReownSettled
  <2>3. T \in SUBSET own.live
    BY ReachedLive
  <2>4. PmmFixOwner(h, n, p) = Reown(own, T, n)
    BY <1>4 DEF PmmFixOwner
  <2>. HIDE DEF S, own
  <2>5. n \in own.live \/ T = {}
    <3>1. CASE h.handles[n] > 0
      BY <1>1, <2>2, <3>1 DEF Settled, Sound, Counted
    <3>2. CASE n \in Attrs
      <4>1. own \in Heaps /\ \A m \in Nodes : own.parent[m] # n
        BY <2>2, <3>2 DEF Settled, Sound, Counted, Planted
      <4>2. Kids(own, n) = {}
        BY <4>1 DEF Kids, Below, Heaps
      <4>. QED BY <4>2 DEF Reached
    <3>. QED BY <3>1, <3>2
  <2>. HIDE DEF T
  <2>6. Settled(own, Reown(own, T, n))
    <3>1. Sound(own)
      BY <2>2 DEF Settled
    <3>. QED BY <2>3, <2>5, <3>1, ReownSettled
  <2>. QED BY <2>2, <2>4, <2>6, SettledTransitive
<1>. QED BY <1>2, <1>3, <1>4

(* PmmFixOwnerNode for the nodes of a list. *)
LEMMA FixOwnerNodesSettled ==
  ASSUME NEW h, Sound(h), NEW S, NEW p \in h.live
  PROVE  Settled(h, PmmFixOwnerNodes(h, S, p))
BY ReachedLive, ReownSettled DEF PmmFixOwnerNodes

(* LibXML_reparent_removed_node of a held node. *)
LEMMA ReparentSound ==
  ASSUME NEW h, Sound(h), NEW n \in Nodes \ Docs, NEW f \in Frags \ h.live,
         h.handles[n] > 0, h.doc[n] \in (Docs \cap h.live) \cup {NULL}
  PROVE  Sound(Reparent(h, n, f)) /\ Reparent(h, n, f).handles = h.handles
<1>. DEFINE frag == PmmNewFragment(h, f, h.doc[n])
            put  == AddChild(frag, f, n)
<1>1. /\ Sound(frag) /\ frag.live = h.live \cup {f} /\ frag.handles = h.handles
  BY NewFragmentSound
<1>2. f \in Nodes \ Attrs
  BY NodesAssumption DEF Nodes
<1>. HIDE DEF frag
<1>3. Sound(put) /\ SameProxies(frag, put)
  BY <1>1, <1>2, AddChildSound
<1>4. n \in put.live /\ f \in put.live /\ put.handles = h.handles
  BY <1>1, <1>3 DEF SameProxies, Sound, Counted
<1>. HIDE DEF put
<1>5. Settled(put, PmmFixOwner(put, n, f))
  BY <1>3, <1>4, FixOwnerSettled
<1>. QED BY <1>4, <1>5 DEF Settled, Reparent, put, frag

(* Who is kept by proxies outside a removed tree outlives the removal. *)
LEMMA ReparentKeeps ==
  ASSUME NEW h, Sound(h), NEW n \in Nodes \ Docs, NEW f \in Frags \ h.live,
         h.doc[n] \in (Docs \cap h.live) \cup {NULL},
         NEW q, KeptOutside(h, Subtree(h, n), q)
  PROVE  q \in Reparent(h, n, f).live
<1>. PICK frag : frag = PmmNewFragment(h, f, h.doc[n])
  OBVIOUS
<1>. PICK put : put = AddChild(frag, f, n)
  OBVIOUS
<1>1. /\ Sound(frag) /\ frag.live = h.live \cup {f} /\ frag.handles = h.handles
      /\ frag.parent = h.parent
  BY NewFragmentSound
<1>2. /\ f \in Nodes \ Attrs /\ f \in Nodes /\ NULL \notin Nodes /\ h \in Heaps
      /\ h.live \subseteq Nodes /\ h.alloc \subseteq Nodes
      /\ h.parent \in [Nodes -> Nodes \cup {NULL}]
  BY NodesAssumption DEF Nodes, Sound, Counted, Heaps
<1>3. Sound(put) /\ SameProxies(frag, put) /\ put \in Heaps
  <2>1. Sound(put) /\ SameProxies(frag, put)
    BY <1>1, <1>2, AddChildSound
  <2>. QED BY <2>1 DEF Sound, Counted
<1>4. /\ put.live = h.live \cup {f} /\ put.handles = h.handles
      /\ put.alloc = h.alloc \cup {f} /\ put.parent = [h.parent EXCEPT ![n] = f]
      /\ \A v \in h.live : put.owner[v] = h.owner[v]
  <2>1. /\ frag.alloc = h.alloc \cup {f}
        /\ frag.owner = [h.owner EXCEPT ![f] = h.doc[n]]
    BY <1>2 DEF PmmNewFragment, Heaps
  <2>2. put.alloc = frag.alloc /\ put.parent = [frag.parent EXCEPT ![n] = f]
        /\ put.owner = frag.owner
    BY <1>3, <1>1 DEF AddChild, Heaps, Sound, Counted
  <2>. QED BY <1>1, <1>2, <1>3, <2>1, <2>2 DEF SameProxies, Heaps
<1>5. PICK C \in SUBSET (h.live \ Subtree(h, n)) :
        q \in C /\ \A r \in C : h.handles[r] > 0 \/ Ownees(h, C, r) # {}
  BY DEF KeptOutside
<1>6. C \in SUBSET put.live /\ \A r \in C : put.handles[r] > 0 \/ Ownees(put, C, r) # {}
  BY <1>4, <1>5 DEF Ownees
<1>7. ASSUME NEW x \in C PROVE x \notin Subtree(put, n)
  <2>. SUFFICES ASSUME x \in put.alloc PROVE x # n /\ n \notin Ancestors(put, x)
    BY DEF Subtree
  <2>1. x \in h.alloc /\ x \in Nodes
    BY <1>2, <1>4, <1>5
  <2>2. x # n /\ n \notin Ancestors(h, x)
    BY <1>5, <2>1 DEF Subtree
  <2>3. put.parent[x] = h.parent[x] /\ h.parent[x] \in Nodes \cup {NULL}
    BY <1>2, <1>4, <2>1, <2>2
  <2>. PICK y : y = h.parent[x]
    OBVIOUS
  <2>4. n \notin Chain(Nodes, NULL, h.parent, y)
    BY <2>2 DEF Ancestors, Upwards, Chain
  <2>5. n \notin Chain(Nodes, NULL, put.parent, y)
    <3>1. put.parent \in [Nodes -> Nodes \cup {NULL}] /\ \A z \in Nodes \ {n} : put.parent[z] = h.parent[z]
      BY <1>2, <1>4
    <3>2. y \in Nodes \cup {NULL} /\ IsFiniteSet(Nodes)
      BY <2>3, NodesAssumption
    <3>. QED BY <1>2, <2>4, <3>1, <3>2, ChainSpared
  <2>6. Ancestors(put, x) = Chain(Nodes, NULL, put.parent, y)
    BY <2>3 DEF Ancestors, Upwards, Chain
  <2>. QED BY <2>2, <2>5, <2>6
<1>8. CASE PmmFixOwner(put, n, f) = put
  <2>1. Reparent(h, n, f) = put
    BY <1>8 DEF Reparent
  <2>. QED BY <1>5, <1>6, <2>1
<1>9. CASE PmmFixOwner(put, n, f) # put
  <2>. PICK S : S = Reached(put, {n}, f)
    OBVIOUS
  <2>1. PmmFixOwner(put, n, f) = Reown(put, S, f)
    <3>1. f # NULL /\ put.parent[n] # NULL
      BY <1>2, <1>4
    <3>. QED BY <1>9, <3>1 DEF PmmFixOwner
  <2>2. S \in SUBSET put.live /\ S \cap C = {}
    BY <1>7 DEF Reached
  <2>3. C \subseteq Reown(put, S, f).live
    <3>1. f \in put.live /\ C \in SUBSET (put.live \ S)
      BY <1>4, <1>6, <2>2
    <3>. QED BY <1>3, <1>6, <2>2, <3>1, ReownKeeps
  <2>4. Reparent(h, n, f) = Reown(put, S, f)
    <3>1. Reparent(h, n, f) = PmmFixOwner(put, n, f)
      BY DEF Reparent
    <3>. QED BY <2>1, <3>1
  <2>. QED BY <1>5, <2>3, <2>4
<1>. QED BY <1>8, <1>9

-----------------------------------------------------------------------------
(* Handles. *)

(* The DESTROY of a handle is one call of PmmREFCNT_dec on the heap
   without the handle, whose counts still cover that reference. *)
LEMMA DropFacts ==
  ASSUME NEW h, Sound(h), NEW n \in Nodes, h.handles[n] > 0,
         NEW mid, mid = Dropping(h, n), NEW drops, drops = OneOf(n)
  PROVE  /\ Drop(h, n) = PmmREFCNT_dec(mid, drops)
         /\ mid \in Heaps /\ drops \in Ledgers /\ Owed(mid, drops) /\ Planted(mid)
         /\ mid.live = h.live /\ mid.owner = h.owner /\ mid.count = h.count
         /\ mid.parent = h.parent /\ mid.alloc = h.alloc /\ mid.doc = h.doc
         /\ \A q \in Nodes : mid.handles[q] > 0 => q \in mid.live
         /\ \A q \in mid.live : mid.owner[q] \in mid.live \cup {NULL}
<1>1. h \in Heaps /\ h.live \in SUBSET Nodes
  BY DEF Sound, Counted, Heaps
<1>2. [h.handles EXCEPT ![n] = h.handles[n] - 1] \in [Nodes -> Nat]
  <2>1. h.handles[n] - 1 \in Nat
    BY <1>1 DEF Heaps
  <2>. QED BY <1>1, <2>1 DEF Heaps
<1>3. /\ mid \in Heaps /\ mid.live = h.live /\ mid.owner = h.owner /\ mid.count = h.count
      /\ mid.parent = h.parent /\ mid.alloc = h.alloc /\ mid.doc = h.doc
      /\ mid.handles = [h.handles EXCEPT ![n] = h.handles[n] - 1]
  <2>. DEFINE s == [h EXCEPT !.handles[n] = h.handles[n] - 1]
  <2>1. /\ s \in Heaps /\ s.live = h.live /\ s.owner = h.owner /\ s.count = h.count
        /\ s.parent = h.parent /\ s.alloc = h.alloc /\ s.doc = h.doc
        /\ s.handles = [h.handles EXCEPT ![n] = h.handles[n] - 1]
    BY <1>1, <1>2 DEF Heaps
  <2>. HIDE DEF s
  <2>2. mid = s
    BY <1>1 DEF s, Dropping, Heaps
  <2>. QED BY <2>1, <2>2
<1>4. Drop(h, n) = PmmREFCNT_dec(mid, drops)
  BY DEF Drop, Dropping, OneOf
<1>5. drops \in Ledgers
  BY DEF Ledgers, OneOf
<1>6. Owed(mid, drops)
  <2>. SUFFICES ASSUME NEW q \in h.live
                PROVE  mid.count[q] = mid.handles[q] + Cardinality(Ownees(mid, h.live, q)) + drops[q]
    BY <1>3 DEF Owed
  <2>1. Ownees(mid, h.live, q) = Ownees(h, h.live, q)
    BY <1>3 DEF Ownees
  <2>2. h.count[q] = h.handles[q] + Cardinality(Ownees(h, h.live, q))
    BY <1>1 DEF Sound, Counted
  <2>3. h.handles[q] \in Nat /\ Cardinality(Ownees(h, h.live, q)) \in Nat /\ q \in Nodes
    BY <1>1, OwneesFinite DEF Heaps
  <2>4. mid.handles[q] + drops[q] = h.handles[q] /\ drops[q] \in Nat /\ mid.handles[q] \in Nat
    BY <1>1, <1>3, <2>3 DEF Heaps, OneOf
  <2>. QED BY ONLY <1>3, <2>1, <2>2, <2>3, <2>4
<1>7. \A q \in Nodes : mid.handles[q] > 0 => q \in mid.live
  BY <1>1, <1>3 DEF Sound, Counted, Heaps
<1>8. \A q \in mid.live : mid.owner[q] \in mid.live \cup {NULL}
  BY <1>3 DEF Sound, Counted
<1>9. Planted(mid)
  BY <1>3 DEF Sound, Planted
<1>. QED BY <1>3, <1>4, <1>5, <1>6, <1>7, <1>8, <1>9

(* When a handle is destroyed, the counts are exact again. *)
LEMMA DropSettled ==
  ASSUME NEW h, Sound(h), NEW n \in Nodes, h.handles[n] > 0
  PROVE  Sound(Drop(h, n))
<1>. PICK mid, drops : mid = Dropping(h, n) /\ drops = OneOf(n)
  OBVIOUS
<1>1. /\ Drop(h, n) = PmmREFCNT_dec(mid, drops)
      /\ mid \in Heaps /\ drops \in Ledgers /\ Owed(mid, drops) /\ Planted(mid)
      /\ mid.live = h.live /\ mid.owner = h.owner /\ mid.count = h.count
      /\ mid.parent = h.parent /\ mid.alloc = h.alloc /\ mid.doc = h.doc
      /\ \A q \in Nodes : mid.handles[q] > 0 => q \in mid.live
      /\ \A q \in mid.live : mid.owner[q] \in mid.live \cup {NULL}
  BY DropFacts
<1>2. Settled(mid, PmmREFCNT_dec(mid, drops))
  BY <1>1, DecSettled
<1>. QED BY <1>1, <1>2 DEF Settled

(* The handle that a handler returns is kept or dropped. *)
LEMMA ReturnSound ==
  ASSUME NEW h, Sound(h), NEW n \in Nodes, h.handles[n] > 0, Return(h, n)
  PROVE  Sound(heap')
BY DropSettled DEF Return

(* What a handler may rely on. *)
LEMMA HeldFacts ==
  ASSUME Sound(heap), NEW n, Held(n)
  PROVE  /\ n \in Nodes /\ n \in heap.live /\ n \in heap.alloc /\ heap.handles[n] > 0
         /\ heap.doc[n] \in (Docs \cap heap.live) \cup {NULL}
<1>1. n \in heap.alloc /\ heap.handles[n] > 0 /\ heap.doc[n] \in heap.alloc \cup {NULL}
  BY DEF Held, Kept, DocInMemory
<1>2. heap \in Heaps
  BY DEF Sound, Counted
<1>3. n \in Nodes /\ heap.doc[n] \in Docs \cup {NULL}
  BY <1>1, <1>2 DEF Heaps
<1>. QED BY <1>1, <1>3 DEF Sound, Counted, Planted

(* The owner that PmmOWNERPO reads is a proxy in memory. *)
LEMMA OwnerLive ==
  ASSUME NEW h, Sound(h), NEW n \in h.live
  PROVE  PmmOWNERPO(h, n) \in h.live
BY DEF PmmOWNERPO, Sound, Counted

-----------------------------------------------------------------------------
(* The handlers that return a node. *)

(* PmmNodeToSv, then the handle is returned. *)
LEMMA GivenSound ==
  ASSUME NEW h, Sound(h), NEW n \in Nodes, NEW o \in h.live \cup {NULL},
         Return(PmmNodeToSv(h, n, o), n)
  PROVE  Sound(heap')
<1>1. Sound(PmmNodeToSv(h, n, o)) /\ PmmNodeToSv(h, n, o).handles[n] > 0
  BY NodeToSvSound
<1>. QED BY <1>1, ReturnSound

(* PmmNodeToSv, then PmmFixOwner *)
LEMMA GivenFixed ==
  ASSUME NEW h, Sound(h), NEW n \in Nodes, NEW o \in h.live \cup {NULL},
         NEW p \in h.live \cup {NULL}
  PROVE  /\ Sound(PmmFixOwner(PmmNodeToSv(h, n, o), n, p))
         /\ PmmFixOwner(PmmNodeToSv(h, n, o), n, p).handles[n] > 0
<1>. DEFINE given == PmmNodeToSv(h, n, o)
<1>1. Sound(given) /\ given.handles[n] > 0 /\ given.live = h.live \cup {n}
  BY NodeToSvSound
<1>. HIDE DEF given
<1>2. Settled(given, PmmFixOwner(given, n, p))
  BY <1>1, FixOwnerSettled
<1>. QED BY <1>1, <1>2 DEF Settled, given

(* A node in new memory, without a proxy yet *)
LEMMA MadeSound ==
  ASSUME NEW h, Sound(h), NEW n \in Nodes \ Docs, NEW d \in Docs \cup {NULL}
  PROVE  LET made == [h EXCEPT !.alloc = @ \cup {n}, !.doc[n] = d]
         IN  Sound(made) /\ SameProxies(h, made)
<1>. DEFINE made == [h EXCEPT !.alloc = @ \cup {n}, !.doc[n] = d]
<1>1. /\ made \in Heaps /\ SameProxies(h, made) /\ made.alloc = h.alloc \cup {n}
      /\ made.parent = h.parent
  BY DEF Sound, Counted, Heaps, SameProxies
<1>2. Planted(made)
  BY <1>1 DEF Sound, Planted, SameProxies
<1>. QED BY <1>1, <1>2, TreeCounted DEF Sound

(* The constructor of a document. *)
LEMMA createDocumentSound ==
  ASSUME Sound(heap), createDocument
  PROVE  Sound(heap')
<1>1. PICK d \in Free(heap, Docs) :
        Return(PmmNodeToSv([heap EXCEPT !.alloc = @ \cup {d}, !.doc[d] = d], d, NULL), d)
  BY Zenon DEF createDocument
<1>. DEFINE made == [heap EXCEPT !.alloc = @ \cup {d}, !.doc[d] = d]
            r    == PmmNodeToSv(made, d, NULL)
<1>2. d \in Docs /\ d \in Nodes /\ d \notin heap.live
  BY DEF Free, Nodes
<1>3. /\ made \in Heaps /\ SameProxies(heap, made) /\ made.alloc = heap.alloc \cup {d}
      /\ made.parent = heap.parent
  BY <1>2 DEF Sound, Counted, Heaps, SameProxies
<1>4. Counted(made)
  BY <1>3, TreeCounted DEF Sound
<1>. HIDE DEF made
<1>5. Counted(r)
  BY <1>2, <1>4, NodeToSvCounted
<1>6. /\ r.live = heap.live \cup {d} /\ r.alloc = heap.alloc \cup {d} /\ r.parent = heap.parent
      /\ r.handles[d] > 0
  BY <1>2, <1>3 DEF PmmNodeToSv, Heaps, SameProxies
<1>. HIDE DEF r
<1>7. Planted(r)
  BY <1>6 DEF Sound, Planted
<1>. QED BY <1>1, <1>2, <1>5, <1>6, <1>7, ReturnSound DEF Sound, made, r

(* The constructor of a fragment. *)
LEMMA createDocumentFragmentSound ==
  ASSUME Sound(heap), NEW d \in Docs, createDocumentFragment(d)
  PROVE  Sound(heap')
<1>1. PICK f \in Free(heap, Frags) :
        Return(PmmNodeToSv([heap EXCEPT !.alloc = @ \cup {f}, !.doc[f] = d], f, d), f)
  BY Zenon DEF createDocumentFragment
<1>. DEFINE made == [heap EXCEPT !.alloc = @ \cup {f}, !.doc[f] = d]
<1>2. f \in Nodes \ Docs /\ d \in heap.live
  BY NodesAssumption, HeldFacts DEF Free, Nodes, createDocumentFragment
<1>3. Sound(made) /\ SameProxies(heap, made)
  BY Zenon, <1>2, MadeSound
<1>. HIDE DEF made
<1>4. d \in made.live
  BY <1>2, <1>3 DEF SameProxies
<1>. QED BY <1>1, <1>2, <1>3, <1>4, GivenSound DEF made

(* A node in new memory is put into a new fragment. *)
LEMMA InNewFragmentSound ==
  ASSUME NEW h, Sound(h), NEW n \in Nodes \ Docs, NEW d \in (Docs \cap h.live) \cup {NULL},
         NEW f \in Frags \ h.live
  PROVE  Sound(InNewFragment(h, n, d, f)) /\ InNewFragment(h, n, d, f).handles[n] > 0
<1>. DEFINE made == [h EXCEPT !.alloc = @ \cup {n}, !.doc[n] = d]
            frag == PmmNewFragment(made, f, d)
            put  == AddChild(frag, f, n)
<1>1. Sound(made) /\ SameProxies(h, made)
  BY Zenon, MadeSound
<1>. HIDE DEF made
<1>2. Sound(frag) /\ frag.live = h.live \cup {f}
  <2>1. f \in Frags \ made.live /\ d \in (Docs \cap made.live) \cup {NULL} /\ made.live = h.live
    BY <1>1 DEF SameProxies
  <2>. QED BY <1>1, <2>1, NewFragmentSound
<1>. HIDE DEF frag
<1>3. f \in Nodes \ Attrs
  BY NodesAssumption DEF Nodes
<1>4. Sound(put) /\ f \in put.live
  BY <1>2, <1>3, AddChildSound DEF SameProxies
<1>. HIDE DEF put
<1>5. Sound(PmmNodeToSv(put, n, f)) /\ PmmNodeToSv(put, n, f).handles[n] > 0
  BY <1>4, NodeToSvSound
<1>. QED BY <1>5 DEF InNewFragment, put, frag, made

(* The constructors of elements and of other nodes with a parent. *)
LEMMA createElementSound ==
  ASSUME Sound(heap), NEW d \in Docs \cup {NULL}, createElement(d)
  PROVE  Sound(heap')
<1>1. PICK e \in Free(heap, Elems), f \in Free(heap, Frags) :
        Return(InNewFragment(heap, e, d, f), e)
  BY DEF createElement
<1>2. e \in Nodes \ Docs /\ f \in Frags \ heap.live
  BY NodesAssumption DEF Free, Nodes
<1>3. d \in (Docs \cap heap.live) \cup {NULL}
  BY HeldFacts DEF createElement
<1>4. Sound(InNewFragment(heap, e, d, f)) /\ InNewFragment(heap, e, d, f).handles[e] > 0
  BY <1>2, <1>3, InNewFragmentSound
<1>. QED BY <1>1, <1>2, <1>4, ReturnSound

(* The constructor of an attribute. *)
LEMMA createAttributeSound ==
  ASSUME Sound(heap), NEW d \in Docs, createAttribute(d)
  PROVE  Sound(heap')
<1>1. PICK a \in Free(heap, Attrs) :
        Return(PmmNodeToSv([heap EXCEPT !.alloc = @ \cup {a}, !.doc[a] = d], a, d), a)
  BY Zenon DEF createAttribute
<1>. DEFINE made == [heap EXCEPT !.alloc = @ \cup {a}, !.doc[a] = d]
<1>2. a \in Nodes \ Docs /\ d \in heap.live
  BY NodesAssumption, HeldFacts DEF Free, Nodes, createAttribute
<1>3. Sound(made) /\ SameProxies(heap, made)
  BY Zenon, <1>2, MadeSound
<1>. HIDE DEF made
<1>4. d \in made.live
  BY <1>2, <1>3 DEF SameProxies
<1>. QED BY <1>1, <1>2, <1>3, <1>4, GivenSound DEF made

(* setAttribute makes an attribute without a proxy. *)
LEMMA setAttributeSound ==
  ASSUME Sound(heap), NEW e \in Elems, setAttribute(e)
  PROVE  Sound(heap')
<1>1. PICK a \in Free(heap, Attrs) :
        heap' = [heap EXCEPT !.alloc = @ \cup {a}, !.parent[a] = e, !.doc[a] = heap.doc[e]]
  BY Zenon DEF setAttribute
<1>2. /\ a \in Nodes \ Docs /\ e \in Nodes \ Attrs /\ heap \in Heaps
      /\ heap.doc[e] \in Docs \cup {NULL}
  BY NodesAssumption DEF Free, Nodes, Sound, Counted, Heaps
<1>. DEFINE made == [heap EXCEPT !.alloc = @ \cup {a}, !.doc[a] = heap.doc[e]]
<1>3. Sound(made)
  BY Zenon, <1>2, MadeSound
<1>4. heap' = AddChild(made, e, a)
  BY <1>1, <1>2 DEF AddChild, Heaps
<1>. HIDE DEF made
<1>. QED BY <1>2, <1>3, <1>4, AddChildSound

(* Navigation and DESTROY. *)
LEMMA VisitSound ==
  ASSUME Sound(heap), Visit
  PROVE  Sound(heap')
<1>. PICK n \in Kept :
       DESTROY(n) \/ ownerDocument(n) \/ ownerNode(n) \/ \E m \in Nodes : navigate(n, m)
  BY DEF Visit
<1>1. CASE DESTROY(n)
  <2>1. n \in Nodes /\ heap.handles[n] > 0
    BY DEF Kept, Sound, Counted, Heaps
  <2>. QED BY <1>1, <2>1, DropSettled DEF DESTROY
<1>2. CASE ownerDocument(n)
  <2>1. heap.doc[n] \in Nodes
    BY <1>2 DEF ownerDocument, Sound, Counted, Heaps
  <2>. QED BY <1>2, <2>1, GivenSound DEF ownerDocument
<1>3. CASE ownerNode(n)
  <2>1. PmmOWNERPO(heap, n) \in Nodes
    BY <1>3 DEF ownerNode, Sound, Counted, Heaps
  <2>. QED BY <1>3, <2>1, GivenSound DEF ownerNode
<1>4. ASSUME NEW m \in Nodes, navigate(n, m) PROVE Sound(heap')
  <2>1. n \in heap.live
    BY <1>4, HeldFacts DEF navigate
  <2>2. PmmOWNERPO(heap, n) \in heap.live
    BY <2>1, OwnerLive
  <2>. QED BY <1>4, <2>2, GivenSound DEF navigate
<1>. QED BY <1>1, <1>2, <1>3, <1>4

-----------------------------------------------------------------------------
(* The handlers that place a node. *)

(* The kinds of nodes are disjoint. *)
LEMMA KindFacts ==
  /\ Docs \subseteq Nodes /\ Frags \subseteq Nodes /\ Elems \subseteq Nodes /\ Attrs \subseteq Nodes
  /\ Frags \subseteq Nodes \ Attrs /\ Frags \subseteq Nodes \ Docs
  /\ Elems \subseteq Nodes \ Attrs /\ Elems \subseteq Nodes \ Docs
  /\ Docs \subseteq Nodes \ Attrs /\ Attrs \subseteq Nodes \ Docs
  /\ NULL \notin Nodes
BY NodesAssumption DEF Nodes

(* appendChild. *)
LEMMA appendChildSound ==
  ASSUME Sound(heap), NEW s \in Nodes, NEW n \in Nodes, appendChild(s, n)
  PROVE  Sound(heap')
<1>. DEFINE tree == Graft(heap, s, n)
<1>1. s \in heap.live /\ s \in Nodes \ Attrs /\ n \in Elems \cup Frags
  BY HeldFacts DEF appendChild, HierarchyOK
<1>2. Sound(tree) /\ SameProxies(heap, tree)
  BY <1>1, GraftSound
<1>3. PmmOWNERPO(heap, s) \in tree.live /\ s \in tree.live
  BY <1>1, <1>2, OwnerLive DEF SameProxies
<1>4. Return(PmmFixOwner(PmmNodeToSv(tree, n, PmmOWNERPO(heap, s)), n, s), n)
  BY DEF appendChild
<1>. HIDE DEF tree
<1>. QED BY <1>2, <1>3, <1>4, GivenFixed, ReturnSound

(* A node is unlinked, gets the document of s and becomes a child of s. *)
LEMMA MovedBelowSound ==
  ASSUME NEW h, Sound(h), NEW n \in Nodes \ Docs, NEW s \in Nodes \ Attrs, NEW d \in Docs \cup {NULL}
  PROVE  /\ Sound(AddChild(SetTreeDoc(Unlink(h, n), n, d), s, n))
         /\ SameProxies(h, AddChild(SetTreeDoc(Unlink(h, n), n, d), s, n))
<1>. DEFINE a == Unlink(h, n)
            b == SetTreeDoc(a, n, d)
            c == AddChild(b, s, n)
<1>1. Sound(a) /\ SameProxies(h, a)
  BY UnlinkSound
<1>. HIDE DEF a
<1>2. Sound(b) /\ SameProxies(a, b)
  BY <1>1, SetTreeDocSound
<1>. HIDE DEF b
<1>3. Sound(c) /\ SameProxies(b, c)
  BY <1>2, AddChildSound
<1>. HIDE DEF c
<1>4. SameProxies(h, c)
  BY <1>1, <1>2, <1>3 DEF SameProxies
<1>. QED BY <1>3, <1>4 DEF a, b, c

(* addChild of a node that is no attribute. *)
LEMMA addChildSound ==
  ASSUME Sound(heap), NEW s \in Nodes, NEW n \in Nodes, addChild(s, n)
  PROVE  Sound(heap')
<1>. DEFINE tree == AddChild(SetTreeDoc(Unlink(heap, n), n, heap.doc[s]), s, n)
<1>1. s \in heap.live /\ s \in Nodes \ Attrs /\ n \in Nodes \ Docs
      /\ heap.doc[s] \in Docs \cup {NULL}
  BY HeldFacts, KindFacts DEF addChild
<1>2. Sound(tree) /\ SameProxies(heap, tree)
  BY <1>1, MovedBelowSound
<1>3. PmmOWNERPO(heap, s) \in tree.live /\ s \in tree.live
  BY <1>1, <1>2, OwnerLive DEF SameProxies
<1>4. Return(PmmFixOwner(PmmNodeToSv(tree, n, PmmOWNERPO(heap, s)), n, s), n)
  BY DEF addChild
<1>. HIDE DEF tree
<1>. QED BY <1>2, <1>3, <1>4, GivenFixed, ReturnSound

(* addChild of an attribute, which replaces one of the same name. *)
LEMMA addChildAttributeSound ==
  ASSUME Sound(heap), NEW s \in Nodes, NEW n \in Nodes, NEW old, addChildAttribute(s, n, old)
  PROVE  Sound(heap')
<1>. DEFINE a == Unlink(heap, n)
            b == SetTreeDoc(a, n, heap.doc[s])
            c == xmlFreed(b, {old})
            e == AddChild(c, s, n)
<1>1. s \in heap.live /\ s \in Nodes \ Attrs /\ n \in Nodes \ Docs
      /\ heap.doc[s] \in Docs \cup {NULL}
  BY HeldFacts, KindFacts DEF addChildAttribute
<1>2. Sound(a) /\ SameProxies(heap, a)
  BY UnlinkSound
<1>. HIDE DEF a
<1>3. Sound(b) /\ SameProxies(a, b)
  BY <1>1, <1>2, SetTreeDocSound
<1>. HIDE DEF b
<1>4. Sound(c) /\ SameProxies(b, c)
  BY <1>3, FreedSound
<1>. HIDE DEF c
<1>5. Sound(e) /\ SameProxies(c, e)
  BY <1>1, <1>4, AddChildSound
<1>. HIDE DEF e
<1>6. PmmOWNERPO(heap, s) \in e.live /\ s \in e.live
  <2>1. e.live = heap.live
    BY <1>2, <1>3, <1>4, <1>5 DEF SameProxies
  <2>. QED BY <1>1, <2>1, OwnerLive
<1>7. Return(PmmFixOwner(PmmNodeToSv(e, n, PmmOWNERPO(heap, s)), n, s), n)
  BY DEF addChildAttribute, e, c, b, a
<1>. QED BY <1>5, <1>6, <1>7, GivenFixed, ReturnSound

(* insertBefore and insertAfter. *)
LEMMA insertBeforeSound ==
  ASSUME Sound(heap), NEW s \in Nodes, NEW n \in Nodes, NEW r, NEW first \in Nodes,
         insertBefore(s, n, r, first)
  PROVE  Sound(heap')
<1>. DEFINE lost == r = NULL /\ Kids(heap, s) = {n}
            tree == IF lost THEN Unlink(heap, n) ELSE Graft(heap, s, n)
            to   == PmmOWNERPO(heap, s)
<1>1. s \in heap.live /\ s \in Nodes \ Attrs /\ n \in Elems \cup Frags
  BY HeldFacts DEF insertBefore, HierarchyOK
<1>2. Sound(tree) /\ SameProxies(heap, tree)
  <2>1. Sound(Graft(heap, s, n)) /\ SameProxies(heap, Graft(heap, s, n))
    BY <1>1, GraftSound
  <2>2. Sound(Unlink(heap, n)) /\ SameProxies(heap, Unlink(heap, n))
    BY UnlinkSound
  <2>. QED BY <2>1, <2>2
<1>3. to \in tree.live
  BY <1>1, <1>2, OwnerLive DEF SameProxies
<1>4. Return(PmmFixOwner(PmmNodeToSv(tree, first, to), first, to), first)
  BY DEF insertBefore
<1>. HIDE DEF tree, to
<1>. QED BY <1>2, <1>3, <1>4, GivenFixed, ReturnSound

(* insertBefore where the reference node is the new node. *)
LEMMA insertBeforeItselfSound ==
  ASSUME Sound(heap), NEW s \in Nodes, NEW n \in Nodes, insertBeforeItself(s, n)
  PROVE  Sound(heap')
<1>1. PmmOWNERPO(heap, s) \in heap.live
  BY HeldFacts, OwnerLive DEF insertBeforeItself
<1>2. Return(PmmFixOwner(PmmNodeToSv(heap, n, PmmOWNERPO(heap, s)), n, PmmOWNERPO(heap, s)), n)
  BY DEF insertBeforeItself
<1>. QED BY <1>1, <1>2, GivenFixed, ReturnSound

(* What Replace takes out, before it gets a fragment of its own. *)
LEMMA ReplaceCut ==
  ASSUME Sound(heap), NEW s \in Nodes, NEW n \in Nodes, NEW old \in Nodes, NEW to,
         Held(n), Held(old), Replace(s, n, old, to),
         NEW cut, cut = Unlink(Graft(heap, s, n), old)
  PROVE  /\ s \in Nodes \ Attrs /\ n \in Elems \cup Frags /\ old \in Nodes \ Docs
         /\ Sound(cut) /\ cut.live = heap.live /\ cut.handles = heap.handles
         /\ cut.doc[old] \in (Docs \cap cut.live) \cup {NULL}
<1>. PICK grown : grown = Graft(heap, s, n)
  OBVIOUS
<1>1. s \in Nodes \ Attrs /\ n \in Elems \cup Frags /\ old \in Nodes \ Docs
  <2>1. heap.parent[old] = s
    BY DEF Replace, Kids, Below
  <2>. QED BY <2>1, KindFacts DEF Replace, HierarchyOK, Sound, Planted
<1>2. Sound(grown) /\ SameProxies(heap, grown)
      /\ grown.doc[old] \in {heap.doc[old], heap.doc[s]}
  BY <1>1, GraftSound
<1>3. Sound(cut) /\ SameProxies(grown, cut) /\ cut.doc = grown.doc
  BY <1>2, UnlinkSound
<1>4. /\ heap.doc[old] \in (Docs \cap heap.live) \cup {NULL}
      /\ heap.doc[s] \in (Docs \cap heap.live) \cup {NULL}
  <2>1. heap.doc[s] \in Docs \cup {NULL} /\ heap.doc[s] \in heap.alloc \cup {NULL}
    BY DEF Replace, DocInMemory, Sound, Counted, Heaps
  <2>2. heap.doc[s] \in (Docs \cap heap.live) \cup {NULL}
    BY <2>1 DEF Sound, Planted
  <2>. QED BY <2>2, HeldFacts
<1>. QED BY <1>1, <1>2, <1>3, <1>4 DEF SameProxies

(* The owner to outlives the removal of old, as a program without the use
   UnheldRoot sees to. *)
LEMMA ReplaceKeeps ==
  ASSUME Sound(heap), "UnheldRoot" \notin Uses,
         NEW s \in Nodes, NEW n \in Nodes, NEW old \in Nodes, NEW to,
         Held(n), Held(old), Replace(s, n, old, to), NEW f \in Free(heap, Frags)
  PROVE  to \in Reparent(Unlink(Graft(heap, s, n), old), old, f).live
<1>. PICK cut : cut = Unlink(Graft(heap, s, n), old)
  OBVIOUS
<1>1. /\ old \in Nodes \ Docs /\ Sound(cut) /\ cut.live = heap.live
      /\ cut.doc[old] \in (Docs \cap cut.live) \cup {NULL}
  BY ReplaceCut
<1>2. f \in Frags \ cut.live
  BY <1>1 DEF Free
<1>3. KeptOutside(cut, Subtree(cut, old), to)
  BY DEF Replace
<1>. QED BY <1>1, <1>2, <1>3, ReparentKeeps

(* replaceChild and replaceNode, once their tests are passed. *)
LEMMA ReplaceSound ==
  ASSUME Sound(heap), "UnheldRoot" \notin Uses,
         NEW s \in Nodes, NEW n \in Nodes, NEW old \in Nodes, NEW to,
         Held(n), Held(old), Replace(s, n, old, to)
  PROVE  Sound(heap')
<1>. PICK cut : cut = Unlink(Graft(heap, s, n), old)
  OBVIOUS
<1>1. PICK f \in Free(heap, Frags) :
        LET out  == Reparent(cut, old, f)
            kept == PmmNodeToSv(out, old, PmmOWNERPO(out, old))
        IN  Return(PmmFixOwner(kept, n, to), old)
  BY DEF Replace
<1>2. /\ old \in Nodes \ Docs /\ Sound(cut) /\ cut.live = heap.live /\ cut.handles = heap.handles
      /\ cut.doc[old] \in (Docs \cap cut.live) \cup {NULL}
  BY ReplaceCut
<1>3. f \in Frags \ cut.live
  BY <1>2 DEF Free
<1>. PICK out : out = Reparent(cut, old, f)
  OBVIOUS
<1>. PICK kept : kept = PmmNodeToSv(out, old, PmmOWNERPO(out, old))
  OBVIOUS
<1>. PICK done : done = PmmFixOwner(kept, n, to)
  OBVIOUS
<1>4. heap.handles[old] > 0 /\ heap.handles[n] > 0
  BY HeldFacts
<1>5. Sound(out) /\ out.handles = heap.handles
  BY <1>2, <1>3, <1>4, ReparentSound
<1>6. to \in out.live /\ Return(done, old)
  BY <1>1, ReplaceKeeps
<1>7. old \in out.live
  BY <1>4, <1>5 DEF Sound, Counted
<1>8. PmmOWNERPO(out, old) \in out.live
  BY <1>5, <1>7, OwnerLive
<1>9. /\ Sound(kept) /\ kept.live = out.live \cup {old}
      /\ kept.handles[old] > 0 /\ kept.handles[n] > 0
  <2>1. out.handles[n] > 0
    BY <1>4, <1>5
  <2>. QED BY <1>5, <1>8, <2>1, NodeToSvSound
<1>10. n \in kept.live /\ to \in kept.live
  BY <1>6, <1>9 DEF Sound, Counted
<1>11. Settled(kept, done)
  BY <1>9, <1>10, FixOwnerSettled
<1>12. Sound(done) /\ done.handles[old] > 0
  BY <1>9, <1>11 DEF Settled
<1>. QED BY <1>6, <1>12, ReturnSound

(* replaceChild. *)
LEMMA replaceChildSound ==
  ASSUME Sound(heap), "UnheldRoot" \notin Uses,
         NEW s \in Nodes, NEW n \in Nodes, NEW old \in Nodes, replaceChild(s, n, old)
  PROVE  Sound(heap')
<1>1. CASE Replace(s, n, old, PmmOWNERPO(heap, s))
  BY <1>1, ReplaceSound DEF replaceChild
<1>2. CASE Return(PmmNodeToSv(heap, n, PmmOWNERPO(heap, n)), n)
  BY <1>2, HeldFacts, OwnerLive, GivenSound DEF replaceChild
<1>. QED BY <1>1, <1>2 DEF replaceChild

(* replaceNode, of a node whose root is held. *)
LEMMA replaceNodeSound ==
  ASSUME Sound(heap), "UnheldRoot" \notin Uses,
         NEW old \in Nodes, NEW n \in Nodes, replaceNode(old, n)
  PROVE  Sound(heap')
<1>1. heap.parent[old] \in Nodes
  BY DEF replaceNode, Sound, Counted, Heaps
<1>. QED BY <1>1, ReplaceSound DEF replaceNode

(* A held node becomes the root of the document d. *)
LEMMA RootPlacedSound ==
  ASSUME NEW h, Sound(h), NEW d \in Docs \cap h.live, NEW e \in Elems, h.handles[e] > 0
  PROVE  LET r == PmmFixOwner(AddChild(SetTreeDoc(Unlink(h, e), e, d), d, e), e, d)
         IN  Sound(r) /\ r.handles = h.handles
<1>. DEFINE put == AddChild(SetTreeDoc(Unlink(h, e), e, d), d, e)
<1>1. e \in Nodes /\ e \in Nodes \ Docs /\ d \in Nodes \ Attrs /\ d \in Docs \cup {NULL}
  BY KindFacts
<1>2. Sound(put) /\ SameProxies(h, put)
  BY <1>1, MovedBelowSound
<1>3. e \in put.live /\ d \in put.live /\ put.handles[e] > 0
  BY <1>1, <1>2 DEF SameProxies, Sound, Counted
<1>. HIDE DEF put
<1>4. Settled(put, PmmFixOwner(put, e, d))
  BY <1>2, <1>3, FixOwnerSettled
<1>. QED BY <1>2, <1>4 DEF Settled, SameProxies, put

(* setDocumentElement. *)
LEMMA setDocumentElementSound ==
  ASSUME Sound(heap), NEW d \in Nodes, NEW e \in Nodes, setDocumentElement(d, e)
  PROVE  Sound(heap')
<1>. DEFINE place(h) == PmmFixOwner(AddChild(SetTreeDoc(Unlink(h, e), e, d), d, e), e, d)
<1>1. /\ d \in Docs \cap heap.live /\ e \in Elems /\ heap.handles[d] > 0 /\ heap.handles[e] > 0
  BY HeldFacts DEF setDocumentElement
<1>2. CASE Kids(heap, d) = {}
  <2>1. heap' = place(heap)
    BY <1>2 DEF setDocumentElement
  <2>. QED BY <1>1, <2>1, RootPlacedSound
<1>3. CASE Kids(heap, d) # {}
  <2>1. PICK old \in Kids(heap, d), f \in Free(heap, Frags) :
          /\ DocInMemory(heap, old)
          /\ heap' = Drop(place(Reparent(Unlink(PmmNodeToSv(heap, old, d), old), old, f)), old)
    BY <1>3 DEF setDocumentElement
  <2>. DEFINE got == PmmNodeToSv(heap, old, d)
              cut == Unlink(got, old)
              out == Reparent(cut, old, f)
  <2>2. /\ old \in Nodes \ Docs /\ f \in Frags \ (heap.live \cup {old})
        /\ heap.doc[old] \in (Docs \cap heap.live) \cup {NULL}
    <3>1. old \in heap.alloc /\ heap.parent[old] = d /\ d # NULL
      BY <1>1, KindFacts DEF Kids, Below
    <3>2. heap \in Heaps /\ Planted(heap)
      BY DEF Sound, Counted
    <3>3. old \in Nodes \ Docs
      BY <3>1, <3>2 DEF Heaps, Planted
    <3>4. heap.doc[old] \in Docs \cup {NULL}
      BY <3>2, <3>3 DEF Heaps
    <3>. QED BY <2>1, <3>1, <3>2, <3>3, <3>4 DEF Free, DocInMemory, Planted
  <2>3. /\ Sound(got) /\ got.live = heap.live \cup {old} /\ got.doc = heap.doc
        /\ got.handles[old] > 0 /\ got.handles[d] > 0 /\ got.handles[e] > 0
    BY <1>1, <2>2, NodeToSvSound
  <2>. HIDE DEF got
  <2>4. Sound(cut) /\ SameProxies(got, cut) /\ cut.doc = got.doc
    BY <2>2, <2>3, UnlinkSound
  <2>. HIDE DEF cut
  <2>5. Sound(out) /\ out.handles = got.handles
    <3>1. /\ f \in Frags \ cut.live /\ cut.handles = got.handles
          /\ cut.doc[old] \in (Docs \cap cut.live) \cup {NULL}
      BY <2>2, <2>3, <2>4 DEF SameProxies
    <3>. QED BY <2>2, <2>3, <2>4, <3>1, ReparentSound
  <2>. HIDE DEF out
  <2>6. d \in Docs \cap out.live
    BY <1>1, <2>3, <2>5, KindFacts DEF Sound, Counted
  <2>7. Sound(place(out)) /\ place(out).handles = out.handles
    BY <1>1, <2>3, <2>5, <2>6, RootPlacedSound
  <2>8. heap' = Drop(place(out), old)
    BY <2>1 DEF out, cut, got
  <2>. HIDE DEF place
  <2>. QED BY <2>2, <2>3, <2>5, <2>7, <2>8, DropSettled
<1>. QED BY <1>2, <1>3

(* adoptNode. *)
LEMMA adoptNodeSound ==
  ASSUME Sound(heap), NEW d \in Nodes, NEW n \in Nodes, adoptNode(d, n)
  PROVE  Sound(heap')
<1>. DEFINE a == Unlink(heap, n)
            b == SetTreeDoc(a, n, d)
<1>1. PICK f \in Free(heap, Frags) :
        LET frag == PmmNodeToSv(PmmNewFragment(b, f, d), n, f)
        IN  Return(PmmFixOwner(AddChild(frag, f, n), n, f), n)
  BY DEF adoptNode
<1>. DEFINE frag  == PmmNewFragment(b, f, d)
            given == PmmNodeToSv(frag, n, f)
            put   == AddChild(given, f, n)
<1>2. /\ d \in Docs \cap heap.live /\ n \in Nodes \ Docs /\ heap.handles[n] > 0
      /\ f \in Frags \ heap.live /\ f \in Nodes \ Attrs
  BY HeldFacts, KindFacts DEF adoptNode, Free
<1>3. Sound(a) /\ SameProxies(heap, a)
  BY UnlinkSound
<1>. HIDE DEF a
<1>4. Sound(b) /\ SameProxies(a, b)
  BY <1>2, <1>3, SetTreeDocSound
<1>. HIDE DEF b
<1>5. b.live = heap.live
  BY <1>3, <1>4 DEF SameProxies
<1>6. Sound(frag) /\ frag.live = heap.live \cup {f}
  BY <1>2, <1>4, <1>5, NewFragmentSound
<1>. HIDE DEF frag
<1>7. Sound(given) /\ given.live = frag.live \cup {n} /\ given.handles[n] > 0
  BY <1>6, NodeToSvSound
<1>. HIDE DEF given
<1>8. Sound(put) /\ SameProxies(given, put)
  BY <1>2, <1>7, AddChildSound
<1>. HIDE DEF put
<1>9. n \in put.live /\ f \in put.live /\ put.handles[n] > 0
  BY <1>6, <1>7, <1>8 DEF SameProxies
<1>10. Settled(put, PmmFixOwner(put, n, f))
  BY <1>8, <1>9, FixOwnerSettled
<1>11. Return(PmmFixOwner(put, n, f), n)
  BY <1>1 DEF put, given, frag
<1>12. Sound(PmmFixOwner(put, n, f)) /\ PmmFixOwner(put, n, f).handles[n] > 0
  BY <1>9, <1>10 DEF Settled
<1>. QED BY <1>11, <1>12, ReturnSound

(* setAttributeNode. *)
LEMMA setAttributeNodeSound ==
  ASSUME Sound(heap), NEW s \in Nodes, NEW a \in Nodes, NEW old, setAttributeNode(s, a, old)
  PROVE  Sound(heap')
<1>. DEFINE u     == Unlink(heap, a)
            there == SetTreeDoc(u, a, heap.doc[s])
            over  == [m \in Nodes |-> IF m = a THEN s ELSE IF m = old THEN NULL ELSE there.parent[m]]
            put   == [there EXCEPT !.parent = over]
            set   == PmmFixOwner(put, a, s)
<1>1. /\ s \in heap.live /\ s \in Nodes \ Attrs /\ s \in Nodes
      /\ a \in heap.live /\ a \in Attrs /\ a \notin Docs
      /\ heap.doc[s] \in Docs \cup {NULL}
      /\ NULL \notin Attrs /\ Docs \subseteq Nodes
  BY HeldFacts, KindFacts DEF setAttributeNode
<1>2. Sound(u) /\ SameProxies(heap, u)
  BY UnlinkSound
<1>. HIDE DEF u
<1>3. Sound(there) /\ SameProxies(u, there)
  BY <1>1, <1>2, SetTreeDocSound
<1>. HIDE DEF there
<1>4. there \in Heaps /\ Planted(there)
  BY <1>3 DEF Sound, Counted
<1>5. over \in [Nodes -> Nodes \cup {NULL}]
  BY <1>1, <1>4 DEF Heaps
<1>6. /\ put \in Heaps /\ SameProxies(there, put) /\ put.alloc = there.alloc
      /\ put.parent = over
  <2>. HIDE DEF over
  <2>. QED BY <1>4, <1>5 DEF Heaps, SameProxies
<1>. HIDE DEF put
<1>7. Planted(put)
  <2>1. \A d \in Docs : put.parent[d] = NULL
    BY <1>1, <1>4, <1>6 DEF Planted
  <2>2. \A m \in Nodes : put.parent[m] \notin Attrs
    BY <1>1, <1>4, <1>6 DEF Planted
  <2>. QED BY <2>1, <2>2, <1>4, <1>6 DEF Planted, SameProxies
<1>8. Sound(put)
  BY <1>3, <1>6, <1>7, TreeCounted DEF Sound
<1>9. a \in put.live /\ s \in put.live
  BY <1>1, <1>2, <1>3, <1>6 DEF SameProxies
<1>10. Settled(put, set)
  BY <1>1, <1>8, <1>9, FixOwnerSettled
<1>11. IF old = NULL THEN heap' = set
       ELSE Return(PmmFixOwner(PmmNodeToSv(set, old, NULL), old, NULL), old)
  BY DEF setAttributeNode, put, there, u
<1>. HIDE DEF set
<1>12. Sound(set)
  BY <1>10 DEF Settled
<1>13. CASE old = NULL
  BY <1>11, <1>12, <1>13
<1>14. CASE old # NULL
  <2>1. old \in Nodes
    BY <1>14 DEF setAttributeNode, Props, Below, Sound, Counted, Heaps
  <2>. QED BY <1>11, <1>12, <1>14, <2>1, GivenFixed, ReturnSound
<1>. QED BY <1>13, <1>14

-----------------------------------------------------------------------------
(* The handlers that remove a node. *)

(* removeChild. *)
LEMMA removeChildSound ==
  ASSUME Sound(heap), NEW s \in Nodes, NEW n \in Nodes, removeChild(s, n)
  PROVE  Sound(heap')
<1>. DEFINE cut == Unlink(heap, n)
<1>1. PICK f \in Free(heap, Frags) : Return(PmmNodeToSv(Reparent(cut, n, f), n, NULL), n)
  BY DEF removeChild
<1>2. /\ n \in Nodes \ Docs /\ f \in Frags \ heap.live /\ heap.handles[n] > 0
      /\ heap.doc[n] \in (Docs \cap heap.live) \cup {NULL}
  <2>1. heap.parent[n] = s /\ s # NULL
    BY KindFacts DEF removeChild, Kids, Below
  <2>2. Planted(heap)
    BY DEF Sound
  <2>. QED BY <2>1, <2>2, HeldFacts DEF removeChild, Free, Planted
<1>3. Sound(cut) /\ SameProxies(heap, cut) /\ cut.doc = heap.doc
  BY UnlinkSound
<1>4. /\ f \in Frags \ cut.live /\ cut.handles[n] > 0
      /\ cut.doc[n] \in (Docs \cap cut.live) \cup {NULL}
  BY <1>2, <1>3 DEF SameProxies
<1>. HIDE DEF cut
<1>5. Sound(Reparent(cut, n, f))
  BY <1>2, <1>3, <1>4, ReparentSound
<1>. QED BY <1>1, <1>5, GivenSound

(* The count that removeChildNodes took on its fragment covers the release
   it ends with. *)
LEMMA GivenUpFacts ==
  ASSUME NEW h, Sound(h), NEW f \in Nodes, NEW mid, mid = GivenUp(h, f), NEW drops, drops = OneOf(f)
  PROVE  /\ mid \in Heaps /\ drops \in Ledgers /\ Owed(mid, drops) /\ Planted(mid)
         /\ mid.live = h.live /\ mid.owner = h.owner /\ mid.handles = h.handles
         /\ mid.parent = h.parent /\ mid.alloc = h.alloc /\ mid.doc = h.doc
         /\ \A q \in Nodes : mid.count[q] = IF q = f THEN h.count[q] + 1 ELSE h.count[q]
         /\ \A q \in Nodes : drops[q] = IF q = f THEN 1 ELSE 0
         /\ \A q \in Nodes : mid.handles[q] > 0 => q \in mid.live
         /\ \A q \in mid.live : mid.owner[q] \in mid.live \cup {NULL}
<1>1. h \in Heaps /\ h.live \in SUBSET Nodes
  BY DEF Sound, Counted, Heaps
<1>2. drops \in Ledgers /\ \A q \in Nodes : drops[q] = IF q = f THEN 1 ELSE 0
  BY DEF Ledgers, OneOf
<1>3. [h.count EXCEPT ![f] = h.count[f] + 1] \in [Nodes -> Int]
  BY <1>1 DEF Heaps
<1>4. /\ mid \in Heaps /\ mid.live = h.live /\ mid.owner = h.owner /\ mid.handles = h.handles
      /\ mid.parent = h.parent /\ mid.alloc = h.alloc /\ mid.doc = h.doc
      /\ mid.count = [h.count EXCEPT ![f] = h.count[f] + 1]
  BY <1>1, <1>3 DEF Heaps, GivenUp
<1>5. \A q \in Nodes : mid.count[q] = IF q = f THEN h.count[q] + 1 ELSE h.count[q]
  BY <1>1, <1>4 DEF Heaps
<1>6. Owed(mid, drops)
  <2>. SUFFICES ASSUME NEW q \in h.live
                PROVE  mid.count[q] = mid.handles[q] + Cardinality(Ownees(mid, h.live, q)) + drops[q]
    BY <1>4 DEF Owed
  <2>1. Ownees(mid, h.live, q) = Ownees(h, h.live, q)
    BY <1>4 DEF Ownees
  <2>2. h.count[q] = h.handles[q] + Cardinality(Ownees(h, h.live, q))
    BY <1>1 DEF Sound, Counted
  <2>3. h.handles[q] \in Nat /\ Cardinality(Ownees(h, h.live, q)) \in Nat /\ q \in Nodes
    BY <1>1, OwneesFinite DEF Heaps
  <2>4. mid.count[q] = h.count[q] + drops[q] /\ drops[q] \in Nat /\ h.count[q] \in Int
    BY <1>1, <1>2, <1>5, <2>3 DEF Heaps
  <2>. QED BY <1>4, <2>1, <2>2, <2>3, <2>4
<1>7. Planted(mid)
  BY <1>4 DEF Sound, Planted
<1>8. /\ \A q \in Nodes : mid.handles[q] > 0 => q \in mid.live
      /\ \A q \in mid.live : mid.owner[q] \in mid.live \cup {NULL}
  BY <1>4 DEF Sound, Counted
<1>. QED BY <1>2, <1>4, <1>5, <1>6, <1>7, <1>8

(* A reference taken and released at once, as PmmREFCNT_inc and
   PmmREFCNT_dec at the end of removeChildNodes. *)
LEMMA IncDecSound ==
  ASSUME NEW h, Sound(h), NEW f \in Nodes
  PROVE  Sound(PmmREFCNT_dec(GivenUp(h, f), OneOf(f)))
<1>. PICK mid, drops : mid = GivenUp(h, f) /\ drops = OneOf(f)
  OBVIOUS
<1>1. Settled(mid, PmmREFCNT_dec(mid, drops))
  BY GivenUpFacts, DecSettled
<1>. QED BY <1>1 DEF Settled

(* removeChildNodes, which frees the fragment again when no child is held. *)
LEMMA removeChildNodesSound ==
  ASSUME Sound(heap), NEW s \in Nodes, removeChildNodes(s)
  PROVE  Sound(heap')
<1>. DEFINE kids == Kids(heap, s)
<1>1. PICK f \in Free(heap, Frags) :
        LET frag  == PmmNewFragment(heap, f, heap.doc[s])
            moved == [frag EXCEPT !.parent = [n \in Nodes |-> IF n \in kids THEN f ELSE @[n]]]
            fixed == PmmFixOwnerNodes(moved, kids, f)
        IN  heap' = IF fixed.count[f] > 0 THEN fixed
                    ELSE PmmREFCNT_dec([fixed EXCEPT !.count[f] = @ + 1],
                                       [q \in Nodes |-> IF q = f THEN 1 ELSE 0])
  BY ZenonT(60) DEF removeChildNodes
<1>. DEFINE frag  == PmmNewFragment(heap, f, heap.doc[s])
            over  == [n \in Nodes |-> IF n \in kids THEN f ELSE frag.parent[n]]
            moved == [frag EXCEPT !.parent = over]
            fixed == PmmFixOwnerNodes(moved, kids, f)
<1>2. /\ f \in Frags \ heap.live /\ f \in Nodes \ Attrs
      /\ heap.doc[s] \in (Docs \cap heap.live) \cup {NULL}
  BY HeldFacts, KindFacts DEF removeChildNodes, Free
<1>3. \A d \in Docs : d \notin kids
  BY KindFacts DEF Kids, Below, Sound, Planted
<1>4. /\ Sound(frag) /\ frag.live = heap.live \cup {f}
  BY <1>2, NewFragmentSound
<1>. HIDE DEF frag, kids
<1>5. frag \in Heaps /\ Planted(frag)
  BY <1>4 DEF Sound, Counted
<1>6. over \in [Nodes -> Nodes \cup {NULL}]
  BY <1>2, <1>5 DEF Heaps
<1>7. moved \in Heaps /\ SameProxies(frag, moved) /\ moved.alloc = frag.alloc /\ moved.parent = over
  <2>. HIDE DEF over
  <2>. QED BY SMTT(30), <1>5, <1>6 DEF Heaps, SameProxies
<1>8. heap' = IF fixed.count[f] > 0 THEN fixed
              ELSE PmmREFCNT_dec([fixed EXCEPT !.count[f] = @ + 1],
                                 [q \in Nodes |-> IF q = f THEN 1 ELSE 0])
  BY <1>1 DEF frag
<1>. HIDE DEF moved
<1>9. Planted(moved)
  <2>1. \A d \in Docs : moved.parent[d] = NULL
    BY <1>3, <1>5, <1>7, KindFacts DEF Planted
  <2>2. \A m \in Nodes : moved.parent[m] \notin Attrs
    BY <1>2, <1>5, <1>7 DEF Planted
  <2>. QED BY <2>1, <2>2, <1>5, <1>7 DEF Planted, SameProxies
<1>10. Sound(moved) /\ f \in moved.live
  BY <1>4, <1>7, <1>9, TreeCounted DEF Sound, SameProxies
<1>11. Sound(fixed)
  BY <1>10, FixOwnerNodesSettled DEF Settled
<1>. HIDE DEF fixed
<1>. QED BY <1>2, <1>8, <1>11, IncDecSound DEF GivenUp, OneOf

(* unbindNode. *)
LEMMA unbindNodeSound ==
  ASSUME Sound(heap), NEW n \in Nodes, unbindNode(n)
  PROVE  Sound(heap')
<1>1. CASE n \in Attrs
  BY <1>1, UnlinkSound DEF unbindNode
<1>2. CASE n \notin Attrs
  <2>. DEFINE cut == Unlink(heap, n)
  <2>1. PICK f \in Free(heap, Frags) : heap' = Reparent(cut, n, f)
    BY <1>2 DEF unbindNode
  <2>2. /\ n \in Nodes \ Docs /\ f \in Frags \ heap.live /\ heap.handles[n] > 0
        /\ heap.doc[n] \in (Docs \cap heap.live) \cup {NULL}
    BY HeldFacts DEF unbindNode, Free
  <2>3. Sound(cut) /\ SameProxies(heap, cut) /\ cut.doc = heap.doc
    BY UnlinkSound
  <2>4. /\ f \in Frags \ cut.live /\ cut.handles[n] > 0
        /\ cut.doc[n] \in (Docs \cap cut.live) \cup {NULL}
    BY <2>2, <2>3 DEF SameProxies
  <2>. HIDE DEF cut
  <2>. QED BY <2>1, <2>2, <2>3, <2>4, ReparentSound
<1>. QED BY <1>1, <1>2

(* removeAttribute. *)
LEMMA removeAttributeSound ==
  ASSUME Sound(heap), NEW s \in Nodes, NEW a \in Nodes, removeAttribute(s, a)
  PROVE  Sound(heap')
<1>. DEFINE cut == Unlink(heap, a)
<1>1. CASE a \in heap.live
  <2>1. a \in Attrs /\ heap' = PmmFixOwner(cut, a, NULL)
    BY <1>1 DEF removeAttribute, Props
  <2>2. Sound(cut) /\ a \in cut.live
    BY <1>1, UnlinkSound DEF SameProxies
  <2>. HIDE DEF cut
  <2>. QED BY <2>1, <2>2, FixOwnerSettled DEF Settled
<1>2. CASE a \notin heap.live
  BY <1>2, FreedSound DEF removeAttribute
<1>. QED BY <1>1, <1>2

(* removeAttributeNode. *)
LEMMA removeAttributeNodeSound ==
  ASSUME Sound(heap), NEW s \in Nodes, NEW a \in Nodes, removeAttributeNode(s, a)
  PROVE  Sound(heap')
<1>1. Sound(Unlink(heap, a))
  BY UnlinkSound
<1>2. Return(PmmFixOwner(PmmNodeToSv(Unlink(heap, a), a, NULL), a, NULL), a)
  BY DEF removeAttributeNode
<1>. QED BY <1>1, <1>2, GivenFixed, ReturnSound

-----------------------------------------------------------------------------
(* The handlers that copy a subtree. *)

(* A copy has no proxy, and its nodes hang below its root or elements. *)
LEMMA CopiedSound ==
  ASSUME NEW h, Sound(h), NEW S \in SUBSET Nodes, NEW n \in S, NEW d \in Docs \cup {NULL},
         NEW g \in CopyMaps(h, S)
  PROVE  Sound(Copied(h, n, S, g, d)) /\ SameProxies(h, Copied(h, n, S, g, d))
<1>. DEFINE new     == {g[m] : m \in S}
            orig(x) == CHOOSE m \in S : g[m] = x
            up(x)   == h.parent[orig(x)]
            doc     == [x \in Nodes |-> IF x \in new THEN d ELSE h.doc[x]]
            parent  == [x \in Nodes |-> IF x \notin new THEN h.parent[x]
                                        ELSE IF x # g[n] /\ up(x) \in S THEN g[up(x)]
                                        ELSE NULL]
            r       == Copied(h, n, S, g, d)
<1>1. /\ \A m \in S : g[m] \in Elems \cup Attrs /\ g[m] \notin Docs /\ g[m] \in Nodes
      /\ \A m \in S : m \in Attrs <=> g[m] \in Attrs
  BY KindFacts DEF CopyMaps, Free
<1>2. new \in SUBSET (Nodes \ Docs)
  BY <1>1
<1>3. h \in Heaps /\ Planted(h)
  BY DEF Sound, Counted
<1>4. ASSUME NEW x \in new PROVE orig(x) \in S /\ orig(x) \in Nodes
  BY <1>4
<1>5. doc \in [Nodes -> Docs \cup {NULL}]
  BY <1>3 DEF Heaps
<1>6. parent \in [Nodes -> Nodes \cup {NULL}]
  <2>. HIDE DEF new, up
  <2>. QED BY <1>1, <1>3 DEF Heaps
<1>7. \A m \in Nodes : parent[m] \notin Attrs
  <2>. SUFFICES ASSUME NEW m \in Nodes PROVE parent[m] \notin Attrs
    OBVIOUS
  <2>1. NULL \notin Attrs
    BY KindFacts
  <2>2. CASE m \notin new
    BY <1>3, <2>2 DEF Planted
  <2>3. CASE m \in new /\ ~ (m # g[n] /\ up(m) \in S)
    <3>1. parent[m] = NULL
      BY <2>3
    <3>. QED BY <2>1, <3>1
  <2>4. CASE m \in new /\ m # g[n] /\ up(m) \in S
    <3>1. parent[m] = g[up(m)]
      BY <2>4
    <3>2. up(m) \notin Attrs
      BY <1>3, <1>4, <2>4 DEF Planted
    <3>. HIDE DEF up, parent
    <3>. QED BY <1>1, <2>4, <3>1, <3>2
  <2>. QED BY <2>2, <2>3, <2>4
<1>8. \A x \in Docs : parent[x] = NULL
  BY <1>2, <1>3, KindFacts DEF Planted
<1>9. r = [h EXCEPT !.alloc = h.alloc \cup new, !.doc = doc, !.parent = parent]
  BY <1>3 DEF Copied, Heaps
<1>. HIDE DEF new, doc, parent, r
<1>10. /\ r \in Heaps /\ SameProxies(h, r) /\ r.alloc = h.alloc \cup new /\ r.parent = parent
  BY <1>2, <1>3, <1>5, <1>6, <1>9 DEF Heaps, SameProxies
<1>11. Planted(r)
  BY <1>2, <1>3, <1>7, <1>8, <1>10 DEF Planted, SameProxies
<1>. QED BY <1>10, <1>11, TreeCounted DEF Sound, r

(* A copy of a subtree is put into a new fragment. *)
LEMMA CopyInFragmentSound ==
  ASSUME Sound(heap), NEW S \in SUBSET Nodes, NEW n \in S,
         NEW d \in (Docs \cap heap.live) \cup {NULL}, CopyInFragment(n, S, d)
  PROVE  Sound(heap')
<1>1. PICK g \in CopyMaps(heap, S) :
        \E f \in Free(Copied(heap, n, S, g, d), Frags) :
          LET frag == PmmNewFragment(Copied(heap, n, S, g, d), f, d)
          IN  Return(PmmNodeToSv(AddChild(frag, f, g[n]), g[n], f), g[n])
  BY DEF CopyInFragment
<1>. DEFINE copy == Copied(heap, n, S, g, d)
<1>2. PICK f \in Free(copy, Frags) :
        Return(PmmNodeToSv(AddChild(PmmNewFragment(copy, f, d), f, g[n]), g[n], f), g[n])
  BY <1>1
<1>. DEFINE frag == PmmNewFragment(copy, f, d)
            put  == AddChild(frag, f, g[n])
<1>3. g[n] \in Nodes /\ g[n] \in Nodes \ Docs
  BY KindFacts DEF CopyMaps, Free
<1>4. Sound(copy) /\ SameProxies(heap, copy)
  BY CopiedSound
<1>. HIDE DEF copy
<1>5. f \in Frags \ copy.live /\ d \in (Docs \cap copy.live) \cup {NULL} /\ f \in Nodes \ Attrs
  BY <1>4, KindFacts DEF Free, SameProxies
<1>6. Sound(frag) /\ frag.live = copy.live \cup {f}
  BY <1>4, <1>5, NewFragmentSound
<1>. HIDE DEF frag
<1>7. Sound(put) /\ f \in put.live
  BY <1>3, <1>5, <1>6, AddChildSound DEF SameProxies
<1>8. Return(PmmNodeToSv(put, g[n], f), g[n])
  BY <1>2 DEF frag
<1>. HIDE DEF put
<1>. QED BY <1>3, <1>7, <1>8, GivenSound

(* cloneNode. *)
LEMMA cloneNodeSound ==
  ASSUME Sound(heap), NEW n \in Nodes, NEW deep \in BOOLEAN, cloneNode(n, deep)
  PROVE  Sound(heap')
<1>. DEFINE S == IF deep THEN Subtree(heap, n) ELSE {n} \cup Props(heap, n)
<1>1. n \in heap.alloc /\ heap.doc[n] \in (Docs \cap heap.live) \cup {NULL}
      /\ heap.alloc \in SUBSET Nodes
  BY HeldFacts DEF cloneNode, Sound, Counted, Heaps
<1>2. S \in SUBSET Nodes /\ n \in S
  BY <1>1, SubtreeFacts DEF Props, Below
<1>3. CopyInFragment(n, S, heap.doc[n])
  BY DEF cloneNode
<1>. HIDE DEF S
<1>. QED BY <1>1, <1>2, <1>3, CopyInFragmentSound

(* importNode. *)
LEMMA importNodeSound ==
  ASSUME Sound(heap), NEW d \in Nodes, NEW n \in Nodes, importNode(d, n)
  PROVE  Sound(heap')
<1>1. n \in heap.alloc /\ d \in Docs \cap heap.live /\ heap.alloc \in SUBSET Nodes
  BY HeldFacts DEF importNode, Sound, Counted, Heaps
<1>2. Subtree(heap, n) \in SUBSET Nodes /\ n \in Subtree(heap, n)
  BY <1>1, SubtreeFacts
<1>3. CopyInFragment(n, Subtree(heap, n), d)
  BY DEF importNode
<1>. QED BY <1>1, <1>2, <1>3, CopyInFragmentSound

-----------------------------------------------------------------------------
(* Every step. *)

(* A program that has made no node has nothing to count. *)
LEMMA InitSound == Init => Sound(heap)
<1>. SUFFICES ASSUME Init PROVE Sound(heap)
  OBVIOUS
<1>1. heap \in Heaps
  BY KindFacts DEF Init, Heaps
<1>2. heap.live = {} /\ heap.alloc = {}
      /\ \A q \in Nodes : heap.count[q] = 0 /\ heap.handles[q] = 0 /\ heap.parent[q] = NULL
  BY DEF Init
<1>. QED BY <1>1, <1>2, KindFacts DEF Sound, Counted, Planted

(* The handlers that make a node. *)
LEMMA CreateSound ==
  ASSUME Sound(heap), Create
  PROVE  Sound(heap')
<1>1. CASE createDocument
  BY <1>1, createDocumentSound
<1>2. CASE createElement(NULL)
  BY <1>2, createElementSound
<1>3. ASSUME NEW d \in Docs, createDocumentFragment(d) \/ createAttribute(d) \/ createElement(d)
      PROVE  Sound(heap')
  BY <1>3, createDocumentFragmentSound, createAttributeSound, createElementSound
<1>4. ASSUME NEW e \in Elems, setAttribute(e) \/ cloneNode(e, TRUE) \/ cloneNode(e, FALSE)
      PROVE  Sound(heap')
  BY <1>4, KindFacts, setAttributeSound, cloneNodeSound
<1>5. ASSUME NEW d \in Docs, NEW n \in Kept, importNode(d, n)
      PROVE  Sound(heap')
  <2>1. n \in Nodes
    BY DEF Kept, Sound, Counted, Heaps
  <2>. QED BY <1>5, <2>1, KindFacts, importNodeSound
<1>. QED BY <1>1, <1>2, <1>3, <1>4, <1>5 DEF Create

(* The handlers that place a node. *)
LEMMA PlaceSound ==
  ASSUME Sound(heap), "UnheldRoot" \notin Uses, Place
  PROVE  Sound(heap')
<1>. PICK s \in Kept, n \in Kept :
       \/ appendChild(s, n) \/ addChild(s, n) \/ setDocumentElement(s, n) \/ adoptNode(s, n)
       \/ \E r \in Kids(heap, s) \cup {NULL}, first \in Nodes : insertBefore(s, n, r, first)
       \/ insertBeforeItself(s, n)
       \/ replaceNode(s, n) \/ \E old \in Kept : replaceChild(s, n, old)
       \/ \E old \in Props(heap, s) \cup {NULL} :
            setAttributeNode(s, n, old) \/ addChildAttribute(s, n, old)
  BY DEF Place
<1>1. Kept \subseteq Nodes
  BY DEF Kept, Sound, Counted, Heaps
<1>2. CASE appendChild(s, n) \/ addChild(s, n)
  BY <1>1, <1>2, appendChildSound, addChildSound
<1>3. CASE setDocumentElement(s, n) \/ adoptNode(s, n)
  BY <1>1, <1>3, setDocumentElementSound, adoptNodeSound
<1>4. CASE \E r \in Kids(heap, s) \cup {NULL}, first \in Nodes : insertBefore(s, n, r, first)
  BY <1>1, <1>4, insertBeforeSound
<1>5. CASE insertBeforeItself(s, n)
  BY <1>1, <1>5, insertBeforeItselfSound
<1>6. CASE replaceNode(s, n) \/ \E old \in Kept : replaceChild(s, n, old)
  BY <1>1, <1>6, replaceNodeSound, replaceChildSound
<1>7. CASE \E old \in Props(heap, s) \cup {NULL} :
             setAttributeNode(s, n, old) \/ addChildAttribute(s, n, old)
  BY <1>1, <1>7, setAttributeNodeSound, addChildAttributeSound
<1>. QED BY <1>2, <1>3, <1>4, <1>5, <1>6, <1>7

(* The handlers that remove nodes. *)
LEMMA DetachSound ==
  ASSUME Sound(heap), Detach
  PROVE  Sound(heap')
<1>1. PICK s \in Kept :
        \/ unbindNode(s) \/ removeChildNodes(s)
        \/ \E n \in Below(heap, s) :
             removeChild(s, n) \/ removeAttribute(s, n) \/ removeAttributeNode(s, n)
  BY DEF Detach
<1>2. s \in Nodes /\ Below(heap, s) \subseteq Nodes
  BY DEF Kept, Below, Sound, Counted, Heaps
<1>3. ASSUME NEW n \in Below(heap, s),
             removeChild(s, n) \/ removeAttribute(s, n) \/ removeAttributeNode(s, n)
      PROVE  Sound(heap')
  BY <1>2, <1>3, removeChildSound, removeAttributeSound, removeAttributeNodeSound
<1>. QED BY <1>1, <1>2, <1>3, unbindNodeSound, removeChildNodesSound

(* Every step keeps the invariant. *)
LEMMA NextSound ==
  ASSUME "UnheldRoot" \notin Uses, Sound(heap), [Next]_vars
  PROVE  Sound(heap')
<1>1. CASE Next
  BY <1>1, CreateSound, VisitSound, PlaceSound, DetachSound DEF Next
<1>2. CASE UNCHANGED vars
  BY <1>2 DEF vars
<1>. QED BY <1>1, <1>2

(* Whatever the sequence of calls, the counts of the proxies are those the
   handles and the owners account for, and documents in memory keep their
   proxy. *)
THEOREM AlwaysSound ==
  ASSUME "UnheldRoot" \notin Uses
  PROVE  Spec => []Sound(heap)
<1>1. Sound(heap) /\ [Next]_vars => Sound(heap)'
  BY NextSound
<1>. QED BY <1>1, InitSound, PTL DEF Spec

(* The heap keeps the shape of the C structures. *)
THEOREM TypeCorrect ==
  ASSUME "UnheldRoot" \notin Uses
  PROVE  Spec => []TypeOK
<1>1. Sound(heap) => TypeOK
  BY DEF Sound, Counted, TypeOK
<1>. QED BY <1>1, AlwaysSound, PTL

(* The count of a proxy is exact after every handler: PmmREFCNT_inc and
   PmmREFCNT_dec are paired over every path through the handlers. *)
THEOREM CountsAlwaysExact ==
  ASSUME "UnheldRoot" \notin Uses
  PROVE  Spec => []CountsExact
<1>1. Sound(heap) => CountsExact
  BY DEF Sound, Counted, CountsExact
<1>. QED BY <1>1, AlwaysSound, PTL

(* No Perl object ever points to a freed proxy. *)
THEOREM HandlesAlwaysLive ==
  ASSUME "UnheldRoot" \notin Uses
  PROVE  Spec => []HandlesLive
<1>1. Sound(heap) => HandlesLive
  BY DEF Sound, Counted, HandlesLive
<1>. QED BY <1>1, AlwaysSound, PTL

(* No proxy outlives the proxy that owns it. *)
THEOREM OwnersAlwaysLive ==
  ASSUME "UnheldRoot" \notin Uses
  PROVE  Spec => []OwnersLive
<1>1. Sound(heap) => OwnersLive
  BY DEF Sound, Counted, OwnersLive
<1>. QED BY <1>1, AlwaysSound, PTL

-----------------------------------------------------------------------------
(* Following pointers upwards. *)

(* Ancestors and owners are lines. *)
LEMMA LinesAre ==
  ASSUME NEW h, NEW n
  PROVE  Ancestors(h, n) = Line(h.parent, h.parent[n]) /\ Owners(h, n) = Line(h.owner, h.owner[n])
BY DEF Ancestors, Owners, Upwards, Line, Chain

(* The nodes are finitely many. *)
LEMMA SizeFacts == IsFiniteSet(Nodes) /\ NULL \notin Nodes
BY NodesAssumption

(* A line is a node and the line above it. *)
LEMMA LineUnfolds ==
  ASSUME NEW F \in Pointers, Grounded(F)
  PROVE  /\ Line(F, NULL) = {}
         /\ \A n \in Ends : Line(F, n) \in SUBSET Nodes
         /\ \A n \in Nodes : Line(F, n) = {n} \cup Line(F, F[n])
         /\ \A n \in Nodes : n \notin Line(F, F[n])
BY SizeFacts, ChainUnfolds DEF Line, Grounded, Pointers, Ends

(* A line that starts in a set closed under the pointer stays there. *)
LEMMA LineWithin ==
  ASSUME NEW F \in Pointers, Grounded(F), NEW X \in SUBSET Nodes,
         \A x \in X : F[x] \in X \cup {NULL}, NEW n \in X \cup {NULL}
  PROVE  Line(F, n) \subseteq X
BY SizeFacts, ChainWithin DEF Line, Grounded, Pointers, Ends

(* A line is closed under its pointer, and ends. *)
LEMMA LineFacts ==
  ASSUME NEW F \in Pointers, Grounded(F), NEW n \in Nodes
  PROVE  /\ Line(F, n) \in SUBSET Nodes /\ n \in Line(F, n)
         /\ \A a \in Line(F, n) : F[a] \in Line(F, n) \cup {NULL}
         /\ \A a \in Line(F, n) : Line(F, a) \subseteq Line(F, n)
         /\ \E r \in Line(F, n) : F[r] = NULL
         /\ F[n] # NULL => F[n] \in Line(F, n)
BY SizeFacts, ChainFacts DEF Line, Grounded, Pointers, Ends

(* Of two nodes of a line one is above the other. *)
LEMMA LineOrdered ==
  ASSUME NEW F \in Pointers, Grounded(F), NEW n \in Nodes,
         NEW a \in Line(F, n), NEW b \in Line(F, n)
  PROVE  a \in Line(F, b) \/ b \in Line(F, a)
BY SizeFacts, ChainOrdered DEF Line, Grounded, Pointers, Ends

(* Two nodes that are above each other are the same. *)
LEMMA LineOneWay ==
  ASSUME NEW F \in Pointers, Grounded(F), NEW a \in Nodes, NEW b \in Nodes,
         a \in Line(F, b), b \in Line(F, a)
  PROVE  a = b
BY SizeFacts, ChainOneWay DEF Line, Grounded, Pointers, Ends

(* Pointers that agree along a line have the same line. *)
LEMMA LineAgrees ==
  ASSUME NEW F \in Pointers, Grounded(F), NEW G \in Pointers, Grounded(G), NEW n \in Nodes,
         \A x \in Line(F, n) : G[x] = F[x]
  PROVE  Line(G, n) = Line(F, n)
BY SizeFacts, ChainAgrees DEF Line, Grounded, Pointers, Ends

-----------------------------------------------------------------------------
(* Moving nodes. *)

(* A move to a place that is not below what moves makes no cycle. *)
LEMMA MoveGrounded ==
  ASSUME NEW F \in Pointers, Grounded(F), NEW M, NEW p \in Ends, NEW G, IsMove(F, M, p, G),
         Line(F, p) \cap M = {}
  PROVE  Grounded(G)
BY SizeFacts, ChainMoveRooted DEF ChainMove, IsMove, Line, Grounded, Pointers, Ends

(* What is not below the moved nodes keeps its line. *)
LEMMA MoveElsewhere ==
  ASSUME NEW F \in Pointers, Grounded(F), NEW M, NEW p \in Ends, NEW G, IsMove(F, M, p, G),
         Line(F, p) \cap M = {}, NEW x \in Ends, Line(F, x) \cap M = {}
  PROVE  Line(G, x) = Line(F, x)
BY SizeFacts, ChainMoveElsewhere DEF ChainMove, IsMove, Line, Grounded, Pointers, Ends

(* What is below a moved node keeps its line up to that node, and then has
   the line of p. *)
LEMMA MoveBelow ==
  ASSUME NEW F \in Pointers, Grounded(F), NEW M \in SUBSET Nodes, NEW p \in Ends, NEW G,
         IsMove(F, M, p, G), Line(F, p) \cap M = {}, Apart(F, M),
         NEW m \in M, NEW x \in Nodes, m \in Line(F, x)
  PROVE  Line(G, x) = {y \in Line(F, x) : m \in Line(F, y)} \cup Line(F, p)
BY SizeFacts, ChainMoveBelow DEF ChainMove, IsMove, Line, Grounded, Pointers, Ends, Apart

-----------------------------------------------------------------------------
(* The trees and their owners. *)

(* Then every node of K has its root in K. *)
LEMMA BackedRoot ==
  ASSUME NEW F \in Pointers, Grounded(F), NEW K \in SUBSET Nodes, Backed(F, K), NEW x \in K
  PROVE  \E r \in Line(F, x) \cap K : F[r] = NULL
BY SizeFacts, ChainRoot DEF Line, Grounded, Pointers, Ends, Backed

(* What is below n is what has n in its line. *)
LEMMA SubtreeLines ==
  ASSUME NEW h \in Heaps, Grounded(h.parent), NEW n \in Nodes
  PROVE  /\ h.parent \in Pointers
         /\ Line(h.parent, n) = {n} \cup Ancestors(h, n) /\ n \notin Ancestors(h, n)
         /\ Ancestors(h, n) = Line(h.parent, h.parent[n])
         /\ Subtree(h, n) = {m \in h.alloc : n \in Line(h.parent, m)}
<1>1. h.parent \in Pointers /\ h.alloc \subseteq Nodes
  BY DEF Heaps, Pointers, Ends
<1>2. \A m \in Nodes : Line(h.parent, m) = {m} \cup Ancestors(h, m) /\ m \notin Ancestors(h, m)
  BY <1>1, LinesAre, LineUnfolds
<1>. QED BY <1>1, <1>2, LinesAre DEF Subtree

(* The lines of nodes in memory are in memory. *)
LEMMA LinesInMemory ==
  ASSUME NEW h \in Heaps, Treed(h), NEW n \in h.alloc
  PROVE  Line(h.parent, n) \subseteq h.alloc
<1>1. h.parent \in Pointers /\ h.alloc \subseteq Nodes
  BY DEF Heaps, Pointers, Ends
<1>2. \A x \in h.alloc : h.parent[x] \in h.alloc \cup {NULL}
  BY <1>1 DEF Treed
<1>. QED BY <1>1, <1>2, LineWithin DEF Treed

(* What PmmREFCNT_dec makes of links and documents. *)
LEMMA DecLinks ==
  ASSUME NEW h \in Heaps, NEW drops \in Ledgers
  PROVE  LET r == PmmREFCNT_dec(h, drops)
             S == FreedWith(h, Expired(h, drops))
         IN  /\ r.parent = [n \in Nodes |-> IF n \in S THEN NULL ELSE h.parent[n]]
             /\ r.doc = [n \in Nodes |-> IF n \in S THEN NULL ELSE h.doc[n]]
BY DEF PmmREFCNT_dec, xmlFreed, Heaps

(* What PmmREFCNT_dec frees when every proxy that survives has one above
   it that does: whole trees, none of whose proxies survive. *)
LEMMA DecFrees ==
  ASSUME NEW h \in Heaps, NEW drops \in Ledgers, Treed(h), h.live \subseteq h.alloc,
         \A q \in h.live : h.parent[q] # NULL => h.owner[q] \in h.live,
         Backed(h.parent, h.live \ Expired(h, drops))
  PROVE  LET S == FreedWith(h, Expired(h, drops))
         IN  /\ \A x \in h.live \ Expired(h, drops) : x \notin S
             /\ \A x \in h.alloc \ S : Line(h.parent, x) \cap S = {}
             /\ \A x \in h.alloc : Line(h.parent, x) \cap (h.alloc \ S) # {} => x \notin S
             /\ \A x \in h.alloc \ S : h.parent[x] = NULL => x \notin Expired(h, drops)
             /\ \A x \in h.alloc : Line(h.parent, x) \cap h.live = {} => x \notin S
             /\ S \subseteq h.alloc
<1>. DEFINE dead == Expired(h, drops)
            S == FreedWith(h, dead)
            K == h.live \ dead
<1>1. /\ h.parent \in Pointers /\ Grounded(h.parent) /\ h.alloc \subseteq Nodes
      /\ h.live \subseteq Nodes /\ dead \subseteq h.live
  BY DEF Heaps, Pointers, Ends, Treed, Expired, Losable
<1>. HIDE DEF dead
<1>2. \A q \in dead : FreesNode(h, q) <=> h.parent[q] = NULL
  BY <1>1 DEF FreesNode
<1>3. \A x : x \in S <=> x \in h.alloc /\ \E q \in dead : h.parent[q] = NULL /\ q \in Line(h.parent, x)
  <2>1. \A q \in dead : Subtree(h, q) = {m \in h.alloc : q \in Line(h.parent, m)}
    BY <1>1, SubtreeLines
  <2>. QED BY <1>2, <2>1 DEF FreedWith
<1>. HIDE DEF S
<1>4. ASSUME NEW x \in K PROVE x \notin S
  <2>. SUFFICES ASSUME NEW q \in dead, h.parent[q] = NULL, q \in Line(h.parent, x) PROVE FALSE
    BY <1>3
  <2>1. K \in SUBSET Nodes /\ Backed(h.parent, K)
    BY <1>1 DEF dead
  <2>2. PICK r \in Line(h.parent, x) \cap K : h.parent[r] = NULL
    <3>. HIDE DEF K
    <3>. QED BY <1>1, <2>1, BackedRoot
  <2>3. q \in Nodes /\ r \in Nodes /\ x \in Nodes
    BY <1>1
  <2>4. Line(h.parent, q) = {q} /\ Line(h.parent, r) = {r}
    BY <1>1, <2>2, <2>3, LineUnfolds
  <2>5. q \in Line(h.parent, r) \/ r \in Line(h.parent, q)
    BY <1>1, <2>2, <2>3, LineOrdered
  <2>. QED BY <2>2, <2>4, <2>5
<1>5. ASSUME NEW x \in h.alloc \ S, NEW a \in Line(h.parent, x), a \in S PROVE FALSE
  <2>1. PICK q \in dead : h.parent[q] = NULL /\ q \in Line(h.parent, a)
    BY <1>3, <1>5
  <2>2. x \in Nodes /\ Line(h.parent, a) \subseteq Line(h.parent, x)
    BY <1>1, LineFacts
  <2>. QED BY <1>3, <2>1, <2>2
<1>6. ASSUME NEW x \in h.alloc \ S, h.parent[x] = NULL PROVE x \notin dead
  <2>1. x \in Line(h.parent, x)
    BY <1>1, LineFacts
  <2>. QED BY <1>3, <1>6, <2>1
<1>7. S \subseteq h.alloc
  BY <1>3
<1>8. ASSUME NEW x \in S, NEW z \in Line(h.parent, x) \cap h.alloc PROVE z \in S
  <2>1. PICK q \in dead : h.parent[q] = NULL /\ q \in Line(h.parent, x)
    BY <1>3
  <2>2. x \in Nodes /\ q \in Nodes /\ z \in Nodes
    BY <1>1, <1>7
  <2>3. q \in Line(h.parent, z) \/ z \in Line(h.parent, q)
    BY <1>1, <2>1, <2>2, LineOrdered
  <2>4. Line(h.parent, q) = {q} /\ q \in Line(h.parent, q)
    BY <1>1, <2>1, <2>2, LineUnfolds
  <2>. QED BY <1>3, <2>1, <2>3, <2>4
<1>9. \A x \in h.alloc : Line(h.parent, x) \cap (h.alloc \ S) # {} => x \notin S
  BY <1>8
<1>10. \A x \in h.alloc : Line(h.parent, x) \cap h.live = {} => x \notin S
  BY <1>1, <1>3
<1>. QED BY <1>4, <1>5, <1>6, <1>7, <1>9, <1>10 DEF S, dead

(* PmmREFCNT_dec keeps the trees of the proxies that survive. *)
LEMMA DecStable ==
  ASSUME NEW h \in Heaps, NEW drops \in Ledgers, NEW L, NEW E,
         Treed(h), Homed(h, L), Cased(h), Wanted(h, E), Planted(h),
         \A q \in h.live : h.parent[q] # NULL => h.owner[q] \in h.live,
         Backed(h.parent, h.live \ Expired(h, drops))
  PROVE  LET r == PmmREFCNT_dec(h, drops)
         IN  /\ Treed(r) /\ Homed(r, L) /\ Cased(r) /\ Wanted(r, E)
             /\ SameTree(h, r)
             /\ \A q \in r.live : r.owner[q] = h.owner[q]
             /\ r.live = h.live \ Expired(h, drops)
<1>. DEFINE dead == Expired(h, drops)
            S == FreedWith(h, dead)
            r == PmmREFCNT_dec(h, drops)
<1>1. /\ r \in Heaps /\ dead \subseteq h.live /\ r.live = h.live \ dead
      /\ r.alloc = h.alloc \ S
      /\ r.owner = [q \in Nodes |-> IF q \in dead THEN NULL ELSE h.owner[q]]
      /\ r.count = [q \in Nodes |-> IF q \in h.live \ dead
                                    THEN Remaining(h, drops, dead, q) ELSE 0]
      /\ r.parent = [n \in Nodes |-> IF n \in S THEN NULL ELSE h.parent[n]]
      /\ r.doc = [n \in Nodes |-> IF n \in S THEN NULL ELSE h.doc[n]]
  BY DecFields, DecLinks
<1>2. /\ \A x \in h.live \ dead : x \notin S
      /\ \A x \in h.alloc \ S : Line(h.parent, x) \cap S = {}
      /\ \A x \in h.alloc : Line(h.parent, x) \cap (h.alloc \ S) # {} => x \notin S
      /\ \A x \in h.alloc \ S : h.parent[x] = NULL => x \notin dead
      /\ \A x \in h.alloc : Line(h.parent, x) \cap h.live = {} => x \notin S
      /\ S \subseteq h.alloc
  BY DecFrees DEF Cased
<1>. HIDE DEF r, dead, S
<1>3. /\ h.parent \in Pointers /\ h.owner \in Pointers /\ Grounded(h.parent) /\ Grounded(h.owner)
      /\ h.alloc \subseteq Nodes /\ h.live \subseteq Nodes /\ h.live \subseteq h.alloc
      /\ r.parent \in Pointers /\ r.owner \in Pointers /\ NULL \notin Nodes /\ NULL \in Ends
      /\ Line(h.parent, NULL) = {} /\ Line(h.owner, NULL) = {}
  BY <1>1, SizeFacts, LineUnfolds DEF Heaps, Pointers, Ends, Treed, Cased
<1>4. IsMove(h.parent, S, NULL, r.parent) /\ IsMove(h.owner, dead, NULL, r.owner)
  BY <1>1, <1>3 DEF IsMove
<1>5. Grounded(r.parent) /\ Grounded(r.owner)
  BY <1>3, <1>4, MoveGrounded
<1>6. ASSUME NEW n \in r.alloc
      PROVE  /\ r.parent[n] = h.parent[n] /\ r.doc[n] = h.doc[n] /\ n \in h.alloc
             /\ Line(r.parent, n) = Line(h.parent, n)
  <2>1. n \in h.alloc \ S /\ n \in Ends
    BY <1>1, <1>3 DEF Ends
  <2>2. Line(r.parent, n) = Line(h.parent, n)
    BY <1>2, <1>3, <1>4, <2>1, MoveElsewhere
  <2>. QED BY <1>1, <1>3, <2>1, <2>2
<1>7. ASSUME NEW n \in Nodes, r.parent[n] # NULL
      PROVE  n \in r.alloc /\ r.parent[n] \in r.alloc /\ r.parent[n] = h.parent[n]
             /\ r.doc[n] = h.doc[n] /\ r.doc[r.parent[n]] = h.doc[h.parent[n]]
  <2>1. n \notin S /\ r.parent[n] = h.parent[n]
    BY <1>1, <1>7
  <2>2. n \in h.alloc /\ h.parent[n] \in h.alloc
    BY <1>7, <2>1 DEF Treed
  <2>3. h.parent[n] \in Line(h.parent, n)
    BY <1>3, <1>7, <2>1, LineFacts
  <2>4. n \in r.alloc /\ h.parent[n] \in r.alloc
    BY <1>1, <1>2, <2>1, <2>2, <2>3
  <2>. QED BY <1>6, <2>1, <2>4
<1>8. Treed(r)
  <2>1. \A f \in Frags : r.parent[f] = NULL
    BY <1>1, KindFacts DEF Treed
  <2>2. \A d \in Docs \cap r.alloc : r.doc[d] = d
    BY <1>6 DEF Treed
  <2>3. \A a \in Attrs : r.parent[a] \in Elems \cup {NULL}
    BY <1>1, KindFacts DEF Treed
  <2>. QED BY <1>5, <1>7, <2>1, <2>2, <2>3 DEF Treed
<1>9. Homed(r, L)
  <2>. SUFFICES ASSUME NEW n \in r.alloc \ L, r.parent[n] = NULL PROVE n \in r.live /\ n \notin Elems
    BY DEF Homed
  <2>1. n \in h.alloc \ S /\ h.parent[n] = NULL
    BY <1>1, <1>6
  <2>2. n \in h.live /\ n \notin Elems
    BY <2>1 DEF Homed
  <2>. QED BY <1>1, <1>2, <2>1, <2>2
<1>10. \A q \in r.live : r.owner[q] = h.owner[q]
  BY <1>1, <1>3
<1>11. Cased(r)
  <2>1. r.live \subseteq r.alloc
    BY <1>1, <1>2, <1>3
  <2>2. ASSUME NEW q \in Nodes, r.owner[q] # NULL
        PROVE  q \in r.live \ Docs /\ r.owner[q] \notin Attrs
    BY <1>1, <2>2 DEF Cased
  <2>3. ASSUME NEW n \in Nodes, r.parent[n] \in Frags
        PROVE  r.owner[r.parent[n]] = r.doc[r.parent[n]]
    <3>. DEFINE f == r.parent[n]
    <3>1. f # NULL /\ f \in Nodes
      BY <2>3, KindFacts
    <3>2. f = h.parent[n] /\ f \in r.alloc
      BY <1>7, <3>1
    <3>3. h.owner[f] = h.doc[f]
      BY <2>3, <3>2 DEF Cased
    <3>4. f \notin dead
      <4>1. h.parent[f] = NULL
        BY <2>3 DEF Treed
      <4>. QED BY <1>1, <1>2, <3>2, <4>1
    <3>5. r.doc[f] = h.doc[f]
      BY <1>6, <3>2
    <3>6. r.owner[f] = h.owner[f]
      BY <1>1, <3>1, <3>4
    <3>. HIDE DEF f
    <3>. QED BY <3>3, <3>5, <3>6 DEF f
  <2>. QED BY <1>5, <2>1, <2>2, <2>3 DEF Cased
<1>12. Wanted(r, E)
  <2>. SUFFICES ASSUME NEW q \in r.live \ E PROVE r.count[q] > 0
    BY DEF Wanted
  <2>1. q \in h.live \ dead /\ q \in Nodes /\ r.count[q] = Remaining(h, drops, dead, q)
    BY <1>1, <1>3
  <2>2. ~ Expires(h, drops, dead, q)
    BY <2>1, ExpiredClosed DEF CascadeClosed, dead
  <2>3. dead \in SUBSET Nodes
    BY <1>1, <1>3
  <2>4. Remaining(h, drops, dead, q) \in Int
    BY <2>1, <2>3, RemainingMonotone
  <2>5. CASE drops[q] > 0 \/ Ownees(h, dead, q) # {}
    BY <2>1, <2>2, <2>4, <2>5 DEF Expires
  <2>6. CASE ~ (drops[q] > 0) /\ Ownees(h, dead, q) = {}
    <3>1. drops[q] = 0
      BY <2>1, <2>6 DEF Ledgers
    <3>2. Cardinality(Ownees(h, dead, q)) = 0
      BY <2>6, FS_EmptySet
    <3>3. h.count[q] \in Int /\ h.count[q] > 0
      BY <2>1 DEF Wanted, Heaps
    <3>. QED BY <2>1, <3>1, <3>2, <3>3 DEF Remaining
  <2>. QED BY <2>5, <2>6
<1>13. SameTree(h, r)
  BY <1>1, <1>2, <1>6 DEF SameTree
<1>. QED BY <1>1, <1>8, <1>9, <1>10, <1>11, <1>12, <1>13 DEF r, dead

(* What a fragment passes on is among its owners. *)
LEMMA PassingFacts ==
  ASSUME NEW G \in Pointers, Grounded(G), NEW k \in Nodes
  PROVE  /\ Passing(G) \in Pointers /\ Grounded(Passing(G))
         /\ Line(Passing(G), k) \subseteq Line(G, k)
         /\ k \in Line(Passing(G), k) /\ Line(Passing(G), k) \subseteq Nodes
         /\ \A v \in Line(Passing(G), k) \cap Frags :
              G[v] # NULL => G[v] \in Line(Passing(G), k)
         /\ k \in Frags /\ G[k] # NULL =>
              Line(Passing(G), k) = {k} \cup Line(Passing(G), G[k])
         /\ k \notin Frags => Line(Passing(G), k) = {k}
<1>. DEFINE P == Passing(G)
<1>1. P \in Pointers /\ \A v \in Nodes : P[v] = IF v \in Frags THEN G[v] ELSE NULL
  BY DEF Passing, Pointers, Ends
<1>. HIDE DEF P
<1>2. Grounded(P)
  <2>. SUFFICES ASSUME NEW X \in SUBSET Nodes, X # {}, \A x \in X : P[x] \in X PROVE FALSE
    BY DEF Grounded, Rooted
  <2>1. \A x \in X : G[x] \in X
    BY <1>1, SizeFacts
  <2>. QED BY <2>1 DEF Grounded, Rooted
<1>3. Line(P, k) \in SUBSET Nodes /\ k \in Line(P, k)
      /\ \A a \in Line(P, k) : P[a] \in Line(P, k) \cup {NULL}
  BY <1>1, <1>2, LineFacts
<1>4. Line(P, k) \subseteq Line(G, k)
  <2>1. /\ k \in Line(G, k) /\ Line(G, k) \in SUBSET Nodes
        /\ \A a \in Line(G, k) : G[a] \in Line(G, k) \cup {NULL}
    BY LineFacts
  <2>2. \A a \in Line(G, k) : P[a] \in Line(G, k) \cup {NULL}
    BY <1>1, <2>1
  <2>. QED BY <1>1, <1>2, <2>1, <2>2, LineWithin
<1>5. \A v \in Line(P, k) \cap Frags : G[v] # NULL => G[v] \in Line(P, k)
  BY <1>1, <1>3
<1>6. Line(P, k) = {k} \cup Line(P, P[k]) /\ Line(P, NULL) = {}
  BY <1>1, <1>2, LineUnfolds
<1>7. k \in Frags /\ G[k] # NULL => Line(P, k) = {k} \cup Line(P, G[k])
  BY <1>1, <1>6
<1>8. k \notin Frags => Line(P, k) = {k}
  BY <1>1, <1>6
<1>. QED BY <1>1, <1>2, <1>3, <1>4, <1>5, <1>7, <1>8 DEF P

(* Fragments with the same owners pass on alike. *)
LEMMA PassingAgrees ==
  ASSUME NEW G \in Pointers, Grounded(G), NEW H \in Pointers, Grounded(H), NEW k \in Nodes,
         \A v \in Line(Passing(G), k) \cap Frags : H[v] = G[v]
  PROVE  Line(Passing(H), k) = Line(Passing(G), k)
<1>1. /\ Passing(G) \in Pointers /\ Grounded(Passing(G)) /\ Line(Passing(G), k) \subseteq Nodes
      /\ Passing(H) \in Pointers /\ Grounded(Passing(H))
  BY PassingFacts
<1>2. \A v \in Line(Passing(G), k) : Passing(H)[v] = Passing(G)[v]
  BY <1>1 DEF Passing
<1>. QED BY <1>1, <1>2, LineAgrees

(* What a set of nodes closed under owners passes on stays in it. *)
LEMMA PassingWithin ==
  ASSUME NEW G \in Pointers, Grounded(G), NEW K \in SUBSET Nodes,
         \A q \in K : G[q] \in K \cup {NULL}, NEW k \in K
  PROVE  Line(Passing(G), k) \subseteq K
<1>1. Passing(G) \in Pointers /\ Grounded(Passing(G))
  BY PassingFacts
<1>2. \A q \in K : Passing(G)[q] \in K \cup {NULL}
  BY DEF Passing
<1>. QED BY <1>1, <1>2, LineWithin

(* An owner that keeps a node keeps what is below it. *)
LEMMA KeepsBelow ==
  ASSUME NEW F \in Pointers, Grounded(F), NEW G, NEW k, NEW q, NEW x \in Nodes,
         q \in Line(F, x), Keeps(F, G, k, q)
  PROVE  Keeps(F, G, k, x)
BY LineFacts DEF Keeps

(* PmmREFCNT_dec keeps the trees of moored proxies. *)
LEMMA DecSafe ==
  ASSUME NEW h \in Heaps, NEW drops \in Ledgers, NEW L, NEW E, Owed(h, drops), Planted(h),
         \A q \in Nodes : h.handles[q] > 0 => q \in h.live,
         \A q \in h.live : h.owner[q] \in h.live \cup {NULL},
         Treed(h), Homed(h, L), Cased(h), Wanted(h, E),
         \A q \in h.live : h.parent[q] # NULL => h.owner[q] # NULL,
         Moored(h, h.owner, PmmREFCNT_dec(h, drops).live)
  PROVE  Stable(PmmREFCNT_dec(h, drops), L, E) /\ Trimmed(h, h.owner, PmmREFCNT_dec(h, drops))
<1>. DEFINE r == PmmREFCNT_dec(h, drops)
            K == h.live \ Expired(h, drops)
<1>1. Sound(r) /\ r.handles = h.handles
  BY DecSettled DEF Settled
<1>2. r.live = K /\ K \in SUBSET h.live
      /\ r.owner = [q \in Nodes |-> IF q \in Expired(h, drops) THEN NULL ELSE h.owner[q]]
  BY ZenonT(60), DecFields
<1>. HIDE DEF r
<1>3. /\ h.parent \in Pointers /\ h.owner \in Pointers /\ Grounded(h.parent) /\ Grounded(h.owner)
      /\ h.live \subseteq Nodes /\ NULL \notin Nodes /\ r \in Heaps
  BY <1>1, SizeFacts DEF Heaps, Pointers, Ends, Treed, Cased, Sound, Counted
<1>. HIDE DEF K
<1>4. K \in SUBSET Nodes /\ \A q \in K : h.owner[q] \in K \cup {NULL}
  BY <1>1, <1>2, <1>3 DEF Sound, Counted, K
<1>5. Backed(h.parent, K)
  <2>. SUFFICES ASSUME NEW y \in K, h.parent[y] # NULL PROVE Line(h.parent, h.parent[y]) \cap K # {}
    BY DEF Backed
  <2>1. CASE Anchored(h.parent, h.owner, y)
    <3>1. h.owner[y] \in K
      BY <1>2, <1>4
    <3>2. Line(Passing(h.owner), h.owner[y]) \subseteq K
      BY <1>3, <1>4, <3>1, PassingWithin
    <3>. QED BY <2>1, <3>2 DEF Anchored, Keeps
  <2>. QED BY <1>2, <2>1 DEF Moored, r
<1>6. \A q \in h.live : h.parent[q] # NULL => h.owner[q] \in h.live
  OBVIOUS
<1>7. /\ Treed(r) /\ Homed(r, L) /\ Cased(r) /\ Wanted(r, E) /\ SameTree(h, r)
      /\ \A q \in r.live : r.owner[q] = h.owner[q]
  BY <1>5, <1>6, DecStable DEF r, K
<1>8. ASSUME NEW x \in r.live, h.parent[x] # NULL, Anchored(h.parent, h.owner, x)
      PROVE  Anchored(r.parent, r.owner, x)
  <2>1. /\ r.owner \in Pointers /\ r.parent \in Pointers /\ Grounded(r.owner)
        /\ Grounded(r.parent) /\ r.alloc \subseteq Nodes
    BY <1>3, <1>7 DEF Heaps, Pointers, Ends, Treed, Cased
  <2>2. r.owner[x] = h.owner[x] /\ h.owner[x] \in K
    BY <1>2, <1>4, <1>7, <1>8
  <2>3. Line(Passing(h.owner), h.owner[x]) \subseteq K
    BY <1>3, <1>4, <2>2, PassingWithin
  <2>4. Line(Passing(r.owner), h.owner[x]) = Line(Passing(h.owner), h.owner[x])
    <3>1. h.owner[x] \in Nodes
      BY <1>4, <2>2
    <3>2. \A v \in Line(Passing(h.owner), h.owner[x]) \cap Frags : r.owner[v] = h.owner[v]
      BY <1>2, <1>7, <2>3
    <3>. QED BY <1>3, <2>1, <3>1, <3>2, PassingAgrees
  <2>5. x \in r.alloc /\ r.parent[x] = h.parent[x]
    BY <1>7 DEF Cased, SameTree
  <2>6. r.parent[x] \in r.alloc
    BY <1>7, <1>8, <2>1, <2>5 DEF Treed
  <2>7. Line(r.parent, r.parent[x]) = Line(h.parent, h.parent[x])
    BY <1>7, <2>5, <2>6 DEF SameTree
  <2>. QED BY <1>8, <2>2, <2>4, <2>7 DEF Anchored, Keeps
<1>. QED BY <1>1, <1>2, <1>7, <1>8 DEF Stable, Trimmed, r

-----------------------------------------------------------------------------
(* Changing owners. *)

(* What Reown makes of owners. *)
LEMMA ReownOwners ==
  ASSUME NEW h, Sound(h), NEW S \in SUBSET h.live, NEW p \in h.live \cup {NULL}, p \notin S
  PROVE  /\ \A q \in Reown(h, S, p).live : /\ Reown(h, S, p).owner[q] = Given(h, S, p)[q]
                                           /\ Given(h, S, p)[q] \in Reown(h, S, p).live \cup {NULL}
         /\ Reown(h, S, p).live \subseteq h.live /\ Reown(h, S, p).handles = h.handles
<1>. PICK mid, drops : mid = Rehung(h, S, p) /\ drops = Released(h, S)
  OBVIOUS
<1>. PICK r : r = Reown(h, S, p)
  OBVIOUS
<1>1. /\ r = PmmREFCNT_dec(mid, drops) /\ mid \in Heaps /\ drops \in Ledgers /\ mid.live = h.live
      /\ \A v \in Nodes : mid.owner[v] = IF v \notin S THEN h.owner[v]
                                         ELSE IF v = p THEN NULL ELSE p
  BY RehungFacts
<1>2. Sound(r) /\ r.handles = h.handles /\ r.live \subseteq h.live
  BY ReownSettled DEF Settled
<1>3. /\ r.live = mid.live \ Expired(mid, drops)
      /\ \A q \in Nodes : r.owner[q] = IF q \in Expired(mid, drops) THEN NULL ELSE mid.owner[q]
  <2>1. mid \in Heaps /\ drops \in Ledgers
    BY <1>1
  <2>2. /\ PmmREFCNT_dec(mid, drops).live = mid.live \ Expired(mid, drops)
        /\ PmmREFCNT_dec(mid, drops).owner
             = [q \in Nodes |-> IF q \in Expired(mid, drops) THEN NULL ELSE mid.owner[q]]
    BY <2>1, DecFields
  <2>. QED BY <1>1, <2>2
<1>4. r.live \subseteq Nodes
  BY <1>2 DEF Sound, Counted, Heaps
<1>5. \A q \in r.live : r.owner[q] = Given(h, S, p)[q]
  BY <1>1, <1>3, <1>4 DEF Given
<1>6. \A q \in r.live : r.owner[q] \in r.live \cup {NULL}
  BY <1>2 DEF Sound, Counted
<1>. QED BY <1>2, <1>5, <1>6

(* Reown keeps the trees of moored proxies. *)
LEMMA ReownSafe ==
  ASSUME NEW h, NEW L, NEW E, Stable(h, L, E), NEW S \in SUBSET (h.live \ Docs),
         NEW p \in h.live \cup {NULL}, p \notin Attrs, Line(h.owner, p) \cap S = {},
         \A m \in Nodes : h.parent[m] \notin Frags \cap S,
         \A q \in h.live : h.parent[q] # NULL => Given(h, S, p)[q] # NULL,
         Moored(h, Given(h, S, p), Reown(h, S, p).live)
  PROVE  /\ Stable(Reown(h, S, p), L, IF S = {} THEN E ELSE E \ {p})
         /\ Trimmed(h, Given(h, S, p), Reown(h, S, p))
<1>. DEFINE G == Given(h, S, p)
            F == IF S = {} THEN E ELSE E \ {p}
<1>. PICK mid, drops : mid = Rehung(h, S, p) /\ drops = Released(h, S)
  OBVIOUS
<1>. PICK r : r = Reown(h, S, p)
  OBVIOUS
<1>1. /\ h \in Heaps /\ h.live \subseteq Nodes /\ h.owner \in Pointers /\ Grounded(h.owner)
      /\ p \in Ends /\ NULL \notin Nodes /\ \A q \in Nodes : h.owner[q] \in Ends
  BY SizeFacts DEF Stable, Sound, Counted, Heaps, Pointers, Ends, Cased
<1>2. S \in SUBSET h.live /\ S \in SUBSET Nodes /\ p \notin S
  <2>1. p \in Nodes => p \in Line(h.owner, p)
    BY <1>1, LineFacts
  <2>. QED BY <1>1, <2>1
<1>3. /\ r = PmmREFCNT_dec(mid, drops) /\ mid \in Heaps /\ drops \in Ledgers
      /\ mid.live = h.live /\ mid.handles = h.handles /\ mid.alloc = h.alloc
      /\ mid.parent = h.parent /\ mid.doc = h.doc
      /\ \A v \in Nodes : mid.owner[v] = IF v \notin S THEN h.owner[v]
                                         ELSE IF v = p THEN NULL ELSE p
      /\ \A q \in Nodes : mid.count[q] >= h.count[q]
      /\ S # {} /\ p \in Nodes \ S => mid.count[p] > h.count[p]
      /\ Owed(mid, drops) /\ Planted(mid)
      /\ \A q \in Nodes : mid.handles[q] > 0 => q \in mid.live
      /\ \A q \in mid.live : mid.owner[q] \in mid.live \cup {NULL}
  BY <1>2, RehungFacts DEF Stable
<1>4. mid.owner = G
  <2>1. mid.owner \in [Nodes -> Ends] /\ G \in [Nodes -> Ends]
    BY <1>1, <1>3 DEF Heaps, Ends, Given
  <2>2. \A v \in Nodes : mid.owner[v] = G[v]
    BY <1>2, <1>3 DEF Given
  <2>. HIDE DEF G
  <2>. QED BY <2>1, <2>2
<1>. HIDE DEF G
<1>5. IsMove(h.owner, S, p, mid.owner)
  BY <1>1, <1>2, <1>3 DEF IsMove, Heaps, Pointers, Ends
<1>6. Treed(mid) /\ Homed(mid, L)
  BY <1>3 DEF Stable, Treed, Homed
<1>7. Cased(mid)
  <2>1. Grounded(mid.owner)
    BY <1>1, <1>5, MoveGrounded
  <2>2. \A q \in Nodes : mid.owner[q] # NULL => q \in mid.live \ Docs /\ mid.owner[q] \notin Attrs
    BY <1>2, <1>3 DEF Stable, Cased
  <2>3. \A n \in Nodes : mid.parent[n] \in Frags => mid.owner[mid.parent[n]] = mid.doc[mid.parent[n]]
    BY <1>3, KindFacts DEF Stable, Cased
  <2>4. mid.live \subseteq mid.alloc
    BY <1>3 DEF Stable, Cased
  <2>. QED BY <2>1, <2>2, <2>3, <2>4 DEF Cased
<1>8. Wanted(mid, F)
  <2>. SUFFICES ASSUME NEW q \in mid.live \ F PROVE mid.count[q] > 0
    BY DEF Wanted
  <2>1. /\ q \in h.live /\ q \in Nodes /\ h.count[q] \in Int /\ mid.count[q] \in Int
        /\ mid.count[q] >= h.count[q]
    BY <1>1, <1>3 DEF Heaps
  <2>2. CASE q \notin E
    BY <2>1, <2>2 DEF Stable, Wanted
  <2>3. CASE q \in E
    <3>1. S # {} /\ q = p
      BY <2>3
    <3>2. mid.count[q] > h.count[q]
      BY <1>2, <1>3, <2>1, <3>1
    <3>3. h.count[q] >= 0
      <4>1. /\ h.count[q] = h.handles[q] + Cardinality(Ownees(h, h.live, q))
            /\ h.handles[q] \in Nat
        BY <1>1, <2>1 DEF Stable, Sound, Counted, Heaps
      <4>2. Cardinality(Ownees(h, h.live, q)) \in Nat
        BY <1>1, OwneesFinite
      <4>. QED BY <4>1, <4>2
    <3>. QED BY <2>1, <3>2, <3>3
  <2>. QED BY <2>2, <2>3
<1>9. \A q \in mid.live : mid.parent[q] # NULL => mid.owner[q] # NULL
  BY <1>3, <1>4 DEF G
<1>10. Moored(mid, mid.owner, r.live)
  BY <1>3, <1>4 DEF Moored, G
<1>11. Stable(r, L, F) /\ Trimmed(mid, mid.owner, r)
  <2>. HIDE DEF F
  <2>. QED BY <1>3, <1>6, <1>7, <1>8, <1>9, <1>10, DecSafe
<1>12. Trimmed(h, G, r)
  BY <1>3, <1>4, <1>11 DEF Trimmed, SameTree
<1>. QED BY <1>11, <1>12 DEF G

-----------------------------------------------------------------------------
(* PmmFixOwner. *)

(* No proxy changes its owner, and nothing is released. *)
LEMMA ReownNothing ==
  ASSUME NEW h, Sound(h), NEW p
  PROVE  Reown(h, {}, p) = h
<1>. DEFINE mid   == Rehung(h, {}, p)
            drops == Released(h, {})
            dead  == Expired(h, drops)
<1>1. h \in Heaps
  BY DEF Sound, Counted
<1>2. mid = h
  <2>. DEFINE owner == [v \in Nodes |-> IF v \in {} THEN (IF v = p THEN NULL ELSE p) ELSE h.owner[v]]
              up(q) == {v \in {} : (IF v = p THEN NULL ELSE p) = q}
              count == [q \in Nodes |-> h.count[q] + Cardinality(up(q))]
  <2>1. owner = h.owner
    BY <1>1 DEF Heaps
  <2>2. \A q \in Nodes : Cardinality(up(q)) = 0
    BY FS_EmptySet
  <2>3. \A q \in Nodes : h.count[q] + Cardinality(up(q)) = h.count[q]
    <3>. HIDE DEF up
    <3>. QED BY <1>1, <2>2 DEF Heaps
  <2>4. count = h.count
    <3>. HIDE DEF up
    <3>. QED BY <1>1, <2>3 DEF Heaps
  <2>5. mid = [h EXCEPT !.owner = owner, !.count = count]
    BY DEF Rehung
  <2>. HIDE DEF owner, count
  <2>. QED BY <1>1, <2>1, <2>4, <2>5 DEF Heaps
<1>3. drops = [q \in Nodes |-> 0]
  BY FS_EmptySet DEF Released
<1>. HIDE DEF mid, drops
<1>4. dead = {}
  <2>1. CascadeClosed(h, drops, {})
    BY <1>1, <1>3 DEF CascadeClosed, Expires, Ownees, Heaps
  <2>. QED BY <2>1 DEF Expired
<1>5. xmlFreed(h, FreedWith(h, {})) = h
  <2>1. FreedWith(h, {}) = {}
    BY DEF FreedWith
  <2>. DEFINE parent == [n \in Nodes |-> IF n \in {} THEN NULL ELSE h.parent[n]]
              doc    == [n \in Nodes |-> IF n \in {} THEN NULL ELSE h.doc[n]]
  <2>2. parent = h.parent /\ doc = h.doc
    BY <1>1 DEF Heaps
  <2>3. xmlFreed(h, {}) = [h EXCEPT !.alloc = h.alloc, !.parent = parent, !.doc = doc]
    BY <1>1 DEF xmlFreed, Heaps
  <2>. HIDE DEF parent, doc
  <2>. QED BY <1>1, <2>1, <2>2, <2>3 DEF Heaps
<1>6. PmmREFCNT_dec(h, drops) = h
  <2>. DEFINE count == [q \in Nodes |-> IF q \in h.live \ {} THEN Remaining(h, drops, {}, q) ELSE 0]
              owner == [q \in Nodes |-> IF q \in {} THEN NULL ELSE h.owner[q]]
  <2>1. ASSUME NEW q \in Nodes PROVE count[q] = h.count[q]
    <3>1. Cardinality(Ownees(h, {}, q)) = 0
      <4>1. Ownees(h, {}, q) = {}
        BY DEF Ownees
      <4>. QED BY <4>1, FS_EmptySet
    <3>2. Remaining(h, drops, {}, q) = h.count[q] - 0 - 0
      BY <1>3, <3>1 DEF Remaining
    <3>3. h.count[q] \in Int /\ (q \notin h.live => h.count[q] = 0)
      BY <1>1 DEF Sound, Counted, Heaps
    <3>. QED BY <3>2, <3>3
  <2>2. count = h.count
    <3>1. h.count = [q \in Nodes |-> h.count[q]]
      BY <1>1 DEF Heaps
    <3>2. \A q \in Nodes : count[q] = h.count[q]
      BY <2>1
    <3>. QED BY <3>1, <3>2
  <2>3. owner = h.owner
    BY <1>1 DEF Heaps
  <2>4. PmmREFCNT_dec(h, drops) = [h EXCEPT !.live = h.live, !.count = count, !.owner = owner]
    BY <1>1, <1>4, <1>5 DEF PmmREFCNT_dec, Heaps
  <2>. HIDE DEF count, owner
  <2>. QED BY <1>1, <2>2, <2>3, <2>4 DEF Heaps
<1>7. Reown(h, {}, p) = PmmREFCNT_dec(mid, drops)
  BY RehungFacts DEF mid, drops
<1>. QED BY <1>2, <1>6, <1>7

(* PmmFixOwner of a node below a parent reowns the proxies it reaches; of
   a node that stands alone with nothing below it, the node only. *)
LEMMA FixOwnerIs ==
  ASSUME NEW h, Sound(h), NEW n \in h.live \ Docs, NEW p \in h.live \cup {NULL}, h.owner[n] # p,
         (p # NULL /\ h.parent[n] # NULL) \/ Below(h, n) = {}
  PROVE  PmmFixOwner(h, n, p) = Reown(h, FixSet(h, n, p), p)
<1>1. CASE p # NULL /\ h.parent[n] # NULL
  BY <1>1 DEF PmmFixOwner, FixSet
<1>2. CASE ~ (p # NULL /\ h.parent[n] # NULL)
  <2>. DEFINE own == Reown(h, {n}, p)
  <2>1. Below(h, n) = {}
    BY <1>2
  <2>2. {n} \cup Reached(h, Props(h, n), p) = {n}
    BY <2>1 DEF Props, Reached
  <2>3. Sound(own) /\ own.alloc \subseteq h.alloc
        /\ \A m \in Nodes : own.parent[m] \in {h.parent[m], NULL}
    <3>1. {n} \in SUBSET h.live
      OBVIOUS
    <3>2. Settled(h, Reown(h, {n}, p))
      BY <3>1, ReownSettled
    <3>. QED BY <3>2 DEF Settled
  <2>4. PmmFixOwner(h, n, p) = Reown(own, Reached(own, Kids(own, n), n), n)
    BY <1>2, <2>2 DEF PmmFixOwner
  <2>. HIDE DEF own
  <2>5. Reached(own, Kids(own, n), n) = {}
    <3>1. n \in Nodes /\ n # NULL /\ own.alloc \subseteq Nodes
      BY <2>3, SizeFacts DEF Sound, Counted, Heaps
    <3>2. Kids(own, n) = {}
      BY <2>1, <2>3, <3>1 DEF Kids, Below
    <3>. QED BY <3>2 DEF Reached
  <2>6. PmmFixOwner(h, n, p) = own
    BY <2>3, <2>4, <2>5, ReownNothing
  <2>. QED BY <1>2, <2>6 DEF own, FixSet
<1>. QED BY <1>1, <1>2

-----------------------------------------------------------------------------
(* Between a change of the tree and PmmFixOwner. *)

(* Nothing left to fix *)
LEMMA SafeIsPending ==
  ASSUME NEW h
  PROVE  Safe(h) <=> Pending(h, {}, {}, {})
BY DEF Safe, Owned, Pending, OwnedBut, Loose

(* What is used of a heap again and again. *)
LEMMA StableFacts ==
  ASSUME NEW h, NEW L, NEW E, Stable(h, L, E)
  PROVE  /\ h \in Heaps /\ h.live \subseteq h.alloc /\ h.alloc \subseteq Nodes
         /\ h.parent \in Pointers /\ Grounded(h.parent)
         /\ h.owner \in Pointers /\ Grounded(h.owner)
         /\ NULL \notin Nodes /\ NULL \in Ends /\ Nodes \subseteq Ends
         /\ Line(h.parent, NULL) = {} /\ Line(h.owner, NULL) = {}
         /\ \A q \in Nodes : h.owner[q] \in Ends /\ h.parent[q] \in Ends
         /\ \A q \in h.live : h.owner[q] \in h.live \cup {NULL}
         /\ \A q \in Docs \cup Frags : h.parent[q] = NULL /\ q \in Nodes
         /\ \A q \in Docs : h.owner[q] = NULL
         /\ \A q \in Nodes : h.parent[q] \notin Attrs
<1>1. /\ h \in Heaps /\ h.live \subseteq h.alloc /\ h.alloc \subseteq Nodes
      /\ h.parent \in Pointers /\ h.owner \in Pointers
      /\ Grounded(h.parent) /\ Grounded(h.owner)
  BY DEF Stable, Sound, Counted, Treed, Cased, Heaps, Pointers, Ends
<1>2. Line(h.parent, NULL) = {} /\ Line(h.owner, NULL) = {}
  BY <1>1, LineUnfolds
<1>3. \A q \in h.live : h.owner[q] \in h.live \cup {NULL}
  BY DEF Stable, Sound, Counted
<1>4. /\ \A q \in Docs \cup Frags : h.parent[q] = NULL /\ q \in Nodes
      /\ \A q \in Nodes : h.parent[q] \notin Attrs
  BY KindFacts DEF Stable, Sound, Planted, Treed
<1>5. \A q \in Docs : h.owner[q] = NULL
  BY KindFacts DEF Stable, Cased
<1>. QED BY <1>1, <1>2, <1>3, <1>4, <1>5, SizeFacts DEF Pointers, Ends

(* Every node of a line but the first one has a child there. *)
LEMMA LineChild ==
  ASSUME NEW F \in Pointers, Grounded(F), NEW s \in Nodes, NEW z \in Line(F, s), z # s
  PROVE  \E y \in Line(F, s) : F[y] = z
BY SizeFacts, ChainChild DEF Line, Grounded, Pointers, Ends

(* The node above one of a line is in the line from the next one on. *)
LEMMA AboveInLine ==
  ASSUME NEW F \in Pointers, Grounded(F), NEW x \in Nodes, NEW m \in Line(F, x), F[m] # NULL
  PROVE  F[x] \in Nodes /\ F[m] \in Line(F, F[x])
BY SizeFacts, ChainAbove DEF Line, Grounded, Pointers, Ends

(* PmmFixOwner changes n, and besides only what is below it. *)
LEMMA FixSetFacts ==
  ASSUME NEW h, NEW L, NEW E, Stable(h, L, E), NEW M, NEW W,
         NEW n \in h.live, NEW p \in h.live, NEW s \in Nodes, Placing(h, M, W, n, p, s),
         h.owner[n] # p
  PROVE  LET S == FixSet(h, n, p)
         IN  /\ S \in SUBSET (h.live \ Docs) /\ n \in S
             /\ \A z \in S : n \in Line(h.parent, z)
             /\ n \in M => S \cap Frags = {}
             /\ n \notin M => S = {n} /\ n \in Frags
<1>. DEFINE S == FixSet(h, n, p)
<1>1. /\ h \in Heaps /\ h.live \subseteq h.alloc /\ h.alloc \subseteq Nodes
      /\ h.parent \in Pointers /\ Grounded(h.parent) /\ n \in Nodes /\ p # NULL /\ s # NULL
      /\ \A q \in Docs \cup Frags : h.parent[q] = NULL
      /\ Line(h.parent, NULL) = {}
  BY StableFacts
<1>2. CASE n \in M
  <2>1. h.parent[n] = s /\ n \notin Docs /\ n \notin Frags
    BY <1>1, <1>2 DEF Placing
  <2>2. S = Reached(h, {n}, p)
    BY <1>1, <2>1 DEF FixSet
  <2>3. /\ Subtree(h, n) = {m \in h.alloc : n \in Line(h.parent, m)}
        /\ Ancestors(h, n) = Line(h.parent, s)
    BY <1>1, <2>1, SubtreeLines
  <2>4. S \in SUBSET (h.live \ Docs) /\ \A z \in S : n \in Line(h.parent, z)
    BY <2>2, <2>3 DEF Reached
  <2>5. S \cap Frags = {}
    <3>. SUFFICES ASSUME NEW f \in S, f \in Frags PROVE FALSE
      OBVIOUS
    <3>1. f \in Nodes /\ n \in Line(h.parent, f)
      BY <1>1, <2>4
    <3>2. Line(h.parent, f) = {f} \cup Line(h.parent, h.parent[f])
      BY <1>1, <3>1, LineUnfolds
    <3>3. h.parent[f] = NULL
      BY <1>1
    <3>. QED BY <1>1, <2>1, <3>1, <3>2, <3>3
  <2>6. n \in S
    <3>1. n \in Subtree(h, n)
      BY <1>1, SubtreeFacts
    <3>2. ASSUME NEW a \in Ancestors(h, n) \cap Subtree(h, n) PROVE FALSE
      <4>1. a \in Line(h.parent, s) /\ n \in Line(h.parent, a)
        BY <2>3
      <4>2. n \in Line(h.parent, s)
        BY <1>1, <4>1, LineFacts
      <4>. QED BY <1>1, <2>1, <4>2, LineUnfolds
    <3>. QED BY <2>1, <2>2, <3>1, <3>2 DEF Reached
  <2>. HIDE DEF S
  <2>. QED BY <1>2, <2>4, <2>5, <2>6 DEF S
<1>3. CASE n \notin M
  <2>1. n \in Frags /\ h.parent[n] = NULL
    BY <1>1, <1>3 DEF Placing
  <2>2. S = {n}
    BY <2>1 DEF FixSet
  <2>3. n \in Line(h.parent, n)
    BY <1>1, LineFacts
  <2>. QED BY <1>3, <2>1, <2>2, <2>3, KindFacts
<1>. QED BY <1>2, <1>3

(* Nothing that PmmFixOwner gives the owner p is above p among the owners. *)
LEMMA OwnersApart ==
  ASSUME NEW h, NEW L \in SUBSET Attrs, NEW E, NEW M, NEW W, Pending(h, L, E, M \cup W),
         NEW n \in h.live, NEW p \in h.live, NEW s \in Nodes, Placing(h, M, W, n, p, s),
         h.owner[n] # p
  PROVE  Line(h.owner, p) \cap FixSet(h, n, p) = {}
<1>. DEFINE S == FixSet(h, n, p)
            F == h.parent
            O == h.owner
            Near(v) == Keeps(F, O, v, s)
            X == {v \in Nodes : (v \in Docs \/ Near(v)) /\ (n \in M \/ v # n)}
<1>1. /\ S \in SUBSET (h.live \ Docs) /\ n \in S /\ \A z \in S : n \in Line(F, z)
      /\ n \in M => S \cap Frags = {}
      /\ n \notin M => S = {n} /\ n \in Frags
  BY FixSetFacts DEF Pending
<1>2. /\ h \in Heaps /\ h.live \subseteq h.alloc /\ h.alloc \subseteq Nodes
      /\ F \in Pointers /\ Grounded(F) /\ O \in Pointers /\ Grounded(O)
      /\ NULL \notin Nodes /\ NULL \in Ends /\ Nodes \subseteq Ends
      /\ Line(F, NULL) = {} /\ Line(O, NULL) = {}
      /\ \A q \in Nodes : O[q] \in Ends /\ F[q] \in Ends
      /\ \A q \in h.live : O[q] \in h.live \cup {NULL}
      /\ \A q \in Docs \cup Frags : F[q] = NULL /\ q \in Nodes
      /\ \A q \in Docs : O[q] = NULL
      /\ \A q \in Nodes : F[q] \notin Attrs
  BY StableFacts DEF Pending
<1>3. /\ \A m \in M : F[m] = s
      /\ n \notin M => \A v \in h.live : O[v] = n => Line(F, v) \cap M # {}
      /\ p # n /\ s \notin Attrs /\ Near(p) /\ Line(F, s) \cap (M \cup W) = {}
      /\ s \in Frags => O[s] \in Docs \cup {NULL}
  BY DEF Placing
<1>4. ASSUME NEW v \in Nodes, v \notin Frags, Near(v) PROVE v \in Line(F, s)
  <2>1. Line(Passing(O), v) = {v}
    BY <1>2, <1>4, PassingFacts
  <2>. QED BY <1>4, <2>1 DEF Keeps
<1>. HIDE DEF S, F, O
<1>5. ASSUME NEW v \in Nodes, v \in Line(F, s), O[v] # NULL
      PROVE  O[v] \in Docs \/ Near(O[v])
  <2>0. v \in h.live /\ v \notin Docs
    BY <1>5 DEF Pending, Stable, Cased, O
  <2>1. CASE F[v] # NULL
    <3>1. Line(F, v) \subseteq Line(F, s) /\ F[v] \in Line(F, v) /\ F[v] \in Line(F, s)
      BY <1>2, <1>5, <2>1, LineFacts
    <3>2. Line(F, v) \cap (M \cup W) = {}
      BY <1>3, <3>1
    <3>3. Keeps(F, O, O[v], F[v])
      BY <2>0, <2>1, <3>2 DEF Pending, OwnedBut, Anchored, F, O
    <3>. QED BY <1>2, <3>1, <3>3, KeepsBelow
  <2>2. CASE F[v] = NULL
    <3>1. v = s \/ \E y \in Line(F, s) : F[y] = v
      BY <1>2, <1>5, LineChild
    <3>2. Line(F, s) \subseteq Nodes
      BY <1>2, LineFacts
    <3>3. v \notin Attrs
      BY <1>2, <1>3, <3>1, <3>2
    <3>4. v \notin Elems
      <4>1. v \in h.alloc \ L
        BY <1>2, <2>0, <3>3
      <4>. QED BY <2>2, <4>1 DEF Pending, Stable, Homed, F
    <3>5. v \in Frags
      BY <2>0, <3>3, <3>4 DEF Nodes
    <3>6. CASE v = s
      BY <1>3, <1>5, <3>5, <3>6
    <3>7. CASE \E y \in Line(F, s) : F[y] = v
      <4>1. O[v] = h.doc[v]
        BY <3>2, <3>5, <3>7 DEF Pending, Stable, Cased, F, O
      <4>2. h.doc[v] \in Docs \cup {NULL}
        BY <1>2 DEF Heaps
      <4>. QED BY <1>5, <4>1, <4>2
    <3>. QED BY <3>1, <3>6, <3>7
  <2>. QED BY <2>1, <2>2
<1>6. ASSUME NEW v \in Nodes, Near(v), v \notin Line(F, s) PROVE O[v] \in Nodes /\ Near(O[v])
  <2>1. Passing(O) \in Pointers /\ Grounded(Passing(O))
    BY <1>2, PassingFacts
  <2>2. Line(Passing(O), v) = {v} \cup Line(Passing(O), Passing(O)[v])
    BY <2>1, LineUnfolds
  <2>3. Keeps(F, O, Passing(O)[v], s)
    BY <1>6, <2>2 DEF Keeps
  <2>4. Passing(O)[v] # NULL
    BY <2>1, <2>3, LineUnfolds DEF Keeps
  <2>5. Passing(O)[v] = O[v]
    BY <2>4 DEF Passing
  <2>. QED BY <1>2, <2>3, <2>4, <2>5 DEF Ends
<1>7. ASSUME NEW v \in X, O[v] # NULL PROVE O[v] \in X
  <2>1. v \notin Docs /\ Near(v) /\ v \in h.live /\ O[v] \in Nodes
    <3>1. v \in h.live /\ v \notin Docs
      BY <1>7 DEF Pending, Stable, Cased, O
    <3>. QED BY <1>2, <1>7, <3>1
  <2>2. O[v] \in Docs \/ Near(O[v])
    BY <1>5, <1>6, <1>7, <2>1
  <2>3. n \in M \/ O[v] # n
    <3>. SUFFICES ASSUME n \notin M, O[v] = n PROVE FALSE
      OBVIOUS
    <3>1. Line(F, v) \cap M # {}
      BY <1>3, <2>1
    <3>2. CASE v \in Frags
      <4>1. Line(F, v) = {v} \cup Line(F, F[v]) /\ F[v] = NULL
        BY <1>2, <3>2, LineUnfolds
      <4>2. v \in M
        BY <1>2, <3>1, <4>1
      <4>. QED BY <1>2, <1>3, <4>1, <4>2
    <3>3. CASE v \notin Frags
      <4>1. v \in Line(F, s)
        BY <1>4, <2>1, <3>3
      <4>2. Line(F, v) \subseteq Line(F, s)
        BY <1>2, <4>1, LineFacts
      <4>. QED BY <1>3, <3>1, <4>2
    <3>. QED BY <3>2, <3>3
  <2>. QED BY <2>1, <2>2, <2>3
<1>8. p \in X
  BY <1>2, <1>3
<1>9. ASSUME NEW z \in S, z \in X PROVE FALSE
  <2>1. n \in M
    BY <1>1, <1>9
  <2>2. z \notin Frags /\ z \notin Docs /\ n \in Line(F, z)
    BY <1>1, <1>9, <2>1
  <2>3. z \in Line(F, s)
    BY <1>4, <1>9, <2>2
  <2>4. Line(F, z) \subseteq Line(F, s)
    BY <1>2, <2>3, LineFacts
  <2>. QED BY <1>3, <2>1, <2>2, <2>4
<1>10. X \in SUBSET Nodes
  OBVIOUS
<1>. HIDE DEF X
<1>11. Line(O, p) \subseteq X
  <2>1. \A v \in X : O[v] \in X \cup {NULL}
    BY <1>7
  <2>. QED BY <1>2, <1>8, <1>10, <2>1, LineWithin
<1>. QED BY <1>9, <1>11 DEF S, O

(* What PmmFixOwner does, when the nodes placed below s take the owner p
   of s, is such a gift. *)
LEMMA GivenFacts ==
  ASSUME NEW h, NEW L \in SUBSET Attrs, NEW E, NEW M, NEW W, Pending(h, L, E, M \cup W),
         NEW n \in h.live, NEW p \in h.live, NEW s \in Nodes, Placing(h, M, W, n, p, s),
         h.owner[n] # p, NEW S, S = FixSet(h, n, p), NEW G, G = Given(h, S, p)
  PROVE  Giving(h, M, W, n, p, s, S, G)
<1>. DEFINE F == h.parent
            O == h.owner
<1>1. /\ S \in SUBSET (h.live \ Docs) /\ n \in S /\ \A z \in S : n \in Line(F, z)
      /\ n \in M => S \cap Frags = {}
      /\ n \notin M => S = {n} /\ n \in Frags
  BY FixSetFacts DEF Pending
<1>2. /\ h \in Heaps /\ h.live \subseteq h.alloc /\ h.alloc \subseteq Nodes
      /\ F \in Pointers /\ Grounded(F) /\ O \in Pointers /\ Grounded(O)
      /\ NULL \notin Nodes /\ NULL \in Ends /\ Nodes \subseteq Ends
      /\ Line(F, NULL) = {} /\ Line(O, NULL) = {}
      /\ \A q \in Nodes : O[q] \in Ends /\ F[q] \in Ends
      /\ \A q \in Docs \cup Frags : F[q] = NULL /\ q \in Nodes
  BY StableFacts DEF Pending
<1>3. /\ \A m \in M : F[m] = s
      /\ n \notin M => \A v \in h.live : O[v] = n => Line(F, v) \cap M # {}
      /\ Keeps(F, O, p, s)
  BY DEF Placing
<1>4. Line(O, p) \cap S = {}
  BY OwnersApart
<1>. HIDE DEF F, O
<1>5. /\ G \in Pointers /\ \A q \in Nodes : G[q] = IF q \in S THEN p ELSE O[q]
  BY <1>2 DEF Given, Pointers, O
<1>6. IsMove(O, S, p, G) /\ p \in Nodes /\ n \in Nodes /\ p \in Ends
  BY <1>2, <1>5 DEF IsMove
<1>7. Grounded(G)
  BY <1>2, <1>4, <1>6, MoveGrounded
<1>8. Keeps(F, G, p, s)
  <2>1. Line(Passing(O), p) \subseteq Line(O, p) /\ Line(Passing(O), p) \subseteq Nodes
    BY <1>2, <1>6, PassingFacts
  <2>2. \A v \in Line(Passing(O), p) \cap Frags : G[v] = O[v]
    BY <1>4, <1>5, <2>1
  <2>3. Line(Passing(G), p) = Line(Passing(O), p)
    BY <1>2, <1>5, <1>6, <1>7, <2>2, PassingAgrees
  <2>. QED BY <1>3, <2>3 DEF Keeps
<1>9. G[n] = p
  BY <1>1, <1>5, <1>6
<1>10. ASSUME n \notin M PROVE Keeps(F, G, n, s)
  <2>1. Line(Passing(G), n) = {n} \cup Line(Passing(G), p)
    BY <1>1, <1>2, <1>5, <1>6, <1>7, <1>9, <1>10, PassingFacts
  <2>. QED BY <1>8, <2>1 DEF Keeps
<1>11. ASSUME NEW x \in h.live, F[x] # NULL, Line(F, x) \cap (M \cup W) = {}
       PROVE  x \notin S /\ Anchored(F, G, x)
  <2>1. Anchored(F, O, x) /\ x \in Nodes
    BY <1>2, <1>11 DEF Pending, OwnedBut, F, O
  <2>2. x \notin S
    <3>1. CASE n \in M
      BY <1>1, <1>11, <3>1
    <3>2. CASE n \notin M
      BY <1>1, <1>2, <1>11, <3>2
    <3>. QED BY <3>1, <3>2
  <2>3. G[x] = O[x] /\ O[x] \in Nodes
    <3>1. O[x] # NULL
      <4>1. Line(Passing(O), NULL) = {}
        <5>1. Passing(O) \in Pointers /\ Grounded(Passing(O))
          BY <1>2, <1>6, PassingFacts
        <5>. QED BY <5>1, LineUnfolds
      <4>. QED BY <2>1, <4>1 DEF Anchored, Keeps
    <3>. QED BY <1>2, <1>5, <2>1, <2>2, <3>1 DEF Ends
  <2>4. ASSUME NEW v \in Line(Passing(O), O[x]), v \in Frags, v \in S PROVE FALSE
    <3>1. S = {n} /\ v = n /\ n \notin M
      BY <1>1, <2>4
    <3>2. O[x] # n
      BY <1>3, <1>11, <3>1
    <3>3. Passing(O) \in Pointers /\ Grounded(Passing(O))
      BY <1>2, <1>6, PassingFacts
    <3>4. PICK y \in Line(Passing(O), O[x]) : Passing(O)[y] = n
      BY <2>3, <2>4, <3>1, <3>2, <3>3, LineChild
    <3>5. y \in Frags /\ O[y] = n /\ y \in Nodes
      <4>1. y \in Nodes
        BY <2>3, <3>3, <3>4, LineFacts
      <4>. QED BY <1>2, <1>6, <3>4, <4>1 DEF Passing
    <3>6. y \in h.live
      BY <1>2, <1>6, <3>5 DEF Pending, Stable, Cased, O
    <3>7. Line(F, y) \cap M # {}
      BY <1>3, <3>1, <3>5, <3>6
    <3>8. Line(F, y) = {y} \cup Line(F, F[y]) /\ F[y] = NULL
      BY <1>2, <3>5, LineUnfolds
    <3>. QED BY <1>2, <1>3, <3>7, <3>8
  <2>5. Line(Passing(G), O[x]) = Line(Passing(O), O[x])
    <3>1. \A v \in Line(Passing(O), O[x]) \cap Frags : G[v] = O[v]
      BY <1>2, <1>5, <2>4
    <3>. QED BY <1>2, <1>5, <1>7, <2>3, <3>1, PassingAgrees
  <2>. QED BY <2>1, <2>2, <2>3, <2>5 DEF Anchored, Keeps
<1>. QED BY <1>5, <1>7, <1>8, <1>9, <1>10, <1>11 DEF Giving, F, O

(* A proxy below a moved node is kept when its owner moved with it, or is
   the one that was given. *)
LEMMA FixedAnchored ==
  ASSUME NEW F \in Pointers, Grounded(F), NEW G \in Pointers, Grounded(G),
         NEW n, NEW p, NEW s \in Nodes, NEW m \in Nodes, F[m] = s,
         NEW x \in Nodes, m \in Line(F, x),
         Keeps(F, G, p, s),
         \/ G[x] = p
         \/ G[x] = n /\ Keeps(F, G, n, s)
         \/ G[x] \in Line(F, F[x])
  PROVE  Anchored(F, G, x)
<1>1. s # NULL
  BY SizeFacts
<1>2. F[x] \in Nodes /\ s \in Line(F, F[x])
  BY <1>1, AboveInLine
<1>3. CASE Keeps(F, G, G[x], s)
  BY <1>2, <1>3, KeepsBelow DEF Anchored
<1>4. CASE G[x] \in Line(F, F[x])
  <2>1. G[x] \in Nodes
    BY <1>2, <1>4, LineFacts
  <2>2. G[x] \in Line(Passing(G), G[x])
    BY <2>1, PassingFacts
  <2>. QED BY <1>4, <2>2 DEF Anchored, Keeps
<1>. QED BY <1>3, <1>4

(* Lines are shorter where links were dropped. *)
LEMMA LinesDrop ==
  ASSUME NEW F \in Pointers, Grounded(F), NEW G \in Pointers, Grounded(G),
         \A x \in Nodes : G[x] \in {F[x], NULL}, NEW n \in Nodes
  PROVE  Line(G, n) \subseteq Line(F, n)
<1>. PICK X : X = Line(F, n)
  OBVIOUS
<1>1. X \in SUBSET Nodes /\ n \in X /\ \A a \in X : F[a] \in X \cup {NULL}
  BY LineFacts
<1>2. \A a \in X : G[a] \in X \cup {NULL}
  BY <1>1
<1>3. n \in X \cup {NULL}
  BY <1>1
<1>. QED BY <1>1, <1>2, <1>3, LineWithin

(* PmmFixOwner drops links at most. *)
LEMMA FixOwnerLinks ==
  ASSUME NEW h, Sound(h), Grounded(h.parent), NEW n \in h.live, h.handles[n] > 0,
         NEW p \in h.live \cup {NULL}, NEW out, out = PmmFixOwner(h, n, p)
  PROVE  /\ Settled(h, out) /\ out \in Heaps /\ out.parent \in Pointers /\ Grounded(out.parent)
         /\ \A x \in Nodes : out.parent[x] \in {h.parent[x], NULL}
<1>1. Settled(h, out)
  BY FixOwnerSettled
<1>2. /\ out \in Heaps /\ out.parent \in Pointers /\ NULL \notin Nodes
      /\ \A x \in Nodes : out.parent[x] \in {h.parent[x], NULL}
  BY <1>1, SizeFacts DEF Settled, Sound, Counted, Heaps, Pointers, Ends
<1>3. Grounded(out.parent)
  BY <1>2 DEF Grounded, Rooted
<1>. QED BY <1>1, <1>2, <1>3

(* PmmFixOwner where n has its owner already *)
LEMMA FixOwnerNothing ==
  ASSUME NEW h, NEW L \in SUBSET Attrs, NEW M \in SUBSET Nodes, NEW W \in SUBSET Nodes,
         Pending(h, L, {}, M \cup W), NEW n \in h.live, NEW p \in h.live, NEW s \in Nodes,
         Placing(h, M, W, n, p, s), h.owner[n] = p, FixedBelow(h, h, M, n, p)
  PROVE  Pending(h, L, {}, W)
<1>. DEFINE F == h.parent
            O == h.owner
<1>1. /\ h.live \subseteq h.alloc /\ h.alloc \subseteq Nodes /\ h \in Heaps
      /\ F \in Pointers /\ Grounded(F) /\ O \in Pointers /\ Grounded(O)
      /\ NULL \notin Nodes /\ \A q \in Docs \cup Frags : F[q] = NULL /\ q \in Nodes
  BY StableFacts DEF Pending
<1>2. /\ \A m \in M : F[m] = s
      /\ n \in M \/ n \in Frags
      /\ Keeps(F, O, p, s)
  BY DEF Placing
<1>3. n \in Frags => Keeps(F, O, n, s)
  <2>. SUFFICES ASSUME n \in Frags PROVE Keeps(F, O, n, s)
    OBVIOUS
  <2>1. Line(Passing(O), n) = {n} \cup Line(Passing(O), p)
    BY <1>1, PassingFacts
  <2>. QED BY <1>2, <2>1 DEF Keeps
<1>. SUFFICES ASSUME NEW x \in h.live, F[x] # NULL, Line(F, x) \cap W = {}
              PROVE  Anchored(F, O, x)
  BY DEF Pending, OwnedBut, Loose
<1>4. CASE Line(F, x) \cap M = {}
  BY <1>4 DEF Pending, OwnedBut
<1>5. CASE Line(F, x) \cap M # {}
  <2>1. PICK m \in M : m \in Line(F, x)
    BY <1>5
  <2>2. m \in Nodes /\ x \in Nodes /\ x \in h.alloc /\ F[m] = s
    BY <1>1, <1>2
  <2>3. Subtree(h, m) = {y \in h.alloc : m \in Line(F, y)}
    BY <1>1, <2>2, SubtreeLines
  <2>4. \/ O[x] \in Subtree(h, m) \cup {m, p} \cup ({n} \cap Frags)
        \/ O[x] \in Line(F, F[x])
        \/ Anchored(F, O, x)
    BY <2>1, <2>2, <2>3 DEF FixedBelow
  <2>5. O[x] \in Subtree(h, m) \cup {m} => O[x] \in Line(F, F[x])
    <3>1. m \in Line(F, m)
      BY <1>1, <2>2, LineFacts
    <3>. QED BY <2>1, <2>3, <3>1 DEF Pending, Loose
  <2>. HIDE DEF F, O
  <2>. QED BY <1>1, <1>2, <1>3, <2>1, <2>2, <2>4, <2>5, FixedAnchored
<1>. QED BY <1>4, <1>5

(* PmmFixOwner brings the proxies below the moved nodes under the owner p. *)
LEMMA FixOwnerPending ==
  ASSUME NEW h, NEW L \in SUBSET Attrs, NEW E, NEW M \in SUBSET Nodes, NEW W \in SUBSET Nodes,
         Pending(h, L, E, M \cup W), NEW n \in h.live, h.handles[n] > 0, NEW p \in h.live,
         NEW s \in Nodes, Placing(h, M, W, n, p, s), h.owner[n] = p => E = {},
         NEW out, out = PmmFixOwner(h, n, p), FixedBelow(h, out, M, n, p),
         Watched(h, out, W)
  PROVE  /\ Pending(out, L, E \ {p}, W) /\ Placed(h, M, n, out)
         /\ out.owner[n] = p
<1>0. CASE h.owner[n] = p
  <2>1. out = h
    BY <1>0 DEF PmmFixOwner
  <2>2. Pending(h, L, {}, W)
    BY <1>0, <2>1, FixOwnerNothing
  <2>3. Placed(h, M, n, h)
    BY DEF Placed, SameTree
  <2>. QED BY <1>0, <2>1, <2>2, <2>3
<1>. SUFFICES ASSUME h.owner[n] # p
              PROVE  /\ Pending(out, L, E \ {p}, W) /\ Placed(h, M, n, out)
                     /\ out.owner[n] = p
  BY <1>0
<1>. DEFINE S == FixSet(h, n, p)
            G == Given(h, S, p)
            F == h.parent
            O == h.owner
            K == out.live
<1>1. /\ S \in SUBSET (h.live \ Docs) /\ n \in S /\ \A z \in S : n \in Line(F, z)
      /\ n \in M => S \cap Frags = {}
      /\ n \notin M => S = {n} /\ n \in Frags
  BY FixSetFacts DEF Pending
<1>2. /\ h \in Heaps /\ h.live \subseteq h.alloc /\ h.alloc \subseteq Nodes
      /\ F \in Pointers /\ Grounded(F) /\ O \in Pointers /\ Grounded(O)
      /\ NULL \notin Nodes /\ NULL \in Ends /\ Nodes \subseteq Ends
      /\ Line(F, NULL) = {} /\ Line(O, NULL) = {}
      /\ \A q \in Nodes : O[q] \in Ends /\ F[q] \in Ends
      /\ \A q \in h.live : O[q] \in h.live \cup {NULL}
      /\ \A q \in Docs \cup Frags : F[q] = NULL /\ q \in Nodes
  BY StableFacts DEF Pending
<1>3. /\ \A m \in M : F[m] = s
      /\ n \in M \/ (n \in Frags /\ Below(h, n) = {} /\ W = {})
      /\ p # n /\ p \notin Attrs
      /\ M \cap Attrs \subseteq {n} /\ W \cap Attrs = {}
      /\ \A x \in Nodes : Line(F, x) \cap M = {} \/ Line(F, x) \cap W = {}
  <2>. HIDE DEF F
  <2>1. /\ \A m \in M : F[m] = s
        /\ \/ n \in M
           \/ /\ n \in Frags /\ Below(h, n) = {} /\ W = {}
              /\ \A v \in h.live : h.owner[v] = n => Line(F, v) \cap M # {}
    BY DEF Placing, F
  <2>2. n \in M \/ (n \in Frags /\ Below(h, n) = {} /\ W = {})
    BY <2>1
  <2>3. /\ p # n /\ p \notin Attrs
        /\ M \cap Attrs \subseteq {n} /\ W \cap Attrs = {}
        /\ \A x \in Nodes : Line(F, x) \cap M = {} \/ Line(F, x) \cap W = {}
    BY DEF Placing, F
  <2>. QED BY <2>1, <2>2, <2>3
<1>4. Line(O, p) \cap S = {}
  BY OwnersApart
<1>5. /\ G \in Pointers /\ Grounded(G) /\ G[n] = p
      /\ \A q \in Nodes : q \notin S => G[q] = O[q]
      /\ Keeps(F, G, p, s)
      /\ n \notin M => Keeps(F, G, n, s)
      /\ \A x \in h.live : F[x] # NULL /\ Line(F, x) \cap (M \cup W) = {} =>
           x \notin S /\ Anchored(F, G, x)
  <2>1. S = FixSet(h, n, p) /\ G = Given(h, S, p)
    OBVIOUS
  <2>. HIDE DEF G, S, F, O
  <2>2. Giving(h, M, W, n, p, s, S, G)
    BY <2>1, GivenFacts
  <2>. QED BY <2>2 DEF Giving, F, O
<1>6. \A q \in S : G[q] = p
  BY <1>1, <1>2 DEF Given
<1>7. out = Reown(h, S, p)
  <2>1. F[n] # NULL \/ Below(h, n) = {}
    BY <1>2, <1>3
  <2>2. n \in h.live \ Docs /\ p \in h.live \cup {NULL} /\ Sound(h) /\ p # NULL
    BY <1>1, <1>2 DEF Pending, Stable
  <2>. QED BY <2>1, <2>2, FixOwnerIs
<1>8. S \in SUBSET h.live /\ p \in h.live \cup {NULL} /\ p \notin S /\ Sound(h) /\ p \in Nodes /\ n \in Nodes
  <2>1. p \in Line(O, p)
    BY <1>2, LineFacts
  <2>. QED BY <1>1, <1>2, <1>4, <2>1 DEF Pending, Stable
<1>. HIDE DEF S, F, O, G, K
<1>9. /\ \A q \in K : out.owner[q] = G[q] /\ G[q] \in K \cup {NULL}
      /\ K \subseteq h.live /\ out.handles = h.handles
  <2>1. /\ \A q \in Reown(h, S, p).live : /\ Reown(h, S, p).owner[q] = Given(h, S, p)[q]
                                           /\ Given(h, S, p)[q] \in Reown(h, S, p).live \cup {NULL}
        /\ Reown(h, S, p).live \subseteq h.live /\ Reown(h, S, p).handles = h.handles
    BY <1>8, ReownOwners
  <2>. QED BY <1>7, <2>1 DEF K, G
<1>10. n \in K /\ p \in K
  <2>1. Settled(h, out)
    BY <1>7, <1>8, ReownSettled
  <2>2. n \in K
    BY <1>8, <2>1 DEF Settled, Sound, Counted, K
  <2>. QED BY <1>2, <1>5, <1>8, <1>9, <2>2
<1>11. K \in SUBSET Nodes /\ \A k \in K : Line(Passing(G), k) \subseteq K
  <2>1. K \in SUBSET Nodes
    BY <1>2, <1>9
  <2>. QED BY <1>5, <1>9, <2>1, PassingWithin
<1>12. Line(F, s) \cap K # {}
  BY <1>5, <1>10, <1>11 DEF Keeps
<1>22. ASSUME n \in M, NEW k \in Nodes PROVE Line(Passing(G), k) = Line(Passing(O), k)
  <2>1. Line(Passing(O), k) \subseteq Nodes /\ S \cap Frags = {}
    BY <1>1, <1>2, <1>22, PassingFacts
  <2>2. \A v \in Line(Passing(O), k) \cap Frags : G[v] = O[v]
    BY <1>5, <2>1
  <2>. QED BY <1>2, <1>5, <2>2, PassingAgrees
<1>13. ASSUME NEW w \in W PROVE Line(F, F[w]) \cap K # {} /\ F[w] # NULL
  <2>1. PICK k \in K : Keeps(F, O, k, F[w])
    BY DEF K, F, O, Watched
  <2>2. n \in M /\ k \in Nodes
    BY <1>3, <1>11
  <2>4. Line(Passing(G), k) = Line(Passing(O), k)
    BY <1>22, <2>2
  <2>5. Line(Passing(O), k) \cap Line(F, F[w]) # {}
    BY <2>1 DEF Keeps
  <2>. QED BY <1>2, <1>11, <2>4, <2>5
<1>14. ASSUME NEW x \in h.live, F[x] # NULL PROVE G[x] # NULL
  <2>0. x \in Nodes /\ p # NULL
    BY <1>2, <1>8
  <2>1. CASE x \in S
    BY <1>6, <2>0, <2>1
  <2>2. CASE Line(F, x) \cap (M \cup W) = {}
    <3>1. Anchored(F, G, x)
      BY <1>5, <1>14, <2>2
    <3>2. Line(Passing(G), NULL) = {}
      <4>1. Passing(G) \in Pointers /\ Grounded(Passing(G))
        BY <1>5, <1>8, PassingFacts
      <4>. QED BY <4>1, LineUnfolds
    <3>. QED BY <3>1, <3>2 DEF Anchored, Keeps
  <2>3. CASE x \notin S /\ Line(F, x) \cap (M \cup W) # {}
    <3>1. PICK m \in M \cup W : m \in Line(F, x)
      BY <2>3
    <3>2. (x \in Attrs /\ x = m) \/ O[x] # NULL
      BY <3>1 DEF Pending, Loose, F, O
    <3>3. x = m /\ x \in Attrs => x \in S
      BY <1>1, <1>3
    <3>. QED BY <1>5, <2>0, <2>3, <3>2, <3>3
  <2>. QED BY <2>1, <2>2, <2>3
<1>15. Moored(h, G, K)
  <2>. SUFFICES ASSUME NEW x \in K, F[x] # NULL, Line(F, x) \cap (M \cup W) # {}
                PROVE  Line(F, F[x]) \cap K # {}
    BY <1>5, <1>9 DEF Moored, F
  <2>0. x \in Nodes
    BY <1>11
  <2>1. CASE Line(F, x) \cap M # {}
    <3>1. PICK m \in M : m \in Line(F, x)
      BY <2>1
    <3>2. F[x] \in Nodes /\ s \in Line(F, F[x])
      BY <1>2, <1>3, <2>0, <3>1, AboveInLine
    <3>. QED BY <1>2, <1>12, <3>2, LineFacts
  <2>2. CASE Line(F, x) \cap W # {}
    <3>1. PICK w \in W : w \in Line(F, x)
      BY <2>2
    <3>2. F[w] # NULL /\ Line(F, F[w]) \cap K # {}
      BY <1>13
    <3>3. F[x] \in Nodes /\ F[w] \in Line(F, F[x])
      BY <1>2, <2>0, <3>1, <3>2, AboveInLine
    <3>. QED BY <1>2, <3>2, <3>3, LineFacts
  <2>. QED BY <2>1, <2>2
<1>16. \A m \in Nodes : F[m] \notin Frags \cap S
  <2>. SUFFICES ASSUME NEW m \in Nodes, F[m] \in Frags \cap S PROVE FALSE
    OBVIOUS
  <2>1. F[m] = n /\ Below(h, n) = {}
    BY <1>1, <1>3
  <2>2. m \in h.alloc
    BY <1>2, <1>8, <2>1 DEF Pending, Stable, Treed, F
  <2>. QED BY <2>1, <2>2 DEF Below, F
<1>17. Stable(out, L, E \ {p}) /\ Trimmed(h, G, out)
  <2>1. /\ Stable(h, L, E) /\ S \in SUBSET (h.live \ Docs) /\ p \in h.live \cup {NULL}
        /\ p \notin Attrs /\ Line(h.owner, p) \cap S = {} /\ S # {}
        /\ \A m \in Nodes : h.parent[m] \notin Frags \cap S
        /\ \A q \in h.live : h.parent[q] # NULL => Given(h, S, p)[q] # NULL
        /\ Moored(h, Given(h, S, p), Reown(h, S, p).live)
    BY <1>1, <1>3, <1>4, <1>7, <1>8, <1>14, <1>15, <1>16 DEF Pending, F, O, G, K
  <2>2. /\ Stable(Reown(h, S, p), L, IF S = {} THEN E ELSE E \ {p})
        /\ Trimmed(h, Given(h, S, p), Reown(h, S, p))
    BY <2>1, ReownSafe
  <2>. QED BY <1>7, <2>1, <2>2 DEF G
<1>18. /\ SameTree(h, out) /\ out.live \subseteq out.alloc /\ K \subseteq h.alloc
       /\ \A x \in K : out.parent[x] = F[x] /\ Line(out.parent, x) = Line(F, x)
       /\ \A x \in K : Line(out.parent, F[x]) = Line(F, F[x])
       /\ \A x \in out.alloc : Line(out.parent, x) = Line(F, x)
       /\ Line(out.parent, NULL) = {}
  <2>1. SameTree(h, out)
    BY <1>17 DEF Trimmed
  <2>2. /\ out.live \subseteq out.alloc /\ out.alloc \subseteq Nodes /\ Line(out.parent, NULL) = {}
    BY <1>17, StableFacts
  <2>3. \A x \in out.alloc : out.parent[x] = F[x] /\ Line(out.parent, x) = Line(F, x)
    BY <2>1 DEF SameTree, F
  <2>4. \A x \in out.alloc : F[x] \in out.alloc \cup {NULL}
    BY <1>17, <2>2, <2>3 DEF Stable, Treed
  <2>. QED BY <1>2, <1>9, <2>1, <2>2, <2>3, <2>4 DEF K
<1>19. OwnedBut(out, W)
  <2>. SUFFICES ASSUME NEW x \in K, out.parent[x] # NULL, Line(out.parent, x) \cap W = {}
                PROVE  Anchored(out.parent, out.owner, x)
    BY DEF OwnedBut, K
  <2>0. F[x] # NULL /\ Line(F, x) \cap W = {} /\ x \in h.live /\ x \in Nodes
    BY <1>9, <1>11, <1>18
  <2>. SUFFICES Anchored(F, G, x)
    BY <1>17, <2>0 DEF Trimmed, F, K
  <2>1. CASE Line(F, x) \cap M = {}
    <3>1. Line(F, x) \cap (M \cup W) = {}
      BY <2>0, <2>1
    <3>. QED BY <1>5, <2>0, <3>1
  <2>2. CASE Line(F, x) \cap M # {}
    <3>1. PICK m \in M : m \in Line(F, x)
      BY <2>2
    <3>2. Subtree(out, m) = {y \in out.alloc : m \in Line(out.parent, y)}
      <4>1. out \in Heaps /\ Grounded(out.parent)
        BY <1>17, StableFacts
      <4>. QED BY <4>1, SubtreeLines
    <3>3. x \in Subtree(out, m)
      BY <1>18, <3>1, <3>2 DEF K
    <3>4. \/ G[x] \in Subtree(out, m) \cup {m, p} \cup ({n} \cap Frags)
          \/ G[x] \in Line(F, F[x])
          \/ n \in M /\ Anchored(F, O, x)
      BY <1>9, <3>3 DEF FixedBelow, K, F, O
    <3>5. CASE G[x] \in Subtree(out, m) \cup {m} /\ x \notin S
      <4>0. m \in Line(F, m)
        BY <1>2, LineFacts
      <4>1. G[x] = O[x] /\ m \in Line(F, G[x])
        BY <1>5, <1>18, <2>0, <3>2, <3>5, <4>0
      <4>2. O[x] \in Line(F, F[x])
        BY <2>0, <3>1, <4>1 DEF Pending, Loose, F, O
      <4>. QED BY <1>2, <1>3, <1>5, <2>0, <3>1, <4>1, <4>2, FixedAnchored
    <3>6. CASE G[x] = p
      BY <1>2, <1>3, <1>5, <2>0, <3>1, <3>6, FixedAnchored
    <3>7. CASE G[x] = n /\ n \in Frags
      <4>1. Keeps(F, G, n, s)
        <5>1. n \notin M
          <6>1. F[n] = NULL /\ s # NULL
            BY <1>2, <3>7
          <6>. QED BY <1>3, <6>1
        <5>. QED BY <1>5, <5>1
      <4>. QED BY <1>2, <1>3, <1>5, <2>0, <3>1, <3>7, <4>1, FixedAnchored
    <3>8. CASE n \in M /\ Anchored(F, O, x) /\ x \notin S
      <4>1. G[x] = O[x] /\ O[x] # NULL
        BY <1>5, <1>14, <2>0, <3>8
      <4>2. O[x] \in Nodes
        BY <1>2, <2>0, <4>1 DEF Ends
      <4>3. Line(Passing(G), O[x]) = Line(Passing(O), O[x])
        BY <1>22, <3>8, <4>2
      <4>. QED BY <3>8, <4>1, <4>3 DEF Anchored, Keeps
    <3>9. CASE G[x] \in Line(F, F[x])
      BY <1>2, <1>3, <1>5, <2>0, <3>1, <3>9, FixedAnchored
    <3>. QED BY <1>6, <3>4, <3>5, <3>6, <3>7, <3>8, <3>9
  <2>. QED BY <2>1, <2>2
<1>20. Loose(out, W)
  <2>. SUFFICES ASSUME NEW x \in K, NEW w \in W, w \in Line(out.parent, x)
                PROVE  /\ (x \in Attrs /\ x = w) \/ out.owner[x] # NULL
                       /\ w \in Line(out.parent, out.owner[x]) =>
                            out.owner[x] \in Line(out.parent, out.parent[x])
    BY DEF Loose, K
  <2>1. w \in Line(F, x) /\ x \in h.live /\ x \in Nodes
    BY <1>9, <1>11, <1>18
  <2>2. x \notin S
    BY <1>1, <1>3, <2>1
  <2>3. out.owner[x] = O[x] /\ out.parent[x] = F[x] /\ O[x] \in K \cup {NULL}
    BY <1>5, <1>9, <1>18, <2>1, <2>2
  <2>4. Line(out.parent, O[x]) = Line(F, O[x])
    BY <1>2, <1>18, <2>3 DEF K
  <2>5. /\ (x \in Attrs /\ x = w) \/ O[x] # NULL
        /\ w \in Line(F, O[x]) => O[x] \in Line(F, F[x])
    BY <2>1 DEF Pending, Loose, F, O
  <2>. QED BY <1>18, <2>3, <2>4, <2>5
<1>21. ASSUME NEW q \in K, q # n, Line(F, q) \cap M = {} PROVE out.owner[q] = O[q]
  <2>1. q \notin S
    BY <1>1, <1>21
  <2>. QED BY <1>5, <1>9, <1>11, <2>1
<1>23. ASSUME n \in M, NEW k \in K PROVE Line(Passing(out.owner), k) = Line(Passing(O), k)
  <2>1. k \in Nodes /\ Line(Passing(G), k) \subseteq K
    BY <1>11
  <2>2. out.owner \in Pointers /\ Grounded(out.owner)
    BY <1>17, StableFacts
  <2>3. \A v \in Line(Passing(G), k) \cap Frags : out.owner[v] = G[v]
    BY <1>9, <2>1
  <2>4. Line(Passing(out.owner), k) = Line(Passing(G), k)
    BY <1>5, <2>1, <2>2, <2>3, PassingAgrees
  <2>. QED BY <1>22, <1>23, <2>1, <2>4
<1>24. Placed(h, M, n, out)
  BY <1>9, <1>18, <1>21, <1>23 DEF Placed, F, O, K
<1>. QED BY <1>5, <1>9, <1>10, <1>17, <1>19, <1>20, <1>24 DEF Pending, K

-----------------------------------------------------------------------------
(* Moving nodes. *)

(* What is below a node that moved is below it as before. *)
LEMMA RelinkLines ==
  ASSUME NEW F \in Pointers, Grounded(F), NEW M \in SUBSET Nodes, NEW s \in Ends,
         NEW G, IsMove(F, M, s, G), Apart(F, M), Line(F, s) \cap M = {}
  PROVE  /\ Grounded(G) /\ G \in Pointers
         /\ \A x \in Ends : Line(F, x) \cap M = {} => Line(G, x) = Line(F, x)
         /\ \A x \in Ends : Line(F, x) \cap M # {} => x \in Nodes
         /\ \A x \in Nodes : \A m \in M : m \in Line(F, x) =>
              Line(G, x) = {y \in Line(F, x) : m \in Line(F, y)} \cup Line(F, s)
         /\ \A x \in Ends : Line(G, x) \cap M = Line(F, x) \cap M
<1>1. Grounded(G) /\ G \in Pointers /\ s \in Ends /\ Line(F, NULL) = {} /\ \A x \in Nodes : x \in Ends
  BY MoveGrounded, LineUnfolds DEF IsMove, Ends
<1>2. \A x \in Ends : Line(F, x) \cap M = {} => Line(G, x) = Line(F, x)
  BY <1>1, MoveElsewhere
<1>3. \A x \in Ends : Line(F, x) \cap M # {} => x \in Nodes
  BY <1>1 DEF Ends
<1>4. \A x \in Nodes : \A m \in M : m \in Line(F, x) =>
        Line(G, x) = {y \in Line(F, x) : m \in Line(F, y)} \cup Line(F, s)
  BY <1>1, MoveBelow
<1>5. \A x \in Ends : Line(G, x) \cap M = Line(F, x) \cap M
  BY SizeFacts, ChainMoveMeets DEF ChainMove, IsMove, Line, Grounded, Pointers, Ends, Apart
<1>. QED BY <1>1, <1>2, <1>3, <1>4, <1>5

(* The trees after a move *)
LEMMA RelinkStable ==
  ASSUME NEW h, NEW L, NEW E, Stable(h, L, E), NEW M, NEW s, Placeable(h, M, s),
         NEW h1, Sound(h1), Relinked(h, h1, M, s)
  PROVE  Stable(h1, L \ M, E)
<1>. DEFINE F == h.parent
            G == h1.parent
<1>1. /\ h \in Heaps /\ h.live \subseteq h.alloc /\ h.alloc \subseteq Nodes
      /\ F \in Pointers /\ Grounded(F)
      /\ NULL \notin Nodes /\ NULL \in Ends /\ Nodes \subseteq Ends
      /\ Line(F, NULL) = {}
      /\ \A q \in Nodes : F[q] \in Ends
      /\ \A q \in Docs \cup Frags : F[q] = NULL /\ q \in Nodes
  BY StableFacts
<1>2. /\ M \subseteq h.alloc /\ M \subseteq Elems \cup Attrs /\ Apart(F, M)
      /\ s \in h.alloc \ Attrs /\ Line(F, s) \cap M = {}
      /\ M \cap Attrs # {} => s \in Elems
      /\ s \in Frags => h.owner[s] = h.doc[s]
  BY DEF Placeable
<1>3. /\ h1.alloc = h.alloc /\ h1.live = h.live /\ h1.owner = h.owner /\ h1.count = h.count
      /\ IsMove(F, M, s, G)
      /\ \A x \in Nodes : Line(F, x) \cap M # {} => h1.doc[x] = h.doc[s]
      /\ \A x \in Nodes : Line(F, x) \cap M = {} =>
           h1.doc[x] = h.doc[x] \/ (x \in Frags /\ \A y \in Nodes : G[y] # x)
  BY DEF Relinked
<1>. HIDE DEF F, G
<1>4. M \in SUBSET Nodes /\ s \in Nodes /\ \A x \in Nodes : G[x] = IF x \in M THEN s ELSE F[x]
  BY <1>1, <1>2, <1>3 DEF IsMove
<1>5. Grounded(G)
  BY <1>1, <1>2, <1>3, <1>4, RelinkLines
<1>6. Docs \cap M = {} /\ Frags \cap M = {}
  BY <1>2, NodesAssumption
<1>7. ASSUME NEW x \in Nodes, G[x] # NULL
      PROVE  x \in h.alloc /\ G[x] \in h.alloc /\ h1.doc[x] = h1.doc[G[x]]
             /\ (x \notin M => h1.doc[G[x]] = h.doc[G[x]] \/ Line(F, G[x]) \cap M # {})
             /\ (x \in M => h1.doc[s] = h.doc[s])
  <2>1. CASE x \in M
    <3>1. G[x] = s /\ x \in Line(F, x)
      BY <1>1, <1>4, <2>1, LineFacts
    <3>2. h1.doc[x] = h.doc[s]
      BY <1>3, <2>1, <3>1
    <3>3. h1.doc[s] = h.doc[s]
      BY <1>2, <1>3, <1>4, <3>1
    <3>. QED BY <1>2, <2>1, <3>1, <3>2, <3>3
  <2>2. CASE x \notin M
    <3>1. G[x] = F[x]
      BY <1>4, <2>2
    <3>2. x \in h.alloc /\ F[x] \in h.alloc /\ h.doc[x] = h.doc[F[x]]
      BY <1>7, <3>1 DEF Stable, Treed, F
    <3>3. Line(F, x) = {x} \cup Line(F, F[x]) /\ F[x] \in Nodes
      BY <1>1, <3>2, LineUnfolds
    <3>4. CASE Line(F, x) \cap M # {}
      BY <1>3, <2>2, <3>1, <3>2, <3>3, <3>4
    <3>5. CASE Line(F, x) \cap M = {}
      <4>1. h1.doc[F[x]] = h.doc[F[x]]
        BY <1>3, <3>1, <3>3, <3>5
      <4>2. h1.doc[x] = h.doc[x]
        <5>1. x \notin Frags
          BY <1>1, <1>7, <3>1
        <5>. QED BY <1>3, <3>5, <5>1
      <4>. QED BY <2>2, <3>1, <3>2, <4>1, <4>2
    <3>. QED BY <3>4, <3>5
  <2>. QED BY <2>1, <2>2
<1>8. Treed(h1)
  <2>1. \A f \in Frags : G[f] = NULL
    BY <1>1, <1>4, <1>6
  <2>2. ASSUME NEW a \in Attrs PROVE G[a] \in Elems \cup {NULL}
    <3>1. a \in Nodes
      BY KindFacts
    <3>. QED BY <1>2, <1>4, <3>1 DEF Stable, Treed, F
  <2>3. ASSUME NEW d \in Docs \cap h.alloc PROVE h1.doc[d] = d
    <3>1. Line(F, d) = {d}
      <4>1. Line(F, d) = {d} \cup Line(F, F[d]) /\ F[d] = NULL
        BY <1>1, LineUnfolds
      <4>. QED BY <1>1, <4>1
    <3>2. h1.doc[d] = h.doc[d]
      BY <1>1, <1>3, <1>6, <3>1, KindFacts
    <3>. QED BY <3>2 DEF Stable, Treed
  <2>. QED BY <1>3, <1>5, <1>7, <2>1, <2>2, <2>3 DEF Treed, G
<1>9. Homed(h1, L \ M)
  <2>. SUFFICES ASSUME NEW x \in h.alloc \ (L \ M), G[x] = NULL PROVE x \in h.live /\ x \notin Elems
    BY <1>3 DEF Homed, G
  <2>1. x \notin M /\ F[x] = NULL
    BY <1>1, <1>4
  <2>. QED BY <2>1 DEF Stable, Homed, F
<1>10. Cased(h1)
  <2>1. ASSUME NEW x \in Nodes, G[x] \in Frags PROVE h.owner[G[x]] = h1.doc[G[x]]
    <3>1. G[x] # NULL
      BY <1>1, <2>1
    <3>2. CASE x \in M
      BY <1>2, <1>4, <1>7, <2>1, <3>1, <3>2
    <3>3. CASE x \notin M
      <4>1. G[x] = F[x] /\ h.owner[F[x]] = h.doc[F[x]]
        BY <1>4, <2>1, <3>3 DEF Stable, Cased, F
      <4>2. Line(F, G[x]) = {G[x]}
        <5>1. Line(F, G[x]) = {G[x]} \cup Line(F, F[G[x]]) /\ F[G[x]] = NULL
          BY <1>1, <2>1, LineUnfolds
        <5>. QED BY <1>1, <5>1
      <4>. QED BY <1>6, <1>7, <2>1, <3>1, <3>3, <4>1, <4>2
    <3>. QED BY <3>2, <3>3
  <2>. QED BY <1>3, <2>1 DEF Stable, Cased, G
<1>11. Wanted(h1, E)
  BY <1>3 DEF Stable, Wanted
<1>. QED BY <1>8, <1>9, <1>10, <1>11 DEF Stable

(* Moving nodes leaves the owners below them to be fixed. *)
LEMMA RelinkPending ==
  ASSUME NEW h, NEW L, L \cap h.live \subseteq Attrs, NEW E, NEW W \in SUBSET Nodes, Pending(h, L, E, W),
         NEW M, NEW s, Placeable(h, M, s), Line(h.parent, s) \cap W = {},
         \A x \in Nodes : Line(h.parent, x) \cap M = {} \/ Line(h.parent, x) \cap W = {},
         NEW h1, Sound(h1), Relinked(h, h1, M, s)
  PROVE  Pending(h1, L \ M, E, M \cup W)
<1>. DEFINE F == h.parent
            G == h1.parent
            O == h.owner
<1>1. /\ h \in Heaps /\ h.live \subseteq h.alloc /\ h.alloc \subseteq Nodes
      /\ F \in Pointers /\ Grounded(F) /\ O \in Pointers /\ Grounded(O)
      /\ NULL \notin Nodes /\ NULL \in Ends /\ Nodes \subseteq Ends
      /\ Line(F, NULL) = {} /\ Line(O, NULL) = {}
      /\ \A q \in Nodes : O[q] \in Ends /\ F[q] \in Ends
      /\ \A q \in h.live : O[q] \in h.live \cup {NULL}
      /\ \A q \in Docs \cup Frags : F[q] = NULL /\ q \in Nodes
      /\ \A q \in Nodes : F[q] \notin Attrs
  BY StableFacts DEF Pending
<1>2. /\ M \subseteq h.alloc /\ M \subseteq Elems \cup Attrs /\ Apart(F, M)
      /\ s \in h.alloc /\ Line(F, s) \cap M = {}
  BY DEF Placeable
<1>3. h1.live = h.live /\ h1.owner = O /\ IsMove(F, M, s, G)
  BY DEF Relinked
<1>4. Stable(h1, L \ M, E)
  BY RelinkStable DEF Pending
<1>. HIDE DEF F, G, O
<1>5. M \in SUBSET Nodes /\ s \in Nodes /\ \A x \in Nodes : G[x] = IF x \in M THEN s ELSE F[x]
  BY <1>1, <1>2, <1>3 DEF IsMove
<1>6. /\ Grounded(G) /\ G \in Pointers
      /\ \A x \in Ends : Line(F, x) \cap M = {} => Line(G, x) = Line(F, x)
      /\ \A x \in Ends : Line(F, x) \cap M # {} => x \in Nodes
      /\ \A x \in Nodes : \A m \in M : m \in Line(F, x) =>
           Line(G, x) = {y \in Line(F, x) : m \in Line(F, y)} \cup Line(F, s)
      /\ \A x \in Ends : Line(G, x) \cap M = Line(F, x) \cap M
  BY <1>1, <1>2, <1>3, <1>5, RelinkLines
<1>7. \A x \in Nodes : Line(F, x) = {x} \cup Line(F, F[x]) /\ x \notin Line(F, F[x])
  BY <1>1, LineUnfolds
<1>8. \A x \in Nodes : Line(G, x) = {x} \cup Line(G, G[x])
  BY <1>6, LineUnfolds
<1>9. ASSUME NEW x \in h.live, F[x] # NULL, Line(F, x) \cap W = {}
      PROVE  /\ O[x] \in Nodes /\ Anchored(F, O, x)
             /\ O[x] \notin Frags => O[x] \in Line(F, F[x])
  <2>0. x \in Nodes
    BY <1>1
  <2>1. Anchored(F, O, x)
    BY <1>9 DEF Pending, OwnedBut, F, O
  <2>2. Line(Passing(O), NULL) = {}
    <3>1. Passing(O) \in Pointers /\ Grounded(Passing(O))
      BY <1>1, <2>0, PassingFacts
    <3>. QED BY <3>1, LineUnfolds
  <2>3. O[x] # NULL
    BY <2>1, <2>2 DEF Anchored, Keeps
  <2>4. O[x] \in Nodes
    BY <1>1, <2>0, <2>3 DEF Ends
  <2>5. O[x] \notin Frags => Line(Passing(O), O[x]) = {O[x]}
    BY <1>1, <2>4, PassingFacts
  <2>. QED BY <2>1, <2>4, <2>5 DEF Anchored, Keeps
<1>10. OwnedBut(h1, M \cup W)
  <2>. SUFFICES ASSUME NEW x \in h.live, G[x] # NULL, Line(G, x) \cap (M \cup W) = {}
                PROVE  Anchored(G, O, x)
    BY <1>3 DEF OwnedBut, G
  <2>0. x \in Nodes /\ x \in Ends
    BY <1>1
  <2>1. Line(F, x) \cap M = {}
    BY <1>6, <2>0
  <2>2. Line(F, x) = Line(G, x) /\ x \notin M
    BY <1>6, <1>7, <2>0, <2>1
  <2>3. G[x] = F[x] /\ Line(F, F[x]) \cap M = {}
    BY <1>5, <1>7, <2>0, <2>1, <2>2
  <2>4. Line(G, F[x]) = Line(F, F[x])
    BY <1>1, <1>6, <2>0, <2>3
  <2>5. Anchored(F, O, x)
    BY <1>9, <2>2, <2>3
  <2>. QED BY <2>3, <2>4, <2>5 DEF Anchored, Keeps
<1>11. Loose(h1, M \cup W)
  <2>. SUFFICES ASSUME NEW x \in h.live, NEW w \in M \cup W, w \in Line(G, x)
                PROVE  /\ (x \in Attrs /\ x = w) \/ O[x] # NULL
                       /\ w \in Line(G, O[x]) => O[x] \in Line(G, G[x])
    BY <1>3 DEF Loose, G
  <2>0. x \in Nodes /\ x \in Ends /\ O[x] \in Ends
    BY <1>1
  <2>1. CASE w \in M
    <3>1. w \in Line(F, x)
      BY <1>6, <2>0, <2>1
    <3>2. Line(F, x) \cap W = {}
      BY <2>0, <2>1, <3>1 DEF F
    <3>3. CASE F[x] = NULL
      <4>1. x = w
        BY <1>1, <1>7, <2>0, <3>1, <3>3
      <4>2. x \in Attrs
        <5>. SUFFICES ASSUME x \in Elems PROVE FALSE
          BY <1>2, <2>1, <4>1
        <5>1. x \notin Attrs
          BY <2>0, KindFacts
        <5>2. x \in h.alloc \ L
          BY <1>1, <5>1
        <5>. QED BY <3>3, <5>2 DEF Pending, Stable, Homed, F
      <4>3. ASSUME w \in Line(G, O[x]) PROVE FALSE
        <5>1. O[x] \in Nodes /\ w \in Line(F, O[x])
          BY <1>6, <2>0, <2>1, <4>3
        <5>2. O[x] # w
          <6>1. O[x] \in Line(O, O[x]) /\ x \notin Line(O, O[x])
            BY <1>1, <2>0, <5>1, LineFacts, LineUnfolds
          <6>. QED BY <4>1, <6>1
        <5>3. \E y \in Line(F, O[x]) : F[y] = w
          BY <1>1, <5>1, <5>2, LineChild
        <5>4. Line(F, O[x]) \subseteq Nodes
          BY <1>1, <5>1, LineFacts
        <5>. QED BY <1>1, <4>1, <4>2, <5>3, <5>4
      <4>. QED BY <4>1, <4>2, <4>3
    <3>4. CASE F[x] # NULL
      <4>1. /\ O[x] \in Nodes /\ O[x] # NULL
            /\ O[x] \notin Frags => O[x] \in Line(F, F[x])
        BY <1>1, <1>9, <3>2, <3>4
      <4>2. ASSUME w \in Line(G, O[x]) PROVE O[x] \in Line(G, G[x])
        <5>1. w \in Line(F, O[x])
          BY <1>6, <2>0, <2>1, <4>2
        <5>2. O[x] \notin Frags
          <6>. SUFFICES ASSUME O[x] \in Frags PROVE FALSE
            OBVIOUS
          <6>1. w = O[x]
            BY <1>1, <1>7, <4>1, <5>1
          <6>. QED BY <1>2, <2>1, <6>1, NodesAssumption
        <5>3. O[x] \in Line(F, F[x]) /\ O[x] # x /\ O[x] \in Line(F, x)
          BY <1>7, <2>0, <4>1, <5>2
        <5>4. Line(G, x) = {y \in Line(F, x) : w \in Line(F, y)} \cup Line(F, s)
          BY <1>6, <2>0, <2>1, <3>1
        <5>5. O[x] \in Line(G, x)
          BY <5>1, <5>3, <5>4
        <5>. QED BY <1>8, <2>0, <5>3, <5>5
      <4>. QED BY <4>1, <4>2
    <3>. QED BY <3>3, <3>4
  <2>2. CASE w \in W
    <3>1. Line(F, x) \cap M = {}
      <4>. SUFFICES ASSUME NEW m \in M, m \in Line(F, x) PROVE FALSE
        OBVIOUS
      <4>1. Line(G, x) = {y \in Line(F, x) : m \in Line(F, y)} \cup Line(F, s)
        BY <1>6, <2>0
      <4>. QED BY <2>0, <2>2, <4>1 DEF F
    <3>2. Line(G, x) = Line(F, x) /\ G[x] = F[x] /\ Line(G, F[x]) = Line(F, F[x])
      <4>1. x \notin M /\ Line(F, F[x]) \cap M = {}
        BY <1>7, <2>0, <3>1
      <4>2. Line(G, F[x]) = Line(F, F[x])
        BY <1>1, <1>6, <2>0, <4>1
      <4>. QED BY <1>5, <1>6, <2>0, <3>1, <4>1, <4>2
    <3>3. /\ (x \in Attrs /\ x = w) \/ O[x] # NULL
          /\ w \in Line(F, O[x]) => O[x] \in Line(F, F[x])
      BY <2>2, <3>2 DEF Pending, Loose, F, O
    <3>4. ASSUME w \in Line(G, O[x]) PROVE w \in Line(F, O[x])
      <4>1. CASE Line(F, O[x]) \cap M = {}
        BY <1>6, <2>0, <3>4, <4>1
      <4>2. CASE Line(F, O[x]) \cap M # {}
        <5>1. O[x] \in Nodes
          BY <1>6, <2>0, <4>2
        <5>2. PICK m \in M : m \in Line(F, O[x])
          BY <4>2
        <5>3. Line(G, O[x]) = {y \in Line(F, O[x]) : m \in Line(F, y)} \cup Line(F, s)
          BY <1>6, <5>1, <5>2
        <5>. QED BY <2>2, <3>4, <5>1, <5>2, <5>3 DEF F
      <4>. QED BY <4>1, <4>2
    <3>. QED BY <3>2, <3>3, <3>4
  <2>. QED BY <2>1, <2>2
<1>. QED BY <1>4, <1>10, <1>11 DEF Pending

-----------------------------------------------------------------------------
(* New proxies. *)

(* A proxy may be made for a node whose memory is there, with the owner
   its tree asks for: the invariant is kept, whatever is still pending. *)
LEMMA ProxyPending ==
  ASSUME NEW h, NEW L, NEW E, NEW W \in SUBSET Nodes, Pending(h, L, E, W),
         NEW n \in Nodes \ h.live, NEW o, Ownable(h, W, n, o),
         NEW r, Sound(r), Proxied(h, r, n, o), NEW E1, Wanted(r, E1)
  PROVE  Pending(r, L \ {n}, E1, W)
<1>. DEFINE F == h.parent
            O == h.owner
            P == r.owner
<1>1. /\ h \in Heaps /\ h.live \subseteq h.alloc /\ h.alloc \subseteq Nodes
      /\ F \in Pointers /\ Grounded(F) /\ O \in Pointers /\ Grounded(O)
      /\ NULL \notin Nodes /\ NULL \in Ends /\ Nodes \subseteq Ends
      /\ Line(F, NULL) = {} /\ Line(O, NULL) = {}
      /\ \A q \in Nodes : O[q] \in Ends /\ F[q] \in Ends
      /\ \A q \in h.live : O[q] \in h.live \cup {NULL}
      /\ \A q \in Docs \cup Frags : F[q] = NULL /\ q \in Nodes
  BY StableFacts DEF Pending
<1>2. /\ r.alloc = h.alloc \cup {n} /\ r.live = h.live \cup {n}
      /\ r.parent = F /\ IsMove(O, {n}, o, P)
      /\ \A x \in h.alloc : r.doc[x] = h.doc[x]
      /\ n \in Docs => r.doc[n] = n
  BY DEF Proxied
<1>3. /\ o \in h.live \cup {NULL} /\ o \notin Attrs /\ (n \in Docs => o = NULL)
      /\ F[n] = NULL => n \notin Elems
      /\ n \in Frags => n \notin h.alloc
      /\ F[n] # NULL /\ Line(F, n) \cap W = {} => Keeps(F, O, o, F[n])
      /\ \A w \in W : w \in Line(F, n) => o # NULL /\ w \notin Line(F, o)
  BY DEF Ownable
<1>4. /\ \A q \in Nodes : O[q] # NULL => q \in h.live \ Docs /\ O[q] \notin Attrs
      /\ \A x \in Nodes : F[x] \in Frags => O[F[x]] = h.doc[F[x]]
      /\ \A x \in Nodes : F[x] # NULL => x \in h.alloc /\ F[x] \in h.alloc /\ h.doc[x] = h.doc[F[x]]
  BY DEF Pending, Stable, Cased, Treed, F, O
<1>. HIDE DEF F, O, P
<1>5. P \in Pointers /\ o \in Ends /\ \A q \in Nodes : P[q] = IF q = n THEN o ELSE O[q]
  BY <1>1, <1>2, <1>3 DEF IsMove
<1>6. Line(O, o) \subseteq h.live
  BY <1>1, <1>3, LineWithin
<1>7. Grounded(P)
  BY <1>1, <1>2, <1>5, <1>6, MoveGrounded
<1>8. ASSUME NEW k \in h.live PROVE Line(Passing(P), k) = Line(Passing(O), k)
  <2>1. Line(Passing(O), k) \subseteq h.live /\ k \in Nodes /\ h.live \subseteq Nodes
    BY <1>1, PassingWithin
  <2>2. \A v \in Line(Passing(O), k) \cap Frags : P[v] = O[v]
    BY <1>5, <2>1
  <2>. QED BY <1>1, <1>5, <1>7, <2>1, <2>2, PassingAgrees
<1>9. Line(Passing(O), NULL) = {}
  <2>1. Passing(O) \in Pointers /\ Grounded(Passing(O))
    BY <1>1, PassingFacts
  <2>. QED BY <2>1, LineUnfolds
<1>10. Treed(r)
  <2>1. \A f \in Frags : F[f] = NULL
    BY <1>1
  <2>2. \A a \in Attrs : F[a] \in Elems \cup {NULL}
    BY DEF Pending, Stable, Treed, F
  <2>3. \A d \in Docs \cap r.alloc : r.doc[d] = d
    BY <1>2 DEF Pending, Stable, Treed
  <2>4. \A x \in Nodes : F[x] # NULL => x \in r.alloc /\ F[x] \in r.alloc /\ r.doc[x] = r.doc[F[x]]
    BY <1>2, <1>4
  <2>. QED BY <1>1, <1>2, <2>1, <2>2, <2>3, <2>4 DEF Treed
<1>11. Homed(r, L \ {n})
  BY <1>2, <1>3 DEF Pending, Stable, Homed, F
<1>12. Cased(r)
  <2>1. r.live \subseteq r.alloc
    BY <1>1, <1>2
  <2>2. \A q \in Nodes : P[q] # NULL => q \in r.live \ Docs /\ P[q] \notin Attrs
    BY <1>2, <1>3, <1>4, <1>5
  <2>3. ASSUME NEW x \in Nodes, F[x] \in Frags PROVE P[F[x]] = r.doc[F[x]]
    <3>1. F[x] \in h.alloc /\ F[x] # n
      BY <1>1, <1>3, <1>4, <2>3
    <3>. QED BY <1>1, <1>2, <1>4, <1>5, <2>3, <3>1
  <2>. QED BY <1>2, <1>7, <2>1, <2>2, <2>3 DEF Cased, P
<1>13. OwnedBut(r, W)
  <2>. SUFFICES ASSUME NEW x \in h.live \cup {n}, F[x] # NULL, Line(F, x) \cap W = {}
                PROVE  Anchored(F, P, x)
    BY <1>2 DEF OwnedBut, P
  <2>1. CASE x = n
    <3>1. P[n] = o /\ Keeps(F, O, o, F[n])
      BY <1>3, <1>5, <2>1
    <3>2. o \in h.live
      BY <1>3, <1>9, <3>1 DEF Keeps
    <3>. QED BY <1>8, <2>1, <3>1, <3>2 DEF Anchored, Keeps
  <2>2. CASE x # n
    <3>1. x \in h.live /\ P[x] = O[x]
      BY <1>1, <1>5, <2>2
    <3>2. Anchored(F, O, x)
      BY <3>1 DEF Pending, OwnedBut, F, O
    <3>3. O[x] \in h.live
      BY <1>1, <1>9, <3>1, <3>2 DEF Anchored, Keeps
    <3>. QED BY <1>8, <3>1, <3>2, <3>3 DEF Anchored, Keeps
  <2>. QED BY <2>1, <2>2
<1>14. Loose(r, W)
  <2>. SUFFICES ASSUME NEW x \in h.live \cup {n}, NEW w \in W, w \in Line(F, x)
                PROVE  /\ (x \in Attrs /\ x = w) \/ P[x] # NULL
                       /\ w \in Line(F, P[x]) => P[x] \in Line(F, F[x])
    BY <1>2 DEF Loose, P
  <2>1. CASE x = n
    BY <1>3, <1>5, <2>1
  <2>2. CASE x # n
    <3>1. x \in h.live /\ P[x] = O[x]
      BY <1>1, <1>5, <2>2
    <3>. QED BY <3>1 DEF Pending, Loose, F, O
  <2>. QED BY <2>1, <2>2
<1>. QED BY <1>10, <1>11, <1>12, <1>13, <1>14 DEF Pending, Stable

(* Counts are natural numbers. *)
LEMMA CountsNatural ==
  ASSUME NEW h, Counted(h), NEW q \in Nodes
  PROVE  h.count[q] \in Nat /\ (q \notin h.live => h.count[q] = 0)
<1>1. /\ h.handles[q] \in Nat /\ h \in Heaps /\ h.live \subseteq Nodes
      /\ h.count[q] = IF q \in h.live
                      THEN h.handles[q] + Cardinality(Ownees(h, h.live, q)) ELSE 0
  BY DEF Counted, Heaps
<1>2. Cardinality(Ownees(h, h.live, q)) \in Nat
  BY <1>1, OwneesFinite
<1>. QED BY <1>1, <1>2

(* PmmNodeToSv returns a heap where n has a proxy and one more handle. *)
LEMMA NodeToSvIs ==
  ASSUME NEW h \in Heaps, NEW n \in Nodes, NEW o \in Nodes \cup {NULL},
         NEW r, r = PmmNodeToSv(h, n, o)
  PROVE  Blessed(h, n, o, r)
<1>1. /\ r \in Heaps
      /\ r.live = h.live \cup {n}
      /\ r.alloc = h.alloc /\ r.parent = h.parent /\ r.doc = h.doc
      /\ r.owner = [h.owner EXCEPT ![n] = IF n \notin h.live THEN o ELSE h.owner[n]]
      /\ r.handles = [h.handles EXCEPT ![n] = h.handles[n] + 1]
      /\ \A q \in Nodes :
           r.count[q] = h.count[q] + ((IF q = n THEN 1 ELSE 0)
                                      + (IF n \notin h.live /\ q = o THEN 1 ELSE 0))
  BY NodeToSvFields
<1>. QED BY <1>1 DEF Blessed

(* PmmNodeToSv for a node without proxy; g is h, with the memory for n. *)
LEMMA NodeToSvNew ==
  ASSUME NEW h, NEW L, NEW E, NEW W \in SUBSET Nodes, Pending(h, L, E, W),
         NEW n \in Nodes \ h.live, NEW o, Ownable(h, W, n, o),
         NEW g, WithMemory(h, g, n), NEW r, r = PmmNodeToSv(g, n, o), Sound(r)
  PROVE  /\ Pending(r, L \ {n}, E \ {n, o}, W) /\ Proxied(h, r, n, o)
         /\ r.alloc = g.alloc /\ r.parent = g.parent /\ r.doc = g.doc
         /\ Holding(h, r, n)
<1>1. /\ h \in Heaps /\ Counted(h) /\ h.live \subseteq Nodes
      /\ g.live = h.live /\ g.owner = h.owner /\ g.count = h.count /\ g.handles = h.handles
      /\ o \in Nodes \cup {NULL} /\ g \in Heaps
  BY DEF Pending, Stable, Sound, Counted, SameProxies, Ownable, Heaps, WithMemory
<1>2. /\ r.live = h.live \cup {n}
      /\ r.alloc = g.alloc /\ r.parent = g.parent /\ r.doc = g.doc
      /\ r.owner = [h.owner EXCEPT ![n] = o]
      /\ r.handles = [h.handles EXCEPT ![n] = h.handles[n] + 1]
      /\ \A q \in Nodes :
           r.count[q] = h.count[q] + ((IF q = n THEN 1 ELSE 0)
                                      + (IF n \notin h.live /\ q = o THEN 1 ELSE 0))
  <2>1. n \notin g.live
    BY <1>1
  <2>3. g \in Heaps /\ n \in Nodes /\ o \in Nodes \cup {NULL}
    BY <1>1
  <2>2. Blessed(g, n, o, r)
    BY <2>3, NodeToSvIs
  <2>. QED BY <1>1, <2>1, <2>2 DEF Blessed
<1>3. IsMove(h.owner, {n}, o, r.owner)
  BY <1>1, <1>2 DEF IsMove, Heaps, Pointers, Ends
<1>4. Proxied(h, r, n, o)
  BY <1>2, <1>3 DEF Proxied, WithMemory
<1>5. Wanted(r, E \ {n, o})
  <2>. SUFFICES ASSUME NEW q \in r.live \ (E \ {n, o}) PROVE r.count[q] > 0
    BY DEF Wanted
  <2>1. q \in Nodes /\ h.count[q] \in Nat
    BY <1>1, <1>2, CountsNatural
  <2>2. CASE q = n \/ q = o
    BY <1>2, <2>1, <2>2
  <2>3. CASE q # n /\ q # o
    <3>1. q \in h.live \ E
      BY <1>2, <2>3
    <3>2. h.count[q] > 0
      BY <3>1 DEF Pending, Stable, Wanted
    <3>. QED BY <1>2, <2>1, <2>3, <3>2
  <2>. QED BY <2>2, <2>3
<1>6. Pending(r, L \ {n}, E \ {n, o}, W)
  BY <1>4, <1>5, ProxyPending
<1>7. Holding(h, r, n)
  BY <1>1, <1>2 DEF Heaps, Holding
<1>. QED BY <1>2, <1>4, <1>6, <1>7

(* A call that changes counts and handles only keeps what is pending as it
   is. *)
LEMMA ShapePending ==
  ASSUME NEW h, NEW L, NEW E, NEW W, Pending(h, L, E, W),
         NEW r, SameShape(h, r), Sound(r), NEW E1, Wanted(r, E1)
  PROVE  Pending(r, L, E1, W)
<1>1. Treed(r) /\ Homed(r, L) /\ Cased(r)
  BY DEF Pending, Stable, SameShape, Treed, Homed, Cased
<1>2. OwnedBut(r, W) /\ Loose(r, W)
  BY DEF Pending, SameShape, OwnedBut, Loose
<1>. QED BY <1>1, <1>2 DEF Pending, Stable

(* PmmNodeToSv for a node that has a proxy *)
LEMMA NodeToSvAgain ==
  ASSUME NEW h, NEW L, NEW E, NEW W, Pending(h, L, E, W),
         NEW n \in h.live, NEW o \in Nodes \cup {NULL}, NEW r, r = PmmNodeToSv(h, n, o), Sound(r)
  PROVE  /\ Pending(r, L, E \ {n}, W) /\ SameShape(h, r)
         /\ Holding(h, r, n)
<1>1. /\ h \in Heaps /\ Counted(h) /\ h.live \subseteq Nodes /\ n \in Nodes
  BY DEF Pending, Stable, Sound, Counted, Heaps
<1>2. /\ r.live = h.live \cup {n}
      /\ r.alloc = h.alloc /\ r.parent = h.parent /\ r.doc = h.doc
      /\ r.owner = [h.owner EXCEPT ![n] = IF n \notin h.live THEN o ELSE h.owner[n]]
      /\ r.handles = [h.handles EXCEPT ![n] = h.handles[n] + 1]
      /\ \A q \in Nodes :
           r.count[q] = h.count[q] + ((IF q = n THEN 1 ELSE 0)
                                      + (IF n \notin h.live /\ q = o THEN 1 ELSE 0))
  BY <1>1, NodeToSvFields
<1>3. SameShape(h, r)
  BY <1>1, <1>2 DEF SameShape, Heaps
<1>4. Wanted(r, E \ {n})
  <2>. SUFFICES ASSUME NEW q \in r.live \ (E \ {n}) PROVE r.count[q] > 0
    BY DEF Wanted
  <2>1. q \in Nodes /\ q \in h.live /\ h.count[q] \in Nat
    BY <1>1, <1>3, CountsNatural DEF SameShape
  <2>2. CASE q = n
    BY <1>2, <2>1, <2>2
  <2>3. CASE q # n
    <3>1. h.count[q] > 0
      BY <2>1, <2>3 DEF Pending, Stable, Wanted
    <3>. QED BY <1>2, <2>1, <2>3, <3>1
  <2>. QED BY <2>2, <2>3
<1>5. Pending(r, L, E \ {n}, W)
  BY <1>3, <1>4, ShapePending
<1>6. Holding(h, r, n)
  BY <1>1, <1>2 DEF Heaps, Holding
<1>. QED BY <1>3, <1>5, <1>6

(* A new fragment, which nothing wants yet *)
LEMMA NewFragmentPending ==
  ASSUME NEW h, NEW L, NEW E, NEW W \in SUBSET Nodes, Pending(h, L, E, W),
         NEW f \in Frags \ (h.alloc \cup h.live), f \notin L,
         NEW d \in (Docs \cap h.live) \cup {NULL}, W \cap Frags = {},
         NEW r, r = PmmNewFragment(h, f, d)
  PROVE  /\ Pending(r, L, E \cup {f}, W) /\ Proxied(h, r, f, d) /\ Sound(r)
         /\ r.doc[f] = d /\ r.handles = h.handles /\ r.owner[f] = d
<1>1. /\ h \in Heaps /\ Counted(h) /\ h.live \subseteq Nodes /\ f \in Nodes /\ f \notin Docs
      /\ d \notin Attrs /\ d # f /\ h.parent[f] = NULL /\ Line(h.parent, f) = {f}
      /\ NULL \notin Nodes /\ h.alloc \subseteq Nodes
  <2>1. /\ h \in Heaps /\ h.parent \in Pointers /\ Grounded(h.parent) /\ h.parent[f] = NULL
        /\ Line(h.parent, NULL) = {} /\ NULL \notin Nodes /\ f \in Nodes /\ h.alloc \subseteq Nodes
    BY StableFacts DEF Pending
  <2>2. Line(h.parent, f) = {f}
    BY <2>1, LineUnfolds
  <2>3. Counted(h) /\ h.live \subseteq Nodes
    BY DEF Pending, Stable, Sound, Counted, Heaps
  <2>4. f \notin Docs /\ d \notin Attrs /\ d # f
    BY <2>1, NodesAssumption, KindFacts
  <2>. QED BY <2>1, <2>2, <2>3, <2>4
<1>2. Sound(r) /\ r.live = h.live \cup {f} /\ r.handles = h.handles /\ r.parent = h.parent
  BY NewFragmentSound DEF Pending, Stable
<1>3. /\ r.alloc = h.alloc \cup {f} /\ r.doc = [h.doc EXCEPT ![f] = d]
      /\ r.owner = [h.owner EXCEPT ![f] = d]
      /\ r.count = [q \in Nodes |-> IF q = d /\ d \in h.live THEN h.count[q] + 1 ELSE h.count[q]]
  BY <1>1 DEF PmmNewFragment, Heaps
<1>4. IsMove(h.owner, {f}, d, r.owner)
  BY <1>1, <1>3 DEF IsMove, Heaps, Pointers, Ends
<1>5. Proxied(h, r, f, d)
  BY <1>1, <1>2, <1>3, <1>4 DEF Proxied, Heaps
<1>6. Wanted(r, E \cup {f})
  <2>. SUFFICES ASSUME NEW q \in h.live \ E PROVE r.count[q] > 0
    BY <1>2 DEF Wanted
  <2>1. q \in Nodes /\ h.count[q] > 0 /\ h.count[q] \in Nat
    BY <1>1, CountsNatural DEF Pending, Stable, Wanted
  <2>. QED BY <1>3, <2>1
<1>7. Ownable(h, W, f, d)
  BY <1>1, KindFacts, NodesAssumption DEF Ownable
<1>8. Pending(r, L \ {f}, E \cup {f}, W)
  BY <1>1, <1>2, <1>5, <1>6, <1>7, ProxyPending
<1>9. L \ {f} = L
  OBVIOUS
<1>10. r.doc[f] = d /\ r.owner[f] = d
  BY <1>1, <1>3 DEF Heaps
<1>. QED BY <1>2, <1>5, <1>8, <1>9, <1>10

(* A node in new memory, without a proxy yet *)
LEMMA MadePending ==
  ASSUME NEW h, NEW L, NEW E, NEW W, Pending(h, L, E, W),
         NEW n \in (Elems \cup Attrs) \ (h.alloc \cup h.live), NEW d \in Docs \cup {NULL},
         NEW r, r = Making(h, n, d)
  PROVE  Pending(r, L \cup {n}, E, W) /\ WithMemory(h, r, n) /\ r.doc[n] = d
<1>1. h \in Heaps /\ n \in Nodes \ Docs /\ n \notin Frags /\ h.live \subseteq h.alloc
  BY NodesAssumption DEF Pending, Stable, Sound, Counted, Nodes, Cased
<1>2. Sound(r) /\ SameProxies(h, r)
  BY Zenon, <1>1, MadeSound DEF Pending, Stable, Making
<1>3. /\ r.alloc = h.alloc \cup {n} /\ r.doc = [h.doc EXCEPT ![n] = d] /\ r.parent = h.parent
      /\ r.live = h.live /\ r.owner = h.owner /\ r.count = h.count
  BY <1>1, <1>2 DEF Heaps, SameProxies, Making
<1>4. \A x \in Nodes : h.parent[x] # NULL => x # n /\ h.parent[x] # n
  BY DEF Pending, Stable, Treed
<1>5. Treed(r)
  <2>1. \A x \in Nodes : h.parent[x] # NULL =>
          x \in r.alloc /\ h.parent[x] \in r.alloc /\ r.doc[x] = r.doc[h.parent[x]]
    <3>. SUFFICES ASSUME NEW x \in Nodes, h.parent[x] # NULL
                  PROVE  x \in r.alloc /\ h.parent[x] \in r.alloc /\ r.doc[x] = r.doc[h.parent[x]]
      OBVIOUS
    <3>1. /\ x \in h.alloc /\ h.parent[x] \in h.alloc /\ h.doc[x] = h.doc[h.parent[x]]
          /\ h.alloc \subseteq Nodes
      BY <1>1 DEF Pending, Stable, Treed, Heaps
    <3>. QED BY <1>1, <1>3, <1>4, <3>1 DEF Heaps
  <2>2. \A e \in Docs \cap r.alloc : r.doc[e] = e
    BY <1>1, <1>3, KindFacts DEF Pending, Stable, Treed, Heaps
  <2>. QED BY <1>3, <2>1, <2>2 DEF Pending, Stable, Treed
<1>6. Homed(r, L \cup {n})
  BY <1>3 DEF Pending, Stable, Homed
<1>7. Cased(r)
  <2>1. \A x \in Nodes : h.parent[x] \in Frags => r.doc[h.parent[x]] = h.doc[h.parent[x]]
    BY <1>1, <1>3, <1>4, KindFacts DEF Heaps
  <2>. QED BY <1>3, <2>1 DEF Pending, Stable, Cased
<1>8. Wanted(r, E)
  BY <1>3 DEF Pending, Stable, Wanted
<1>9. OwnedBut(r, W) /\ Loose(r, W)
  BY <1>3 DEF Pending, OwnedBut, Loose
<1>10. r.doc[n] = d /\ \A x \in h.alloc : r.doc[x] = h.doc[x]
  BY <1>1, <1>3 DEF Heaps
<1>11. WithMemory(h, r, n)
  BY <1>1, <1>2, <1>3, <1>10 DEF WithMemory, Sound, Counted
<1>. QED BY <1>2, <1>5, <1>6, <1>7, <1>8, <1>9, <1>10, <1>11 DEF Pending, Stable

-----------------------------------------------------------------------------
(* Releasing references of a heap whose owners keep their trees. *)

(* PmmREFCNT_dec keeps the trees and their owners, when every proxy that
   is not of a root has the owner its tree asks for. *)
LEMMA DecOwned ==
  ASSUME NEW h \in Heaps, NEW drops \in Ledgers, NEW L, NEW E, Owed(h, drops), Planted(h),
         \A q \in Nodes : h.handles[q] > 0 => q \in h.live,
         \A q \in h.live : h.owner[q] \in h.live \cup {NULL},
         Treed(h), Homed(h, L), Cased(h), Wanted(h, E), Owned(h),
         NEW r, r = PmmREFCNT_dec(h, drops)
  PROVE  /\ Stable(r, L, E) /\ Owned(r)
         /\ r.handles = h.handles /\ r.live \subseteq h.live /\ SameTree(h, r)
         /\ \A q \in r.live : r.owner[q] = h.owner[q]
<1>1. /\ h.owner \in Pointers /\ Grounded(h.owner) /\ NULL \notin Nodes /\ h.live \subseteq Nodes
  BY SizeFacts DEF Heaps, Pointers, Ends, Cased
<1>2. Line(Passing(h.owner), NULL) = {}
  <2>. SUFFICES Passing(h.owner) \in Pointers /\ Grounded(Passing(h.owner))
    BY LineUnfolds
  <2>1. Passing(h.owner) \in Pointers
    BY <1>1 DEF Passing, Pointers, Ends
  <2>2. Grounded(Passing(h.owner))
    <3>. SUFFICES ASSUME NEW X \in SUBSET Nodes, X # {}, \A x \in X : Passing(h.owner)[x] \in X
                  PROVE  FALSE
      BY DEF Grounded, Rooted
    <3>1. \A x \in X : h.owner[x] \in X
      BY <1>1 DEF Passing
    <3>. QED BY <1>1, <3>1 DEF Grounded, Rooted
  <2>. QED BY <2>1, <2>2
<1>3. \A q \in h.live : h.parent[q] # NULL => h.owner[q] # NULL
  BY <1>2 DEF Owned, Anchored, Keeps
<1>4. Settled(h, r)
  BY DecSettled
<1>5. Moored(h, h.owner, r.live)
  BY <1>4 DEF Owned, Moored, Settled
<1>6. Stable(r, L, E) /\ Trimmed(h, h.owner, r)
  BY <1>3, <1>5, DecSafe
<1>7. Owned(r)
  <2>. SUFFICES ASSUME NEW x \in r.live, r.parent[x] # NULL PROVE Anchored(r.parent, r.owner, x)
    BY DEF Owned
  <2>1. x \in h.live /\ r.parent[x] = h.parent[x]
    BY <1>6 DEF Trimmed, SameTree, Stable, Cased
  <2>. QED BY <1>6, <2>1 DEF Owned, Trimmed
<1>. QED BY <1>6, <1>7 DEF Trimmed

(* A handle goes away. *)
LEMMA DropSafe ==
  ASSUME NEW h, Safe(h), NEW n \in Nodes, h.handles[n] > 0
  PROVE  Safe(Drop(h, n))
<1>. PICK mid, drops : mid = Dropping(h, n) /\ drops = OneOf(n)
  OBVIOUS
<1>1. /\ Drop(h, n) = PmmREFCNT_dec(mid, drops)
      /\ mid \in Heaps /\ drops \in Ledgers /\ Owed(mid, drops) /\ Planted(mid)
      /\ mid.live = h.live /\ mid.owner = h.owner /\ mid.count = h.count
      /\ mid.parent = h.parent /\ mid.alloc = h.alloc /\ mid.doc = h.doc
      /\ \A q \in Nodes : mid.handles[q] > 0 => q \in mid.live
      /\ \A q \in mid.live : mid.owner[q] \in mid.live \cup {NULL}
  BY DropFacts DEF Safe, Stable
<1>2. Treed(mid) /\ Homed(mid, {}) /\ Cased(mid) /\ Wanted(mid, {}) /\ Owned(mid)
  <2>1. Treed(mid) /\ Homed(mid, {})
    BY <1>1 DEF Safe, Stable, Treed, Homed
  <2>2. Cased(mid) /\ Wanted(mid, {})
    BY <1>1 DEF Safe, Stable, Cased, Wanted
  <2>3. Owned(mid)
    BY <1>1 DEF Safe, Owned
  <2>. QED BY <2>1, <2>2, <2>3
<1>. PICK r : r = PmmREFCNT_dec(mid, drops)
  OBVIOUS
<1>3. Stable(r, {}, {}) /\ Owned(r)
  BY <1>1, <1>2, DecOwned
<1>. QED BY <1>1, <1>3 DEF Safe

(* The handle that a handler returns is kept or dropped. *)
LEMMA ReturnSafe ==
  ASSUME NEW h, Safe(h), NEW n \in Nodes, h.handles[n] > 0, Return(h, n)
  PROVE  Safe(heap')
BY DropSafe DEF Return

(* What a handler may rely on *)
LEMMA SafeFacts ==
  ASSUME NEW h, Safe(h)
  PROVE  /\ Sound(h) /\ Pending(h, {}, {}, {}) /\ Stable(h, {}, {})
         /\ h.live \subseteq h.alloc /\ h.alloc \subseteq Nodes /\ h \in Heaps
BY SafeIsPending, StableFacts DEF Safe, Stable

-----------------------------------------------------------------------------
(* Lemmas about the steps of the handlers. *)

(* A node in new memory gets a proxy. *)
LEMMA MadeGiven ==
  ASSUME NEW h, Safe(h), NEW n \in Nodes \ (h.alloc \cup h.live), NEW d \in Docs \cup {NULL},
         n \in Docs => d = n, NEW o, Ownable(h, {}, n, o),
         NEW r, r = PmmNodeToSv(Making(h, n, d), n, o)
  PROVE  Safe(r) /\ r.handles[n] > 0
<1>. PICK made : made = Making(h, n, d)
  OBVIOUS
<1>0. r = PmmNodeToSv(made, n, o)
  OBVIOUS
<1>1. /\ Sound(h) /\ Pending(h, {}, {}, {}) /\ h \in Heaps /\ h.alloc \subseteq Nodes
      /\ n \in Nodes /\ n \notin h.alloc /\ n \notin h.live
      /\ o \in h.live \cup {NULL}
  BY SafeFacts DEF Ownable
<1>2. /\ made \in Heaps /\ SameProxies(h, made) /\ made.parent = h.parent
      /\ made.alloc = h.alloc \cup {n} /\ made.doc[n] = d /\ \A x \in h.alloc : made.doc[x] = h.doc[x]
  BY <1>1 DEF Heaps, SameProxies, Making
<1>3. Counted(r) /\ made.live = h.live
  <2>1. Counted(made) /\ made.live = h.live
    BY <1>1, <1>2, TreeCounted DEF Sound, SameProxies
  <2>. QED BY <1>1, <2>1, NodeToSvCounted
<1>4. /\ r.live = h.live \cup {n} /\ r.alloc = h.alloc \cup {n} /\ r.parent = h.parent
  <2>1. o \in Nodes \cup {NULL}
    BY <1>1 DEF Heaps
  <2>2. r.live = made.live \cup {n} /\ r.alloc = made.alloc /\ r.parent = made.parent
    <3>1. Blessed(made, n, o, r)
      BY <1>0, <1>1, <1>2, <2>1, NodeToSvIs
    <3>. QED BY <3>1 DEF Blessed
  <2>. QED BY <1>2, <1>3, <2>2
<1>5. Sound(r)
  BY <1>1, <1>3, <1>4 DEF Sound, Planted
<1>6. Pending(r, {} \ {n}, {} \ {n, o}, {}) /\ Holding(h, r, n)
  <2>1. {} \in SUBSET Nodes /\ n \in Nodes \ h.live /\ WithMemory(h, made, n)
    BY <1>1, <1>2 DEF WithMemory
  <2>. QED BY <1>0, <1>1, <1>2, <1>5, <2>1, NodeToSvNew
<1>7. {} \ {n} = {} /\ {} \ {n, o} = {}
  OBVIOUS
<1>. QED BY <1>6, <1>7, SafeIsPending DEF Holding

(* XML::LibXML::Document->new (LibXML.xs) keeps the memory safe. *)
LEMMA createDocumentSafe ==
  ASSUME Safe(heap), createDocument
  PROVE  Safe(heap')
<1>1. PICK d \in Free(heap, Docs) :
        Return(PmmNodeToSv(Making(heap, d, d), d, NULL), d)
  BY Zenon DEF createDocument, Making
<1>. PICK r : r = PmmNodeToSv(Making(heap, d, d), d, NULL)
  OBVIOUS
<1>2. d \in Nodes \ (heap.alloc \cup heap.live) /\ d \in Docs
  BY DEF Free, Nodes
<1>3. Ownable(heap, {}, d, NULL)
  <2>1. heap.parent[d] = NULL /\ d \notin Elems /\ NULL \notin Attrs /\ d \notin Frags
    BY <1>2, SafeFacts, NodesAssumption DEF Stable, Treed, Nodes
  <2>. QED BY <2>1 DEF Ownable
<1>4. Safe(r) /\ r.handles[d] > 0
  BY <1>2, <1>3, MadeGiven
<1>. QED BY <1>1, <1>2, <1>4, ReturnSafe

(* createDocumentFragment (LibXML.xs) keeps the memory safe: the new
   fragment is owned by its document. *)
LEMMA createDocumentFragmentSafe ==
  ASSUME Safe(heap), NEW d \in Docs, createDocumentFragment(d)
  PROVE  Safe(heap')
<1>1. PICK f \in Free(heap, Frags) :
        Return(PmmNodeToSv(Making(heap, f, d), f, d), f)
  BY Zenon DEF createDocumentFragment, Making
<1>. PICK r : r = PmmNodeToSv(Making(heap, f, d), f, d)
  OBVIOUS
<1>2. f \in Nodes \ (heap.alloc \cup heap.live) /\ f \in Frags /\ f \notin Docs
  BY NodesAssumption DEF Free, Nodes
<1>3. Ownable(heap, {}, f, d)
  <2>1. heap.parent[f] = NULL /\ f \notin Elems /\ d \notin Attrs
    BY <1>2, SafeFacts, NodesAssumption DEF Stable, Treed, Nodes
  <2>2. d \in heap.live
    BY HeldFacts, SafeFacts DEF createDocumentFragment
  <2>. QED BY <1>2, <2>1, <2>2 DEF Ownable
<1>4. Safe(r) /\ r.handles[f] > 0
  BY <1>2, <1>3, MadeGiven
<1>. QED BY <1>1, <1>2, <1>4, ReturnSafe

(* createAttribute (LibXML.xs) keeps the memory safe: the new attribute
   has no parent and is owned by its document. *)
LEMMA createAttributeSafe ==
  ASSUME Safe(heap), NEW d \in Docs, createAttribute(d)
  PROVE  Safe(heap')
<1>1. PICK a \in Free(heap, Attrs) :
        Return(PmmNodeToSv(Making(heap, a, d), a, d), a)
  BY Zenon DEF createAttribute, Making
<1>. PICK r : r = PmmNodeToSv(Making(heap, a, d), a, d)
  OBVIOUS
<1>2. /\ a \in Nodes \ (heap.alloc \cup heap.live) /\ a \in Attrs /\ a \notin Docs
      /\ a \notin Frags /\ a \notin Elems
  BY NodesAssumption DEF Free, Nodes
<1>3. Ownable(heap, {}, a, d)
  <2>1. heap.parent[a] = NULL /\ d \notin Attrs
    BY <1>2, SafeFacts, NodesAssumption DEF Stable, Treed, Nodes
  <2>2. d \in heap.live
    BY HeldFacts, SafeFacts DEF createAttribute
  <2>. QED BY <1>2, <2>1, <2>2 DEF Ownable
<1>4. Safe(r) /\ r.handles[a] > 0
  BY <1>2, <1>3, MadeGiven
<1>. QED BY <1>1, <1>2, <1>4, ReturnSafe

(* A node that has a proxy gets another handle. *)
LEMMA AgainSafe ==
  ASSUME NEW h, Safe(h), NEW n \in h.live, NEW o \in h.live \cup {NULL},
         NEW r, r = PmmNodeToSv(h, n, o)
  PROVE  Safe(r) /\ Holding(h, r, n)
<1>1. /\ Sound(h) /\ Pending(h, {}, {}, {}) /\ n \in Nodes /\ o \in Nodes \cup {NULL}
  BY SafeFacts
<1>2. Sound(r)
  BY <1>1, NodeToSvSound
<1>3. Pending(r, {}, {} \ {n}, {}) /\ Holding(h, r, n)
  BY <1>1, <1>2, NodeToSvAgain
<1>4. {} \ {n} = {}
  OBVIOUS
<1>. QED BY <1>3, <1>4, SafeIsPending

(* What PmmOWNERPO gives for s keeps s, unless s is a fragment of a document. *)
LEMMA KeepsOwner ==
  ASSUME NEW h, Safe(h), NEW s \in h.live, s \notin Attrs \/ h.parent[s] # NULL,
         s \notin Frags \/ h.owner[s] = NULL
  PROVE  /\ PmmOWNERPO(h, s) \in h.live \ Attrs
         /\ Keeps(h.parent, h.owner, PmmOWNERPO(h, s), s)
         /\ h.parent[s] # NULL =>
              /\ h.owner[s] # NULL /\ Keeps(h.parent, h.owner, PmmOWNERPO(h, s), h.parent[s])
<1>1. /\ Stable(h, {}, {}) /\ s \in Nodes /\ NULL \notin Nodes /\ h.live \subseteq h.alloc
      /\ h.parent \in Pointers /\ Grounded(h.parent) /\ h.owner \in Pointers /\ Grounded(h.owner)
      /\ h.owner[s] \in h.live \cup {NULL} /\ h.parent[s] \in Ends
      /\ \A d \in Docs : h.owner[d] = NULL
  BY SafeFacts, StableFacts
<1>2. h.parent[s] # NULL => h.owner[s] # NULL /\ Keeps(h.parent, h.owner, h.owner[s], h.parent[s])
  <2>. SUFFICES ASSUME h.parent[s] # NULL
                PROVE  h.owner[s] # NULL /\ Keeps(h.parent, h.owner, h.owner[s], h.parent[s])
    OBVIOUS
  <2>1. Keeps(h.parent, h.owner, h.owner[s], h.parent[s])
    BY DEF Safe, Owned, Anchored
  <2>2. Line(Passing(h.owner), NULL) = {}
    <3>1. Passing(h.owner) \in Pointers /\ Grounded(Passing(h.owner))
      BY <1>1, PassingFacts
    <3>. QED BY <3>1, LineUnfolds
  <2>. QED BY <2>1, <2>2 DEF Keeps
<1>3. PmmOWNERPO(h, s) \in h.live \ Attrs
  BY <1>1, <1>2 DEF PmmOWNERPO, Stable, Cased
<1>4. Keeps(h.parent, h.owner, PmmOWNERPO(h, s), s)
  <2>1. CASE h.owner[s] = NULL
    <3>1. s \in Line(h.parent, s) /\ s \in Line(Passing(h.owner), s)
      BY <1>1, LineFacts, PassingFacts
    <3>. QED BY <2>1, <3>1 DEF Keeps, PmmOWNERPO
  <2>2. CASE h.owner[s] # NULL
    <3>1. h.parent[s] # NULL
      <4>1. h.parent[s] = NULL => s \notin Elems
        BY <1>1 DEF Stable, Homed
      <4>. QED BY <1>1, <2>2, <4>1 DEF Nodes
    <3>2. h.parent[s] \in Line(h.parent, s)
      BY <1>1, <3>1, LineFacts
    <3>. QED BY <1>1, <1>2, <2>2, <3>1, <3>2, KeepsBelow DEF PmmOWNERPO
  <2>. QED BY <2>1, <2>2
<1>. QED BY <1>2, <1>3, <1>4 DEF PmmOWNERPO

(* Every handler that returns another node of the tree (parentNode,
   firstChild, attributes and the like) keeps the memory safe: the owner
   it gives a new proxy is the one PmmOWNERPO finds. *)
LEMMA navigateSafe ==
  ASSUME Safe(heap), Uses = {}, NEW n \in Nodes, NEW m \in Nodes, navigate(n, m)
  PROVE  Safe(heap')
<1>. DEFINE o == PmmOWNERPO(heap, n)
            F == heap.parent
            O == heap.owner
<1>1. /\ Stable(heap, {}, {}) /\ NULL \notin Nodes /\ heap.live \subseteq heap.alloc
      /\ F \in Pointers /\ Grounded(F) /\ O \in Pointers /\ Grounded(O) /\ heap \in Heaps
      /\ \A q \in Docs \cup Frags : F[q] = NULL
      /\ \A q \in heap.live : O[q] \in heap.live \cup {NULL}
      /\ \A q \in Nodes : F[q] \notin Attrs
      /\ Sound(heap) /\ Pending(heap, {}, {}, {}) /\ heap.live \subseteq Nodes
  BY SafeFacts, StableFacts
<1>2. n \in heap.live /\ o \in heap.live
  BY <1>1, HeldFacts, OwnerLive DEF navigate
<1>. PICK r : r = PmmNodeToSv(heap, m, o)
  OBVIOUS
<1>3. Safe(r) /\ Holding(heap, r, m)
  <2>1. CASE m \in heap.live
    BY <1>2, <2>1, AgainSafe
  <2>2. CASE m \notin heap.live
    <3>1. m \in heap.alloc /\ F[m] # NULL /\ m \notin Docs /\ m \notin Frags
      <4>1. F[m] # NULL
        BY <2>2 DEF navigate, Stable, Homed, Safe
      <4>. QED BY <1>1, <4>1 DEF navigate
    <3>2. n \notin Frags \/ O[n] = NULL
      BY <2>2 DEF navigate, KeepsTree
    <3>3. n \notin Attrs \/ F[n] # NULL
      BY <1>1, <3>1 DEF navigate
    <3>4. /\ o \in heap.live \ Attrs /\ Keeps(F, O, o, n)
          /\ F[n] # NULL => O[n] # NULL /\ Keeps(F, O, o, F[n])
      BY <1>2, <3>2, <3>3, KeepsOwner
    <3>5. Keeps(F, O, o, F[m])
      <4>1. CASE F[m] = n
        BY <3>4, <4>1
      <4>2. CASE F[n] # NULL /\ F[m] = F[n]
        BY <3>4, <4>2
      <4>3. CASE F[n] = m
        <5>1. PICK k \in Line(Passing(O), o) : k \in Line(F, m)
          BY <1>1, <3>4, <4>3 DEF Keeps
        <5>2. k \in heap.live
          <6>1. Line(Passing(O), o) \subseteq heap.live
            BY <1>1, <1>2, PassingWithin
          <6>. QED BY <5>1, <6>1
        <5>3. Line(F, m) = {m} \cup Line(F, F[m])
          BY <1>1, LineUnfolds
        <5>. QED BY <2>2, <5>1, <5>2, <5>3 DEF Keeps
      <4>. QED BY <4>1, <4>2, <4>3 DEF navigate
    <3>6. Ownable(heap, {}, m, o)
      BY <3>1, <3>4, <3>5 DEF Ownable
    <3>7. WithMemory(heap, heap, m)
      BY <1>1, <3>1 DEF WithMemory, SameProxies
    <3>8. Sound(r) /\ {} \in SUBSET Nodes /\ m \in Nodes \ heap.live
      BY <1>1, <1>2, <2>2, NodeToSvSound
    <3>9. Pending(r, {} \ {m}, {} \ {m, o}, {}) /\ Holding(heap, r, m)
      BY <1>1, <3>6, <3>7, <3>8, NodeToSvNew
    <3>10. {} \ {m} = {} /\ {} \ {m, o} = {}
      OBVIOUS
    <3>. QED BY <3>9, <3>10, SafeIsPending
  <2>. QED BY <2>1, <2>2
<1>. QED BY <1>3, ReturnSafe DEF navigate, Holding

(* ownerDocument (LibXML.xs) keeps the memory safe: the document of a held
   node has a proxy. *)
LEMMA ownerDocumentSafe ==
  ASSUME Safe(heap), NEW n \in Nodes, ownerDocument(n)
  PROVE  Safe(heap')
<1>. PICK r : r = PmmNodeToSv(heap, heap.doc[n], NULL)
  OBVIOUS
<1>1. heap.doc[n] \in heap.live /\ heap.doc[n] \in Nodes
  BY SafeFacts, NodesAssumption DEF ownerDocument, Heaps, Sound, Planted
<1>2. Safe(r) /\ Holding(heap, r, heap.doc[n])
  BY <1>1, AgainSafe
<1>. QED BY <1>1, <1>2, ReturnSafe DEF ownerDocument, Holding

(* ownerNode (LibXML.xs) keeps the memory safe: the owner of a held node
   is alive. *)
LEMMA ownerNodeSafe ==
  ASSUME Safe(heap), NEW n \in Nodes, ownerNode(n)
  PROVE  Safe(heap')
<1>. PICK o : o = PmmOWNERPO(heap, n)
  OBVIOUS
<1>. PICK r : r = PmmNodeToSv(heap, o, NULL)
  OBVIOUS
<1>1. o \in heap.live /\ o \in Nodes
  BY SafeFacts, HeldFacts, OwnerLive DEF ownerNode
<1>2. Safe(r) /\ Holding(heap, r, o)
  BY <1>1, AgainSafe
<1>. QED BY <1>1, <1>2, ReturnSafe DEF ownerNode, Holding

(* No step that only reads the tree or drops a handle makes the memory
   unsafe. *)
LEMMA VisitSafe ==
  ASSUME Safe(heap), Uses = {}, Visit
  PROVE  Safe(heap')
<1>1. ASSUME NEW n \in Kept, DESTROY(n) PROVE Safe(heap')
  BY <1>1, DropSafe, SafeFacts DEF DESTROY, Kept
<1>2. \A n \in Kept : n \in Nodes
  BY SafeFacts DEF Kept
<1>. QED BY <1>1, <1>2, navigateSafe, ownerDocumentSafe, ownerNodeSafe DEF Visit

-----------------------------------------------------------------------------
(* What the tree operations of the handlers move. *)

(* A tree is of one document and in memory as a whole. *)
LEMMA SameDocs ==
  ASSUME NEW h \in Heaps, Treed(h), NEW x \in Nodes, NEW n \in Line(h.parent, x)
  PROVE  h.doc[n] = h.doc[x] /\ (n \in h.alloc => x \in h.alloc)
<1>1. h.parent \in Pointers /\ Grounded(h.parent) /\ h.alloc \subseteq Nodes
  BY DEF Heaps, Pointers, Ends, Treed
<1>. DEFINE X == {z \in Nodes : h.doc[z] = h.doc[x]}
<1>2. \A z \in X : h.parent[z] \in X \cup {NULL}
  BY <1>1 DEF Treed
<1>3. X \in SUBSET Nodes /\ x \in X
  OBVIOUS
<1>. HIDE DEF X
<1>4. Line(h.parent, x) \subseteq X
  BY <1>1, <1>2, <1>3, LineWithin
<1>5. Line(h.parent, x) = {x} \cup Line(h.parent, h.parent[x]) /\ Line(h.parent, NULL) = {}
  BY <1>1, LineUnfolds
<1>6. n \in h.alloc => x \in h.alloc
  BY <1>5 DEF Treed
<1>. QED BY <1>4, <1>6 DEF X

(* Moves keep counts exact. *)
LEMMA RelinkSound ==
  ASSUME NEW h, Sound(h), NEW M, NEW s, Placeable(h, M, s), NEW h1 \in Heaps,
         Relinked(h, h1, M, s)
  PROVE  Sound(h1)
<1>1. Sound(h) /\ SameProxies(h, h1)
  BY DEF Relinked, SameProxies
<1>2. Counted(h1)
  BY <1>1, TreeCounted DEF Sound
<1>3. /\ M \subseteq Elems \cup Attrs /\ s \notin Attrs
      /\ h1.alloc = h.alloc /\ h1.live = h.live
      /\ \A x \in Nodes : h1.parent[x] = IF x \in M THEN s ELSE h.parent[x]
  BY DEF Relinked, Placeable, IsMove
<1>4. \A d \in Docs : d \in Nodes /\ d \notin M
  BY <1>3, NodesAssumption DEF Nodes
<1>. QED BY <1>1, <1>2, <1>3, <1>4 DEF Sound, Planted

(* Moving one node: the document of what is below it is that of s. *)
LEMMA RelinkOne ==
  ASSUME NEW h \in Heaps, Treed(h), NEW n \in h.alloc, NEW s, NEW h1, SameProxies(h, h1),
         h1.alloc = h.alloc, IsMove(h.parent, {n}, s, h1.parent),
         \A x \in Nodes : h1.doc[x] = IF x \in Subtree(h, n) THEN h.doc[s] ELSE h.doc[x]
  PROVE  Relinked(h, h1, {n}, s)
<1>1. n \in Nodes /\ Grounded(h.parent)
  BY DEF Heaps, Treed
<1>2. Subtree(h, n) = {m \in h.alloc : n \in Line(h.parent, m)}
  BY <1>1, SubtreeLines
<1>3. \A x \in Nodes : n \in Line(h.parent, x) => x \in h.alloc
  BY SameDocs
<1>. QED BY <1>2, <1>3 DEF Relinked, SameProxies

(* ... which it is already when both have the same document. *)
LEMMA RelinkHere ==
  ASSUME NEW h \in Heaps, Treed(h), NEW n \in h.alloc, NEW s, h.doc[n] = h.doc[s],
         NEW h1, SameProxies(h, h1), h1.alloc = h.alloc, h1.doc = h.doc,
         IsMove(h.parent, {n}, s, h1.parent)
  PROVE  Relinked(h, h1, {n}, s)
<1>1. n \in Nodes /\ Grounded(h.parent) /\ h.alloc \subseteq Nodes
  BY DEF Heaps, Treed
<1>2. Subtree(h, n) = {m \in h.alloc : n \in Line(h.parent, m)}
  BY <1>1, SubtreeLines
<1>3. \A x \in Subtree(h, n) : h.doc[x] = h.doc[s]
  BY <1>1, <1>2, SameDocs
<1>. QED BY <1>3, RelinkOne

(* xmlUnlinkNode leaves what is below n. *)
LEMMA UnlinkLines ==
  ASSUME NEW h \in Heaps, Treed(h), NEW n \in Nodes, NEW u, u = Unlink(h, n)
  PROVE  /\ u \in Heaps /\ SameProxies(h, u) /\ u.alloc = h.alloc /\ u.doc = h.doc
         /\ IsMove(h.parent, {n}, NULL, u.parent) /\ Grounded(u.parent)
         /\ Subtree(u, n) = Subtree(h, n)
         /\ \A x \in Ends : n \notin Line(h.parent, x) => Line(u.parent, x) = Line(h.parent, x)
<1>1. /\ h.parent \in Pointers /\ Grounded(h.parent) /\ {n} \in SUBSET Nodes /\ NULL \in Ends
      /\ h.alloc \subseteq Nodes
  BY DEF Heaps, Pointers, Ends, Treed
<1>2. /\ u \in Heaps /\ SameProxies(h, u) /\ u.alloc = h.alloc /\ u.doc = h.doc
      /\ IsMove(h.parent, {n}, NULL, u.parent)
  BY DEF Unlink, Heaps, SameProxies, IsMove, Pointers, Ends
<1>3. Line(h.parent, NULL) \cap {n} = {} /\ Apart(h.parent, {n})
  BY <1>1, LineUnfolds DEF Apart
<1>4. /\ Grounded(u.parent)
      /\ \A x \in Ends : Line(h.parent, x) \cap {n} = {} => Line(u.parent, x) = Line(h.parent, x)
      /\ \A x \in Ends : Line(u.parent, x) \cap {n} = Line(h.parent, x) \cap {n}
  BY <1>1, <1>2, <1>3, RelinkLines
<1>5. Subtree(u, n) = Subtree(h, n)
  <2>1. /\ Subtree(h, n) = {m \in h.alloc : n \in Line(h.parent, m)}
        /\ Subtree(u, n) = {m \in u.alloc : n \in Line(u.parent, m)}
    BY <1>1, <1>2, <1>4, SubtreeLines
  <2>2. \A m \in h.alloc : m \in Ends
    BY <1>1 DEF Ends
  <2>. QED BY <1>2, <1>4, <2>1, <2>2
<1>. QED BY <1>2, <1>4, <1>5

(* xmlAddChild of an unlinked node, in the document of its new parent *)
LEMMA BelowRelinks ==
  ASSUME NEW h \in Heaps, Treed(h), NEW n \in h.alloc, NEW s \in Nodes,
         NEW h1, h1 = AddChild(SetTreeDoc(Unlink(h, n), n, h.doc[s]), s, n)
  PROVE  h1 \in Heaps /\ Relinked(h, h1, {n}, s)
<1>. PICK u : u = Unlink(h, n)
  OBVIOUS
<1>0. h1 = AddChild(SetTreeDoc(u, n, h.doc[s]), s, n)
  OBVIOUS
<1>1. n \in Nodes /\ h.doc[s] \in Docs \cup {NULL}
  BY DEF Heaps
<1>2. /\ u \in Heaps /\ SameProxies(h, u) /\ u.alloc = h.alloc /\ u.doc = h.doc
      /\ IsMove(h.parent, {n}, NULL, u.parent) /\ Subtree(u, n) = Subtree(h, n)
  BY <1>1, UnlinkLines
<1>3. /\ h1 \in Heaps /\ SameProxies(u, h1) /\ h1.alloc = u.alloc
      /\ h1.parent = [u.parent EXCEPT ![n] = s]
      /\ \A x \in Nodes : h1.doc[x] = IF x \in Subtree(u, n) THEN h.doc[s] ELSE u.doc[x]
  <2>. PICK t : t = SetTreeDoc(u, n, h.doc[s])
    OBVIOUS
  <2>1. h1 = AddChild(t, s, n)
    BY <1>0
  <2>2. /\ t \in Heaps /\ SameProxies(u, t) /\ t.alloc = u.alloc /\ t.parent = u.parent
        /\ t.doc = [m \in Nodes |-> IF m \in Subtree(u, n) THEN h.doc[s] ELSE u.doc[m]]
    BY <1>1, <1>2 DEF SetTreeDoc, Heaps, SameProxies
  <2>3. /\ h1 \in Heaps /\ SameProxies(t, h1) /\ h1.alloc = t.alloc /\ h1.doc = t.doc
        /\ h1.parent = [t.parent EXCEPT ![n] = s]
    BY SMTT(30), <1>1, <2>1, <2>2 DEF AddChild, Heaps, SameProxies
  <2>4. SameProxies(u, h1)
    BY <2>2, <2>3 DEF SameProxies
  <2>. QED BY <2>2, <2>3, <2>4
<1>4. IsMove(h.parent, {n}, s, h1.parent)
  BY <1>1, <1>2, <1>3 DEF IsMove, Pointers, Ends
<1>5. SameProxies(h, h1) /\ h1.alloc = h.alloc
  BY <1>2, <1>3 DEF SameProxies
<1>. QED BY <1>2, <1>3, <1>4, <1>5, RelinkOne

(* domAppendChild, domInsertBefore and domReplaceChild move what they should. *)
LEMMA GraftRelinks ==
  ASSUME NEW h, Stable(h, {}, {}), NEW s \in h.alloc, NEW n \in h.alloc, HierarchyOK(h, s, n),
         s \in Frags => h.owner[s] = h.doc[s], NEW M, M = Moved(h, n), NEW h1, h1 = Graft(h, s, n)
  PROVE  /\ h1 \in Heaps /\ Relinked(h, h1, M, s) /\ Placeable(h, M, s)
         /\ M \in SUBSET Elems /\ n \notin Line(h.parent, s)
         /\ n \in Frags => \A m \in M : h.parent[m] = n
<1>. DEFINE F == h.parent
<1>1. /\ F \in Pointers /\ Grounded(F) /\ h.alloc \subseteq Nodes /\ s \in Nodes /\ n \in Nodes
      /\ NULL \notin Nodes /\ NULL \in Ends /\ Line(F, NULL) = {} /\ h \in Heaps /\ Treed(h)
      /\ h.doc[s] \in Docs \cup {NULL} /\ s \notin Attrs /\ n \in Elems \cup Frags /\ n # s
      /\ \A f \in Docs \cup Frags : F[f] = NULL
  BY ZenonT(60), StableFacts DEF Heaps, Stable, HierarchyOK
<1>2. n \notin Line(F, s)
  <2>1. Line(F, s) = {s} \cup Ancestors(h, s)
    BY <1>1, SubtreeLines
  <2>. QED BY <1>1, <2>1 DEF HierarchyOK
<1>3. /\ M \subseteq Elems /\ M \subseteq h.alloc
      /\ n \in Frags => \A m \in M : F[m] = n
      /\ n \notin Frags => M = {n} /\ n \in Elems
  <2>1. CASE n \in Frags
    <3>1. M = {m \in h.alloc \ Attrs : F[m] = n}
      BY <2>1 DEF Moved, Kids, Below
    <3>2. \A m \in M : m \in Nodes /\ m \notin Attrs /\ m \notin Frags /\ F[m] = n
      BY <1>1, <3>1
    <3>3. \A m \in M : m \notin Docs
      BY <1>1, <3>1
    <3>. QED BY <2>1, <3>1, <3>2, <3>3 DEF Nodes
  <2>2. CASE n \notin Frags
    BY <1>1, <2>2 DEF Moved
  <2>. QED BY <2>1, <2>2
<1>. HIDE DEF F
<1>4. /\ h1 \in Heaps /\ SameProxies(h, h1) /\ h1.alloc = h.alloc
      /\ \A x \in Nodes : h1.parent[x] = IF x \in M THEN s ELSE IF x = n THEN NULL ELSE F[x]
      /\ h1.doc = IF h.doc[n] = h.doc[s] THEN h.doc
                  ELSE [x \in Nodes |-> IF x \in Subtree(h, n) THEN h.doc[s] ELSE h.doc[x]]
  <2>. PICK t : t = IF h.doc[n] = h.doc[s] THEN h ELSE SetTreeDoc(h, n, h.doc[s])
    OBVIOUS
  <2>1. /\ t \in Heaps /\ SameProxies(h, t) /\ t.alloc = h.alloc /\ t.parent = F
        /\ t.doc = IF h.doc[n] = h.doc[s] THEN h.doc
                   ELSE [x \in Nodes |-> IF x \in Subtree(h, n) THEN h.doc[s] ELSE h.doc[x]]
    <3>1. CASE h.doc[n] = h.doc[s]
      BY <1>1, <3>1 DEF SameProxies, F
    <3>2. CASE h.doc[n] # h.doc[s]
      BY <1>1, <3>2 DEF SetTreeDoc, Heaps, SameProxies, F
    <3>. QED BY <3>1, <3>2
  <2>2. h1 = [t EXCEPT !.parent = [m \in Nodes |-> IF m \in M THEN s ELSE IF m = n THEN NULL ELSE F[m]]]
    BY <2>1 DEF Graft
  <2>3. /\ h1 \in Heaps /\ SameProxies(t, h1) /\ h1.alloc = t.alloc /\ h1.doc = t.doc
        /\ h1.parent = [m \in Nodes |-> IF m \in M THEN s ELSE IF m = n THEN NULL ELSE F[m]]
    <3>1. F \in [Nodes -> Nodes \cup {NULL}]
      BY <1>1 DEF Pointers, Ends
    <3>. QED BY <1>1, <2>1, <2>2, <3>1 DEF Heaps, SameProxies
  <2>. QED BY <2>1, <2>3 DEF SameProxies
<1>5. IsMove(F, M, s, h1.parent)
  BY <1>1, <1>3, <1>4 DEF IsMove, Heaps, Pointers, Ends
<1>6. Subtree(h, n) = {m \in h.alloc : n \in Line(F, m)}
  BY <1>1, SubtreeLines DEF F
<1>7. ASSUME NEW x \in Nodes, NEW m \in M, m \in Line(F, x)
      PROVE  x \in Subtree(h, n) /\ h.doc[x] = h.doc[n]
  <2>1. x \in h.alloc /\ h.doc[x] = h.doc[m]
    BY <1>1, <1>3, <1>7, SameDocs DEF F
  <2>2. n \in Line(F, x) /\ h.doc[m] = h.doc[n]
    <3>1. CASE n \in Frags
      <4>1. F[m] = n
        BY <1>3, <3>1
      <4>2. n \in Line(F, x)
        BY <1>1, <1>7, <4>1, LineFacts
      <4>. QED BY <1>1, <1>3, <4>1, <4>2 DEF Treed, F
    <3>. QED BY <1>3, <1>7, <3>1
  <2>. QED BY <1>6, <2>1, <2>2
<1>8. ASSUME NEW x \in Nodes, Line(F, x) \cap M = {}
      PROVE  h1.doc[x] = h.doc[x] \/ (x \in Frags /\ \A y \in Nodes : h1.parent[y] # x)
  <2>. SUFFICES ASSUME x \in Subtree(h, n)
                PROVE  x \in Frags /\ \A y \in Nodes : h1.parent[y] # x
    BY <1>1, <1>4 DEF Heaps
  <2>1. n \in Line(F, x) /\ n \in Frags
    BY <1>3, <1>6, <1>8
  <2>2. x = n
    <3>. SUFFICES ASSUME x # n PROVE FALSE
      OBVIOUS
    <3>1. PICK y \in Line(F, x) : F[y] = n
      BY <1>1, <2>1, LineChild
    <3>2. y \in h.alloc /\ y \notin Attrs
      <4>1. y \in Nodes
        BY <1>1, <3>1, LineFacts
      <4>2. n \notin Elems /\ n # NULL
        BY <1>1, <2>1, NodesAssumption
      <4>. QED BY <1>1, <3>1, <4>1, <4>2 DEF Treed, F
    <3>3. y \in M
      BY <2>1, <3>1, <3>2 DEF Moved, Kids, Below, F
    <3>. QED BY <1>8, <3>1, <3>3
  <2>3. ASSUME NEW y \in Nodes, h1.parent[y] = n PROVE FALSE
    <3>1. y \notin M /\ F[y] = n
      BY <1>1, <1>4, <2>3
    <3>2. y \in h.alloc /\ y \notin Attrs
      <4>2. n \notin Elems /\ n # NULL
        BY <1>1, <2>1, NodesAssumption
      <4>. QED BY <1>1, <3>1, <4>2 DEF Treed, F
    <3>. QED BY <2>1, <3>1, <3>2 DEF Moved, Kids, Below, F
  <2>. QED BY <2>1, <2>2, <2>3
<1>9. Relinked(h, h1, M, s)
  <2>1. \A x \in Nodes : Line(F, x) \cap M # {} => h1.doc[x] = h.doc[s]
    BY <1>4, <1>7
  <2>. QED BY <1>4, <1>5, <1>8, <2>1 DEF Relinked, SameProxies, F
<1>10. Line(F, s) \cap M = {} /\ Apart(F, M)
  <2>1. \A x \in Ends : n \notin Line(F, x) => Line(F, x) \cap M = {}
    <3>. SUFFICES ASSUME NEW x \in Ends, NEW m \in M, m \in Line(F, x), n \notin Line(F, x) PROVE FALSE
      OBVIOUS
    <3>1. x \in Nodes
      BY <1>1 DEF Ends
    <3>2. n \in Line(F, x)
      BY <1>1, <1>6, <1>7, <3>1
    <3>. QED BY <3>2
  <2>2. ASSUME NEW m \in M PROVE Line(F, F[m]) \cap M = {}
    <3>1. CASE n \in Frags
      <4>1. F[m] = n /\ F[n] = NULL /\ n \notin M
        BY <1>1, <1>3, <3>1, NodesAssumption
      <4>2. Line(F, n) = {n}
        BY <1>1, <4>1, LineUnfolds
      <4>. QED BY <4>1, <4>2
    <3>2. CASE n \notin Frags
      <4>1. m = n /\ n \notin Line(F, F[n])
        BY <1>1, <1>3, <3>2, LineUnfolds
      <4>. QED BY <1>3, <3>2, <4>1
    <3>. QED BY <3>1, <3>2
  <2>. QED BY <1>1, <1>2, <2>1, <2>2 DEF Apart, Ends
<1>11. Placeable(h, M, s)
  <2>1. M \cap Attrs = {}
    BY <1>3, NodesAssumption
  <2>. QED BY <1>1, <1>3, <1>10, <2>1 DEF Placeable, F
<1>. QED BY <1>2, <1>3, <1>4, <1>9, <1>11 DEF F

-----------------------------------------------------------------------------
(* Placing nodes. *)

(* No proxy is below the nodes of M. *)
LEMMA NothingBelow ==
  ASSUME NEW h, NEW L, NEW E, NEW M, NEW W, Pending(h, L, E, M \cup W),
         \A x \in h.live : Line(h.parent, x) \cap M = {}
  PROVE  Pending(h, L, E, W)
<1>1. \A x \in h.live : Line(h.parent, x) \cap W = {} => Line(h.parent, x) \cap (M \cup W) = {}
  OBVIOUS
<1>2. OwnedBut(h, W)
  BY <1>1 DEF Pending, OwnedBut
<1>3. Loose(h, W)
  BY DEF Pending, Loose
<1>. QED BY <1>2, <1>3 DEF Pending

(* setAttribute (LibXML.xs) keeps the memory safe: the new attribute has
   no proxy yet. *)
LEMMA setAttributeSafe ==
  ASSUME Safe(heap), NEW e \in Elems, setAttribute(e)
  PROVE  Safe(heap')
<1>1. PICK a \in Free(heap, Attrs) :
        heap' = [heap EXCEPT !.alloc = @ \cup {a}, !.parent[a] = e, !.doc[a] = heap.doc[e]]
  BY Zenon DEF setAttribute
<1>. PICK made : made = Making(heap, a, heap.doc[e])
  OBVIOUS
<1>2. /\ a \in (Elems \cup Attrs) \ (heap.alloc \cup heap.live) /\ a \in Attrs /\ a \in Nodes
      /\ heap.doc[e] \in Docs \cup {NULL} /\ e \in heap.alloc /\ e \in Nodes /\ e # a
      /\ e \notin Attrs /\ e \notin Frags /\ a \notin Docs
      /\ heap.parent \in Pointers /\ Grounded(heap.parent) /\ heap \in Heaps
      /\ heap.live \subseteq heap.alloc /\ Line(heap.parent, NULL) = {} /\ Treed(heap)
      /\ heap.alloc \subseteq Nodes /\ Pending(heap, {}, {}, {})
  <2>1. /\ a \in Attrs /\ a \notin heap.alloc /\ a \notin heap.live
        /\ e \in heap.alloc /\ heap \in Heaps /\ Stable(heap, {}, {}) /\ Pending(heap, {}, {}, {})
    BY SafeFacts DEF Free, setAttribute, Held, Kept
  <2>. QED BY <2>1, StableFacts, KindFacts, NodesAssumption DEF Heaps, Stable
<1>3. Pending(made, {} \cup {a}, {}, {}) /\ WithMemory(heap, made, a) /\ made.doc[a] = heap.doc[e]
  BY <1>2, MadePending
<1>4. /\ made \in Heaps /\ made.parent = heap.parent /\ made.alloc = heap.alloc \cup {a}
      /\ made.live = heap.live /\ made.doc[e] = heap.doc[e] /\ Treed(made) /\ Sound(made)
      /\ Pending(made, {a}, {}, {})
  BY <1>2, <1>3 DEF WithMemory, SameProxies, Pending, Stable
<1>5. heap.parent[a] = NULL /\ \A x \in Nodes : heap.parent[x] # a
  BY <1>2, KindFacts DEF Treed
<1>6. \A x \in heap.alloc : a \notin Line(heap.parent, x)
  BY <1>2, LinesInMemory
<1>7. Placeable(made, {a}, e)
  <2>1. Line(heap.parent, heap.parent[a]) = {} /\ a \notin Line(heap.parent, e)
    BY <1>2, <1>5, <1>6
  <2>. QED BY <1>2, <1>4, <2>1 DEF Placeable, Apart
<1>8. /\ heap' \in Heaps /\ SameProxies(made, heap') /\ heap'.alloc = made.alloc
      /\ heap'.doc = made.doc /\ heap'.parent = [made.parent EXCEPT ![a] = e]
  BY <1>1, <1>2 DEF Making, Heaps, SameProxies
<1>9. IsMove(made.parent, {a}, e, heap'.parent)
  BY <1>2, <1>4, <1>8 DEF IsMove, Pointers, Ends
<1>10. Relinked(made, heap', {a}, e)
  BY <1>2, <1>3, <1>4, <1>8, <1>9, RelinkHere
<1>11. Sound(heap')
  BY <1>4, <1>7, <1>8, <1>10, RelinkSound
<1>12. Pending(heap', {a} \ {a}, {}, {a} \cup {})
  <2>1. /\ {a} \cap made.live \subseteq Attrs /\ {} \in SUBSET Nodes
        /\ Line(made.parent, e) \cap {} = {}
        /\ \A x \in Nodes : Line(made.parent, x) \cap {a} = {} \/ Line(made.parent, x) \cap {} = {}
    BY <1>2
  <2>. QED BY <1>4, <1>7, <1>10, <1>11, <2>1, RelinkPending
<1>13. \A x \in heap'.live : Line(heap'.parent, x) \cap {a} = {}
  <2>1. /\ made.parent \in Pointers /\ Grounded(made.parent) /\ {a} \in SUBSET Nodes /\ e \in Ends
        /\ Apart(made.parent, {a}) /\ Line(made.parent, e) \cap {a} = {}
    BY <1>2, <1>4, <1>7 DEF Placeable, Ends
  <2>2. \A x \in Ends : Line(heap'.parent, x) \cap {a} = Line(made.parent, x) \cap {a}
    BY <1>9, <2>1, RelinkLines
  <2>3. heap'.live = heap.live
    BY <1>4, <1>8 DEF SameProxies
  <2>4. \A x \in heap.live : x \in Ends
    BY <1>2 DEF Ends
  <2>. QED BY <1>2, <1>4, <1>6, <2>2, <2>3, <2>4
<1>14. {a} \ {a} = {}
  OBVIOUS
<1>. QED BY <1>12, <1>13, <1>14, NothingBelow, SafeIsPending

(* Nodes that moved have still to be fixed, and nothing else. *)
LEMMA RelinkSafe ==
  ASSUME NEW h, NEW L, NEW M, NEW s, NEW h1, Moving(h, L, M, s, h1)
  PROVE  Pending(h1, L \ M, {}, M \cup {})
<1>1. /\ L \cap h.live \subseteq Attrs /\ Line(h.parent, s) \cap {} = {} /\ {} \in SUBSET Nodes
      /\ \A x \in Nodes : Line(h.parent, x) \cap M = {} \/ Line(h.parent, x) \cap {} = {}
  BY DEF Moving
<1>. QED BY <1>1, RelinkPending DEF Moving

(* What PmmFixOwner finds when n is given the owner p. *)
LEMMA PlacingMoved ==
  ASSUME NEW h, NEW L, NEW M, NEW s, NEW h1, Moving(h, L, M, s, h1),
         NEW g, SameShape(h1, g), NEW n, NEW p, Receiving(h, M, n, p, s)
  PROVE  /\ Pending(h1, L \ M, {}, M \cup {}) /\ Placing(g, M, {}, n, p, s)
         /\ s \in Nodes /\ n \in g.live /\ p \in g.live
<1>0. /\ Pending(h, L, {}, {}) /\ Placeable(h, M, s) /\ Relinked(h, h1, M, s)
      /\ L \in SUBSET Attrs /\ M \in SUBSET Nodes
  BY DEF Moving
<1>1. /\ h \in Heaps /\ h.live \subseteq h.alloc /\ h.alloc \subseteq Nodes
      /\ h.parent \in Pointers /\ Grounded(h.parent) /\ NULL \notin Nodes
      /\ s \in h.alloc \ Attrs /\ s \in Nodes /\ s \in Ends /\ Line(h.parent, s) \cap M = {}
      /\ Apart(h.parent, M) /\ IsMove(h.parent, M, s, h1.parent)
      /\ s \in Frags => h.owner[s] = h.doc[s]
      /\ h1.live = h.live /\ h1.owner = h.owner /\ {} \in SUBSET Nodes
      /\ \A x \in Nodes : h1.parent[x] = IF x \in M THEN s ELSE h.parent[x]
  <2>1. /\ h \in Heaps /\ h.live \subseteq h.alloc /\ h.alloc \subseteq Nodes
        /\ h.parent \in Pointers /\ Grounded(h.parent) /\ NULL \notin Nodes
    BY <1>0, StableFacts DEF Pending
  <2>. QED BY <1>0, <2>1 DEF Placeable, Relinked, Ends, IsMove
<1>2. Pending(h1, L \ M, {}, M \cup {})
  BY RelinkSafe
<1>3. g.alloc \subseteq Nodes
  <2>1. h1.alloc \subseteq Nodes
    BY <1>2, StableFacts DEF Pending
  <2>. QED BY <2>1 DEF SameShape
<1>4. g.parent = h1.parent /\ g.owner = h.owner /\ g.live = h.live
  BY <1>1 DEF SameShape
<1>5. Line(h1.parent, s) = Line(h.parent, s)
  BY <1>0, <1>1, RelinkLines
<1>6. Placing(g, M, {}, n, p, s)
  <2>1. \A m \in M : g.parent[m] = s
    BY <1>0, <1>1, <1>4
  <2>3. ASSUME n \notin M
        PROVE  /\ n \in Frags /\ Below(g, n) = {}
               /\ \A v \in g.live : g.owner[v] = n => Line(g.parent, v) \cap M # {}
    <3>1. /\ n \in Frags /\ \A m \in Nodes : h.parent[m] = n => m \in M
          /\ \A v \in h.live : h.owner[v] = n => Line(h.parent, v) \cap M # {}
      BY <2>3 DEF Receiving, Entering
    <3>2. Below(g, n) = {}
      BY <1>1, <1>3, <1>4, <3>1 DEF Below, Receiving
    <3>3. \A x \in Ends : Line(h1.parent, x) \cap M = Line(h.parent, x) \cap M
      BY <1>0, <1>1, RelinkLines
    <3>4. \A v \in g.live : g.owner[v] = n => Line(g.parent, v) \cap M # {}
      BY <1>1, <1>4, <3>1, <3>3 DEF Ends
    <3>. QED BY <3>1, <3>2, <3>4
  <2>4. s \in Frags => g.owner[s] \in Docs \cup {NULL}
    BY <1>1, <1>4 DEF Heaps
  <2>5. Keeps(g.parent, g.owner, p, s)
    BY <1>4, <1>5 DEF Receiving, Keeps
  <2>6. Line(g.parent, s) \cap (M \cup {}) = {} /\ M \cap Attrs \subseteq {n} /\ {} \cap Attrs = {}
    BY <1>1, <1>4, <1>5 DEF Receiving
  <2>. QED BY <1>1, <2>1, <2>3, <2>4, <2>5, <2>6 DEF Placing, Receiving
<1>. QED BY <1>1, <1>2, <1>4, <1>6 DEF Receiving

(* Nodes M are placed below s, and PmmFixOwner gives n the owner p. *)
LEMMA PlaceSafe ==
  ASSUME NEW h, NEW L, NEW M, NEW s, NEW h1, Moving(h, L, M, s, h1),
         NEW g, SameShape(h1, g), Sound(g), Wanted(g, {}),
         NEW n, NEW p, Receiving(h, M, n, p, s), Holding(h1, g, n),
         NEW out, out = PmmFixOwner(g, n, p), FixedBelow(g, out, M, n, p)
  PROVE  Pending(out, L \ M, {}, {}) /\ Placed(g, M, n, out)
<1>1. /\ Pending(h1, L \ M, {}, M \cup {}) /\ Placing(g, M, {}, n, p, s)
      /\ s \in Nodes /\ n \in g.live /\ p \in g.live
  BY PlacingMoved
<1>2. Pending(g, L \ M, {}, M \cup {})
  BY <1>1, ShapePending
<1>3. /\ L \ M \in SUBSET Attrs /\ M \in SUBSET Nodes /\ {} \in SUBSET Nodes /\ Watched(g, out, {})
      /\ g.handles[n] > 0
  BY DEF Moving, Watched, Holding
<1>4. Pending(out, L \ M, {} \ {p}, {}) /\ Placed(g, M, n, out)
  BY <1>1, <1>2, <1>3, FixOwnerPending
<1>5. {} \ {p} = {}
  OBVIOUS
<1>. QED BY <1>4, <1>5

(* What the handlers ask of the owners before they call PmmFixOwner is
   enough. *)
LEMMA FollowFixed ==
  ASSUME Stable(heap, {}, {}), NEW M \in SUBSET Nodes, NEW n, NEW p, NEW s \in Nodes \cap heap.alloc,
         OwnersFollow(M, n, p, s),
         NEW g, Pending(g, {}, {}, M \cup {}), Carried(heap, g, M, n, p, s),
         Placing(g, M, {}, n, p, s), n \in g.live, p \in g.live, g.handles[n] > 0,
         NEW out, out = PmmFixOwner(g, n, p)
  PROVE  FixedBelow(g, out, M, n, p)
<1>. DEFINE F == g.parent
            S == FixSet(g, n, p)
<1>1. /\ g \in Heaps /\ g.live \subseteq g.alloc /\ g.alloc \subseteq Nodes
      /\ F \in Pointers /\ Grounded(F) /\ Sound(g) /\ NULL \notin Nodes /\ Line(F, NULL) = {}
      /\ \A q \in g.live : g.owner[q] \in g.live \cup {NULL}
      /\ \A q \in Docs : F[q] = NULL
      /\ n \in Nodes /\ p \in Nodes /\ Stable(g, {}, {})
  <2>1. Stable(g, {}, {})
    BY DEF Pending
  <2>. QED BY <2>1, StableFacts DEF Stable
<1>2. /\ heap \in Heaps /\ heap.live \subseteq heap.alloc /\ heap.alloc \subseteq Nodes
      /\ heap.parent \in Pointers /\ Grounded(heap.parent)
  BY StableFacts
<1>3. /\ \A m \in M : F[m] = s
      /\ n \in M \/ (n \in Frags /\ Below(g, n) = {})
      /\ Line(F, s) \cap M = {}
      /\ n \notin Docs
  <2>1. /\ \A m \in M : F[m] = s
        /\ n \in M \/ (n \in Frags /\ Below(g, n) = {})
        /\ Line(F, s) \cap M = {}
    BY DEF Placing
  <2>2. n \in Docs => FALSE
    BY <1>1, <2>1, KindFacts
  <2>. QED BY <2>1, <2>2
<1>4. /\ out.live \subseteq g.live /\ out \in Heaps /\ out.parent \in Pointers /\ Grounded(out.parent)
      /\ \A x \in Nodes : out.parent[x] \in {F[x], NULL}
  <2>1. p \in g.live \cup {NULL}
    OBVIOUS
  <2>. QED BY <1>1, <2>1, FixOwnerLinks DEF Settled
<1>5. ASSUME NEW x \in out.live
      PROVE  /\ out.owner[x] \in {g.owner[x], p}
             /\ n \in M /\ x \in Reached(g, {n}, p) /\ g.owner[n] # p => out.owner[x] = p
  <2>1. CASE g.owner[n] = p
    BY <2>1 DEF PmmFixOwner
  <2>2. CASE g.owner[n] # p
    <3>1. n \in g.live \ Docs /\ p \in g.live \cup {NULL} /\ p # NULL
          /\ ((p # NULL /\ F[n] # NULL) \/ Below(g, n) = {})
      BY <1>1, <1>3
    <3>2. out = Reown(g, S, p)
      BY <1>1, <2>2, <3>1, FixOwnerIs
    <3>3. S \in SUBSET g.live /\ p \notin S
      <4>1. S \in SUBSET (g.live \ Docs)
        BY <1>1, <2>2, FixSetFacts
      <4>2. Line(g.owner, p) \cap S = {}
        <5>1. {} \in SUBSET Attrs
          OBVIOUS
        <5>. QED BY <2>2, <5>1, OwnersApart
      <4>3. p \in Line(g.owner, p)
        BY <1>1, StableFacts, LineFacts
      <4>. QED BY <4>1, <4>2, <4>3
    <3>4. n \in M => S = Reached(g, {n}, p)
      BY <1>1, <1>3 DEF FixSet
    <3>. HIDE DEF S
    <3>5. /\ \A q \in Reown(g, S, p).live :
               /\ Reown(g, S, p).owner[q] = Given(g, S, p)[q]
               /\ Given(g, S, p)[q] \in Reown(g, S, p).live \cup {NULL}
          /\ Reown(g, S, p).live \subseteq g.live /\ Reown(g, S, p).handles = g.handles
      BY ONLY <1>1, <3>1, <3>3, ReownOwners, Zenon
    <3>6. x \in Nodes /\ out.owner[x] = IF x \in S THEN p ELSE g.owner[x]
      BY <1>1, <1>4, <3>2, <3>5 DEF Given
    <3>. QED BY <3>4, <3>6
  <2>. QED BY <2>1, <2>2
<1>. SUFFICES ASSUME NEW m \in M, NEW x \in out.live, x \in Subtree(out, m)
              PROVE  \/ out.owner[x] \in Subtree(out, m) \cup {m, p} \cup ({n} \cap Frags)
                     \/ out.owner[x] \in Line(F, F[x])
  BY DEF FixedBelow
<1>6. x \in g.live /\ x \in Nodes /\ m \in Nodes /\ m \in Line(F, x)
  <2>1. m \in Line(out.parent, x) /\ x \in Nodes
    BY <1>1, <1>4, SubtreeLines
  <2>. QED BY <1>1, <1>4, <2>1, LinesDrop
<1>7. /\ m \in Line(heap.parent, x)
      /\ Line(F, x) \subseteq Line(heap.parent, x) \cup Line(heap.parent, s)
      /\ \/ x \in heap.live /\ g.owner[x] = heap.owner[x]
         \/ g.owner[x] = p
  BY <1>6 DEF Carried
<1>8. CASE g.owner[x] = p
  BY <1>5, <1>8
<1>9. CASE x \in heap.live /\ g.owner[x] = heap.owner[x] /\ g.owner[x] # p
  <2>1. /\ Subtree(heap, m) = {y \in heap.alloc : m \in Line(heap.parent, y)}
        /\ Line(heap.parent, s) = {s} \cup Ancestors(heap, s)
    BY <1>2, <1>6, SubtreeLines
  <2>2. \/ heap.owner[x] \in Subtree(heap, m) \cup Ancestors(heap, s) \cup {s, p} \cup ({n} \cap Frags)
        \/ m = n /\ n \in heap.live /\ x \in Reached(heap, {n}, p)
    BY <1>2, <1>7, <1>9, <2>1 DEF OwnersFollow
  <2>3. CASE heap.owner[x] \in Subtree(heap, m)
    <3>1. g.owner[x] \in g.live
      BY <1>1, <1>2, <1>6, <1>9, <2>1, <2>3
    <3>2. m \in Line(F, g.owner[x])
      BY <1>9, <2>1, <2>3, <3>1 DEF Carried
    <3>3. g.owner[x] \in Line(F, F[x])
      BY <1>6, <3>2 DEF Pending, Loose
    <3>. QED BY <1>5, <3>3
  <2>4. CASE heap.owner[x] \in Line(heap.parent, s)
    <3>1. s # NULL /\ F[m] = s
      BY <1>1, <1>3
    <3>2. F[x] \in Nodes /\ s \in Line(F, F[x])
      BY <1>1, <1>6, <3>1, AboveInLine
    <3>3. Line(F, s) \subseteq Line(F, F[x])
      BY <1>1, <3>2, LineFacts
    <3>4. Line(F, s) = Line(heap.parent, s)
      BY DEF Carried
    <3>. QED BY <1>5, <1>9, <2>4, <3>3, <3>4
  <2>5. CASE heap.owner[x] \in {p} \cup ({n} \cap Frags)
    BY <1>5, <1>9, <2>5
  <2>6. CASE m = n /\ n \in heap.live /\ x \in Reached(heap, {n}, p)
    <3>1. /\ Subtree(g, n) = {y \in g.alloc : n \in Line(F, y)}
          /\ Line(F, x) = {x} \cup Ancestors(g, x)
          /\ Line(heap.parent, x) = {x} \cup Ancestors(heap, x)
          /\ n \in Line(F, n)
      <4>1. g \in Heaps /\ Grounded(g.parent) /\ heap \in Heaps /\ Grounded(heap.parent) /\ x \in Nodes /\ n \in Nodes
        BY <1>1, <1>2, <1>6
      <4>2. Subtree(g, n) = {y \in g.alloc : n \in Line(F, y)}
        BY <4>1, SubtreeLines
      <4>3. Line(F, x) = {x} \cup Ancestors(g, x)
        BY <4>1, SubtreeLines
      <4>4. Line(heap.parent, x) = {x} \cup Ancestors(heap, x)
        BY <4>1, SubtreeLines
      <4>5. n \in Line(F, n)
        BY <1>1, LineFacts
      <4>. QED BY <4>2, <4>3, <4>4, <4>5
    <3>2. ASSUME NEW a \in Line(F, x), a \in g.live, n \in Line(F, a)
          PROVE  g.owner[a] # p
      <4>1. a \notin Line(heap.parent, s)
        <5>1. Line(heap.parent, s) = Line(F, s)
          BY DEF Carried
        <5>2. a \in Line(F, s) => n \in Line(F, s)
          BY <1>1, <3>2, LineFacts
        <5>. QED BY <1>3, <2>6, <5>1, <5>2
      <4>2. a \in heap.live /\ g.owner[a] = heap.owner[a] /\ n \in Line(heap.parent, a)
        BY <2>6, <3>2 DEF Carried
      <4>3. a = x \/ a \in Ancestors(heap, x) \cap Subtree(heap, n) \cap heap.live
        BY <1>2, <1>7, <2>1, <2>6, <3>1, <4>1, <4>2
      <4>. QED BY <1>9, <2>6, <4>2, <4>3 DEF Reached
    <3>3. g.owner[n] # p
      BY <1>1, <1>6, <2>6, <3>1, <3>2
    <3>4. x \in Reached(g, {n}, p)
      <4>1. x \in g.live \ Docs
        BY <1>6, <2>6 DEF Reached
      <4>2. x \in Subtree(g, n)
        BY <1>1, <1>6, <2>6, <3>1
      <4>3. \A a \in Ancestors(g, x) \cap Subtree(g, n) \cap g.live : g.owner[a] # p
        BY <3>1, <3>2
      <4>. QED BY <1>9, <4>1, <4>2, <4>3 DEF Reached
    <3>. QED BY <1>5, <2>6, <3>3, <3>4
  <2>. QED BY <2>1, <2>2, <2>3, <2>4, <2>5, <2>6
<1>. QED BY <1>7, <1>8, <1>9

(* ... after n was given another handle. *)
LEMMA PlaceHeld ==
  ASSUME NEW h, NEW L, NEW M, NEW s, NEW h1, Moving(h, L, M, s, h1),
         NEW n, NEW o \in h.live \cup {NULL}, NEW g, g = PmmNodeToSv(h1, n, o),
         NEW p, Receiving(h, M, n, p, s),
         NEW out, out = PmmFixOwner(g, n, p), FixedBelow(g, out, M, n, p)
  PROVE  Pending(out, L \ M, {}, {}) /\ Holding(h1, out, n) /\ out.live \subseteq h.live
<1>1. Pending(h1, L \ M, {}, M \cup {})
  BY RelinkSafe
<1>2. /\ h1.live = h.live /\ n \in h1.live /\ n \in Nodes /\ o \in h1.live \cup {NULL}
      /\ o \in Nodes \cup {NULL}
  <2>1. h1.live = h.live /\ h.live \subseteq Nodes
    BY StableFacts DEF Relinked, Pending, Moving
  <2>. QED BY <2>1 DEF Receiving
<1>3. Sound(g)
  BY <1>2, NodeToSvSound DEF Moving
<1>4. Pending(g, L \ M, {} \ {n}, M \cup {}) /\ SameShape(h1, g) /\ Holding(h1, g, n)
  BY <1>1, <1>2, <1>3, NodeToSvAgain
<1>5. Wanted(g, {})
  <2>1. {} \ {n} = {}
    OBVIOUS
  <2>. QED BY <1>4, <2>1 DEF Pending, Stable
<1>6. Pending(out, L \ M, {}, {}) /\ Placed(g, M, n, out)
  BY <1>3, <1>4, <1>5, PlaceSafe
<1>. QED BY <1>2, <1>4, <1>6 DEF Holding, SameShape, Placed

(* What a move of M below s carries along. *)
LEMMA CarriedMoved ==
  ASSUME NEW M, NEW s, NEW h1, Moving(heap, {}, M, s, h1), NEW n, NEW p,
         NEW g, g.parent = h1.parent, g.live \subseteq Nodes,
         \A x \in g.live : \/ x \in heap.live /\ g.owner[x] = heap.owner[x]
                           \/ x = n /\ n \notin heap.live /\ g.owner[x] = p
  PROVE  Carried(heap, g, M, n, p, s)
<1>. DEFINE F == heap.parent
            G == g.parent
<1>1. Pending(heap, {}, {}, {}) /\ Placeable(heap, M, s) /\ Relinked(heap, h1, M, s) /\ M \in SUBSET Nodes
  BY DEF Moving
<1>2. F \in Pointers /\ Grounded(F) /\ heap.alloc \subseteq Nodes /\ Nodes \subseteq Ends
  BY <1>1, StableFacts DEF Pending
<1>3. /\ IsMove(F, M, s, G) /\ Apart(F, M) /\ Line(F, s) \cap M = {} /\ s \in Ends
  BY <1>1, <1>2 DEF Placeable, Relinked
<1>4. /\ \A x \in Ends : Line(F, x) \cap M = {} => Line(G, x) = Line(F, x)
      /\ \A x \in Nodes : \A m \in M : m \in Line(F, x) =>
           Line(G, x) = {y \in Line(F, x) : m \in Line(F, y)} \cup Line(F, s)
      /\ \A x \in Ends : Line(G, x) \cap M = Line(F, x) \cap M
  BY <1>1, <1>2, <1>3, RelinkLines
<1>. HIDE DEF F, G
<1>5. Line(G, s) = Line(F, s)
  BY <1>3, <1>4
<1>6. ASSUME NEW x \in g.live, NEW m \in M
      PROVE  /\ m \in Line(F, x) <=> m \in Line(G, x)
             /\ m \in Line(G, x) => Line(G, x) \subseteq Line(F, x) \cup Line(F, s)
  <2>1. x \in Nodes /\ x \in Ends
    BY <1>2
  <2>2. m \in Line(F, x) <=> m \in Line(G, x)
    BY <1>4, <2>1
  <2>. QED BY <1>4, <2>1, <2>2
<1>. QED BY <1>5, <1>6 DEF Carried, F, G

(* The owners below nodes that were moved when n had a proxy already, as
   their handlers ask *)
LEMMA MovedFixed ==
  ASSUME NEW M, NEW s, NEW h1, Moving(heap, {}, M, s, h1),
         NEW n, NEW o \in heap.live \cup {NULL}, NEW g, g = PmmNodeToSv(h1, n, o),
         NEW p, Receiving(heap, M, n, p, s), OwnersFollow(M, n, p, s),
         NEW out, out = PmmFixOwner(g, n, p)
  PROVE  FixedBelow(g, out, M, n, p)
<1>1. /\ h1.live = heap.live /\ h1.owner = heap.owner /\ heap.live \subseteq Nodes
      /\ n \in h1.live /\ n \in Nodes /\ o \in h1.live \cup {NULL} /\ o \in Nodes \cup {NULL}
      /\ s \in heap.alloc /\ M \in SUBSET Nodes /\ Stable(heap, {}, {})
  <2>1. /\ h1.live = heap.live /\ h1.owner = heap.owner /\ heap.live \subseteq Nodes
        /\ s \in heap.alloc /\ M \in SUBSET Nodes /\ Stable(heap, {}, {})
    BY StableFacts DEF Relinked, Pending, Moving, Placeable
  <2>. QED BY <2>1 DEF Receiving
<1>2. Sound(g)
  BY <1>1, NodeToSvSound DEF Moving
<1>3. Pending(h1, {} \ M, {}, M \cup {})
  BY RelinkSafe
<1>4. Pending(g, {} \ M, {} \ {n}, M \cup {}) /\ SameShape(h1, g) /\ Holding(h1, g, n)
  BY <1>1, <1>2, <1>3, NodeToSvAgain
<1>5. Placing(g, M, {}, n, p, s) /\ s \in Nodes /\ n \in g.live /\ p \in g.live
  BY <1>4, PlacingMoved
<1>6. Carried(heap, g, M, n, p, s)
  <2>1. g.parent = h1.parent /\ g.live \subseteq Nodes
    BY <1>1, <1>4 DEF SameShape
  <2>2. \A x \in g.live : \/ x \in heap.live /\ g.owner[x] = heap.owner[x]
                          \/ x = n /\ n \notin heap.live /\ g.owner[x] = p
    BY <1>1, <1>4 DEF SameShape
  <2>. QED BY <2>1, <2>2, CarriedMoved
<1>7. {} \ M = {} /\ {} \ {n} = {}
  OBVIOUS
<1>. QED BY <1>1, <1>4, <1>5, <1>6, <1>7, FollowFixed DEF Holding

(* addChild (LibXML.xs) keeps the memory safe. *)
LEMMA addChildSafe ==
  ASSUME Safe(heap), Uses = {}, NEW s \in Nodes, NEW n \in Nodes, addChild(s, n)
  PROVE  Safe(heap')
<1>. PICK o : o = PmmOWNERPO(heap, s)
  OBVIOUS
<1>. PICK h1 : h1 = AddChild(SetTreeDoc(Unlink(heap, n), n, heap.doc[s]), s, n)
  OBVIOUS
<1>. PICK g : g = PmmNodeToSv(h1, n, o)
  OBVIOUS
<1>. PICK out : out = PmmFixOwner(g, n, s)
  OBVIOUS
<1>1. /\ OwnersFollow({n}, n, s, s) /\ Return(out, n)
      /\ s \in Frags => heap.owner[s] = heap.doc[s]
      /\ n \in Elems /\ n # s /\ n \notin Ancestors(heap, s) /\ s \notin Attrs
  BY NodesAssumption DEF addChild, FragmentOK
<1>2. /\ Sound(heap) /\ Pending(heap, {}, {}, {}) /\ heap \in Heaps /\ Treed(heap)
      /\ heap.parent \in Pointers /\ Grounded(heap.parent)
      /\ s \in heap.alloc /\ n \in heap.alloc /\ s \in heap.live /\ n \in heap.live
      /\ {n} \in SUBSET Nodes /\ {} \in SUBSET Attrs /\ heap.owner \in Pointers /\ Grounded(heap.owner)
  <2>1. Sound(heap) /\ Stable(heap, {}, {}) /\ Pending(heap, {}, {}, {})
    BY SafeFacts
  <2>2. Held(s) /\ Held(n)
    BY DEF addChild
  <2>. QED BY <2>1, <2>2, StableFacts, HeldFacts DEF Stable
<1>3. h1 \in Heaps /\ Relinked(heap, h1, {n}, s)
  BY <1>2, BelowRelinks
<1>4. Placeable(heap, {n}, s)
  <2>1. n \notin Line(heap.parent, s) /\ n \notin Line(heap.parent, heap.parent[n])
    BY <1>1, <1>2, SubtreeLines
  <2>. QED BY <1>1, <1>2, <2>1, NodesAssumption DEF Placeable, Apart
<1>5. Sound(h1)
  BY <1>2, <1>3, <1>4, RelinkSound
<1>6. Receiving(heap, {n}, n, s, s)
  <2>1. Keeps(heap.parent, heap.owner, s, s)
    BY <1>2, LineFacts, PassingFacts DEF Keeps
  <2>. QED BY <1>1, <1>2, <2>1 DEF Receiving, Entering
<1>7. o \in heap.live \cup {NULL}
  BY <1>2, OwnerLive
<1>8. Pending(out, {} \ {n}, {}, {}) /\ Holding(h1, out, n)
  <2>1. Moving(heap, {}, {n}, s, h1)
    BY <1>2, <1>3, <1>4, <1>5 DEF Moving
  <2>2. FixedBelow(g, out, {n}, n, s)
    BY <1>1, <1>6, <1>7, <2>1, MovedFixed
  <2>. QED BY <1>6, <1>7, <2>1, <2>2, PlaceHeld
<1>9. {} \ {n} = {}
  OBVIOUS
<1>. QED BY <1>1, <1>8, <1>9, SafeIsPending, ReturnSafe DEF Holding

(* What an insertion of n moves enters with n. *)
LEMMA EnteringMoved ==
  ASSUME Stable(heap, {}, {}), Uses = {}, NEW n \in heap.live, FragmentOK(n)
  PROVE  Entering(heap, Moved(heap, n), n)
<1>1. /\ heap.parent \in Pointers /\ Grounded(heap.parent) /\ heap \in Heaps /\ n \in Nodes
      /\ heap.owner \in Pointers /\ Grounded(heap.owner) /\ heap.live \subseteq Nodes
      /\ NULL \notin Nodes
  BY StableFacts
<1>. SUFFICES ASSUME n \in Frags
              PROVE  /\ \A m \in Nodes : heap.parent[m] = n => m \in Moved(heap, n)
                     /\ \A v \in heap.live : heap.owner[v] = n =>
                          Line(heap.parent, v) \cap Moved(heap, n) # {}
  BY DEF Entering, Moved
<1>2. ASSUME NEW m \in Nodes, heap.parent[m] = n PROVE m \in Moved(heap, n)
  <2>1. m \in heap.alloc /\ m \notin Attrs
    BY <1>1, <1>2, NodesAssumption DEF Stable, Treed
  <2>. QED BY <1>2, <2>1 DEF Moved, Kids, Below
<1>3. ASSUME NEW v \in heap.live, heap.owner[v] = n PROVE Line(heap.parent, v) \cap Moved(heap, n) # {}
  <2>1. v \in Subtree(heap, n)
    BY <1>3 DEF FragmentOK, Ownees
  <2>2. n \in Line(heap.parent, v) /\ n # v /\ v \in Nodes
    <3>1. n \in Line(heap.parent, v) /\ v \in Nodes
      BY <1>1, <2>1, SubtreeLines
    <3>2. v \notin Line(heap.owner, heap.owner[v]) /\ n \in Line(heap.owner, n)
      BY <1>1, LineUnfolds, LineFacts
    <3>. QED BY <1>3, <3>1, <3>2
  <2>3. PICK y \in Line(heap.parent, v) : heap.parent[y] = n
    BY <1>1, <2>2, LineChild
  <2>. QED BY <1>1, <1>2, <2>2, <2>3, LineFacts
<1>. QED BY <1>2, <1>3

(* appendChild (LibXML.xs) keeps the memory safe, of a node or of the
   children of a fragment. *)
LEMMA appendChildSafe ==
  ASSUME Safe(heap), Uses = {}, NEW s \in Nodes, NEW n \in Nodes, appendChild(s, n)
  PROVE  Safe(heap')
<1>. PICK o : o = PmmOWNERPO(heap, s)
  OBVIOUS
<1>. PICK M : M = Moved(heap, n)
  OBVIOUS
<1>. PICK h1 : h1 = Graft(heap, s, n)
  OBVIOUS
<1>. PICK g : g = PmmNodeToSv(h1, n, o)
  OBVIOUS
<1>. PICK out : out = PmmFixOwner(g, n, s)
  OBVIOUS
<1>1. /\ OwnersFollow(M, n, s, s) /\ Return(out, n)
      /\ s \in Frags => heap.owner[s] = heap.doc[s]
      /\ HierarchyOK(heap, s, n) /\ FragmentOK(n)
      /\ n # s /\ s \notin Attrs
  BY DEF appendChild, FragmentOK, HierarchyOK
<1>2. /\ Sound(heap) /\ Pending(heap, {}, {}, {}) /\ heap \in Heaps /\ Stable(heap, {}, {})
      /\ heap.parent \in Pointers /\ Grounded(heap.parent)
      /\ s \in heap.alloc /\ n \in heap.alloc /\ s \in heap.live /\ n \in heap.live
      /\ {} \in SUBSET Attrs /\ heap.owner \in Pointers /\ Grounded(heap.owner)
  <2>1. Sound(heap) /\ Stable(heap, {}, {}) /\ Pending(heap, {}, {}, {})
    BY SafeFacts
  <2>2. Held(s) /\ Held(n)
    BY DEF appendChild
  <2>. QED BY <2>1, <2>2, StableFacts, HeldFacts DEF Stable
<1>3. /\ h1 \in Heaps /\ Relinked(heap, h1, M, s) /\ Placeable(heap, M, s)
      /\ M \in SUBSET Elems /\ n \notin Line(heap.parent, s)
      /\ n \in Frags => \A m \in M : heap.parent[m] = n
  BY <1>1, <1>2, GraftRelinks
<1>4. M \in SUBSET Nodes /\ M \cap Attrs = {}
  BY <1>3, KindFacts
<1>5. Sound(h1)
  BY <1>2, <1>3, RelinkSound
<1>6. Receiving(heap, M, n, s, s)
  <2>1. Keeps(heap.parent, heap.owner, s, s)
    BY <1>2, LineFacts, PassingFacts DEF Keeps
  <2>2. Entering(heap, M, n)
    BY <1>1, <1>2, EnteringMoved
  <2>. QED BY <1>1, <1>2, <1>4, <2>1, <2>2 DEF Receiving
<1>7. o \in heap.live \cup {NULL}
  BY <1>2, OwnerLive
<1>8. Pending(out, {} \ M, {}, {}) /\ Holding(h1, out, n)
  <2>1. Moving(heap, {}, M, s, h1)
    BY <1>2, <1>3, <1>4, <1>5 DEF Moving
  <2>2. FixedBelow(g, out, M, n, s)
    BY <1>1, <1>6, <1>7, <2>1, MovedFixed
  <2>. QED BY <1>6, <1>7, <2>1, <2>2, PlaceHeld
<1>9. {} \ M = {}
  OBVIOUS
<1>. QED BY <1>1, <1>8, <1>9, SafeIsPending, ReturnSafe DEF Holding

(* What is below a node has a parent, or is that node. *)
LEMMA BelowLinked ==
  ASSUME NEW h \in Heaps, Grounded(h.parent), NEW n \in Nodes, NEW x \in Subtree(h, n), x # n
  PROVE  x \in Nodes /\ h.parent[x] # NULL
<1>1. x \in Nodes /\ n \in Line(h.parent, h.parent[x])
  BY SubtreeLines DEF Subtree, Heaps
<1>2. h.parent \in Pointers
  BY SubtreeLines
<1>. QED BY <1>1, <1>2, LineUnfolds

(* Inserting a node before itself gives it the owner of s. *)
LEMMA insertBeforeItselfSafe ==
  ASSUME Safe(heap), Uses = {}, NEW s \in Nodes, NEW n \in Nodes, insertBeforeItself(s, n)
  PROVE  Safe(heap')
<1>. PICK to : to = PmmOWNERPO(heap, s)
  OBVIOUS
<1>. PICK g : g = PmmNodeToSv(heap, n, to)
  OBVIOUS
<1>. PICK out : out = PmmFixOwner(g, n, to)
  OBVIOUS
<1>1. /\ Return(out, n) /\ heap.parent[n] = s /\ Held(s) /\ Held(n)
      /\ s \notin Frags \/ heap.owner[s] = NULL
  BY DEF insertBeforeItself, KeepsTree
<1>2. /\ Sound(heap) /\ Pending(heap, {}, {}, {}) /\ heap \in Heaps /\ Stable(heap, {}, {})
      /\ heap.parent \in Pointers /\ Grounded(heap.parent) /\ Treed(heap) /\ Cased(heap)
      /\ s \in heap.alloc /\ n \in heap.alloc /\ s \in heap.live /\ n \in heap.live
      /\ {} \in SUBSET Attrs /\ heap.owner \in Pointers /\ Grounded(heap.owner)
      /\ s \notin Attrs /\ n \notin Docs \cup Frags /\ s # NULL /\ {n} \in SUBSET Nodes
      /\ heap.live \subseteq Nodes
  <2>1. Sound(heap) /\ Stable(heap, {}, {}) /\ Pending(heap, {}, {}, {})
    BY SafeFacts
  <2>2. \A q \in Docs \cup Frags : heap.parent[q] = NULL
    BY <2>1, StableFacts
  <2>3. \A q \in Nodes : heap.parent[q] \notin Attrs
    BY <2>1, StableFacts
  <2>. QED BY <1>1, <2>1, <2>2, <2>3, StableFacts, HeldFacts DEF Stable
<1>3. /\ to \in heap.live \ Attrs /\ Keeps(heap.parent, heap.owner, to, s)
  BY <1>1, <1>2, KeepsOwner
<1>4. Relinked(heap, heap, {n}, s)
  <2>1. heap.doc[n] = heap.doc[s] /\ SameProxies(heap, heap)
    BY <1>1, <1>2 DEF Treed, SameProxies
  <2>2. IsMove(heap.parent, {n}, s, heap.parent)
    BY <1>1, <1>2 DEF IsMove
  <2>. QED BY <1>2, <2>1, <2>2, RelinkHere
<1>5. n \notin Line(heap.parent, s)
  BY <1>1, <1>2, LineUnfolds
<1>6. Placeable(heap, {n}, s)
  <2>1. n \in Elems \cup Attrs
    BY <1>2 DEF Nodes
  <2>2. n \in Attrs => s \in Elems
    BY <1>1, <1>2 DEF Treed
  <2>3. s \in Frags => heap.owner[s] = heap.doc[s]
    BY <1>1, <1>2 DEF Cased
  <2>. QED BY <1>1, <1>2, <1>5, <2>1, <2>2, <2>3 DEF Placeable, Apart
<1>7. to # n
  <2>. SUFFICES ASSUME to = n PROVE FALSE
    OBVIOUS
  <2>1. Line(Passing(heap.owner), n) = {n}
    BY <1>2, PassingFacts
  <2>. QED BY <1>3, <1>5, <2>1 DEF Keeps
<1>8. Receiving(heap, {n}, n, to, s) /\ Moving(heap, {}, {n}, s, heap)
  BY <1>1, <1>2, <1>3, <1>4, <1>5, <1>6, <1>7, LineFacts DEF Receiving, Entering, Moving
<1>9. /\ Sound(g) /\ g.parent = heap.parent /\ g.live = heap.live /\ g.owner = heap.owner
      /\ g.handles[n] > 0
  <2>1. Sound(g)
    BY <1>2, <1>3, NodeToSvSound
  <2>2. SameShape(heap, g) /\ Holding(heap, g, n)
    BY <1>2, <1>3, <2>1, NodeToSvAgain
  <2>. QED BY <2>1, <2>2 DEF SameShape, Holding
<1>10. FixedBelow(g, out, {n}, n, to)
  <2>. SUFFICES ASSUME NEW x \in out.live \cap Subtree(out, n) PROVE Anchored(g.parent, g.owner, x)
    BY DEF FixedBelow
  <2>1. /\ Settled(g, out) /\ out \in Heaps /\ Grounded(out.parent)
        /\ \A y \in Nodes : out.parent[y] \in {g.parent[y], NULL}
    BY <1>2, <1>3, <1>9, FixOwnerLinks
  <2>2. x \in heap.live
    BY <1>9, <2>1 DEF Settled
  <2>3. heap.parent[x] # NULL
    BY <1>1, <1>2, <1>9, <2>1, BelowLinked
  <2>. QED BY <1>9, <2>2, <2>3 DEF Safe, Owned
<1>11. Pending(out, {} \ {n}, {}, {}) /\ Holding(heap, out, n)
  BY <1>3, <1>8, <1>10, PlaceHeld
<1>12. {} \ {n} = {}
  OBVIOUS
<1>. QED BY <1>1, <1>11, <1>12, SafeIsPending, ReturnSafe DEF Holding

(* insertBefore and insertAfter, where the first node may not have a proxy. *)
LEMMA insertBeforeSafe ==
  ASSUME Safe(heap), Uses = {}, NEW s \in Nodes, NEW n \in Nodes, NEW x, NEW first \in Nodes,
         insertBefore(s, n, x, first)
  PROVE  Safe(heap')
<1>. PICK to : to = PmmOWNERPO(heap, s)
  OBVIOUS
<1>. PICK M : M = Moved(heap, n)
  OBVIOUS
<1>. PICK h1 : h1 = Graft(heap, s, n)
  OBVIOUS
<1>. PICK g : g = PmmNodeToSv(h1, first, to)
  OBVIOUS
<1>. PICK out : out = PmmFixOwner(g, first, to)
  OBVIOUS
<1>. DEFINE F == heap.parent
            O == heap.owner
<1>1. /\ OwnersFollow(M, first, to, s) /\ Return(out, first)
      /\ HierarchyOK(heap, s, n) /\ FragmentOK(n) /\ FragmentOK(s)
      /\ first \in IF M = {} THEN {n} ELSE M
      /\ s \notin Frags \/ O[s] = NULL
      /\ n # s /\ s \notin Attrs /\ Held(s) /\ Held(n)
  <2>. DEFINE lost == x = NULL /\ Kids(heap, s) = {n}
  <2>1. ~lost
    BY DEF insertBefore
  <2>2. out = PmmFixOwner(PmmNodeToSv(IF lost THEN Unlink(heap, n) ELSE Graft(heap, s, n), first, to), first, to)
    BY <2>1
  <2>3. OwnersFollow(M, first, to, s) /\ Return(out, first)
    BY <2>1, <2>2 DEF insertBefore
  <2>. QED BY <2>3 DEF insertBefore, KeepsTree, HierarchyOK
<1>2. /\ Sound(heap) /\ Pending(heap, {}, {}, {}) /\ heap \in Heaps /\ Stable(heap, {}, {})
      /\ F \in Pointers /\ Grounded(F) /\ O \in Pointers /\ Grounded(O)
      /\ s \in heap.alloc /\ n \in heap.alloc /\ s \in heap.live /\ n \in heap.live
      /\ {} \in SUBSET Attrs /\ heap.live \subseteq Nodes /\ s \in Nodes
      /\ \A d \in Docs \cup Frags : F[d] = NULL /\ d \in Nodes
      /\ \A d \in Docs : O[d] = NULL
      /\ NULL \notin Nodes /\ Line(F, NULL) = {}
  <2>1. Sound(heap) /\ Stable(heap, {}, {}) /\ Pending(heap, {}, {}, {})
    BY SafeFacts
  <2>. QED BY <1>1, <2>1, StableFacts, HeldFacts DEF Stable
<1>3. /\ h1 \in Heaps /\ Relinked(heap, h1, M, s) /\ Placeable(heap, M, s)
      /\ M \in SUBSET Elems /\ n \notin Line(F, s)
      /\ n \in Frags => \A m \in M : F[m] = n
  <2>1. s \in Frags => heap.owner[s] = heap.doc[s]
    BY <1>1 DEF FragmentOK
  <2>. QED BY <1>1, <1>2, <2>1, GraftRelinks
<1>4. M \in SUBSET Nodes /\ M \cap Attrs = {} /\ M \cap Frags = {} /\ M \cap Docs = {}
  BY <1>3, KindFacts, NodesAssumption
<1>5. Sound(h1)
  BY <1>2, <1>3, RelinkSound
<1>6. to \in heap.live \ Attrs /\ Keeps(F, O, to, s)
  BY <1>1, <1>2, KeepsOwner
<1>7. Line(F, s) \cap M = {} /\ s \in Ends
  BY <1>2, <1>3 DEF Placeable, Ends
<1>8. to \notin Frags => to \in Line(F, s)
  <2>1. to \notin Frags => Line(Passing(O), to) = {to}
    BY <1>2, <1>6, PassingFacts
  <2>. QED BY <1>6, <2>1 DEF Keeps
<1>9. first # to
  <2>1. CASE first \in M
    BY <1>4, <1>7, <1>8, <2>1
  <2>2. CASE first = n /\ M = {} /\ to = n
    <3>1. n \in Frags
      BY <2>2 DEF Moved
    <3>2. O[s] = n
      BY <1>1, <2>2 DEF PmmOWNERPO
    <3>3. s \in Subtree(heap, n)
      BY <1>1, <1>2, <3>1, <3>2 DEF FragmentOK, Ownees
    <3>4. n \in Line(F, s)
      BY <1>2, <3>3, SubtreeLines
    <3>. QED BY <1>3, <3>4
  <2>. QED BY <1>1, <2>1, <2>2
<1>10. Moving(heap, {}, M, s, h1)
  BY <1>2, <1>3, <1>4, <1>5 DEF Moving
<1>11. to \in heap.live \cup {NULL}
  BY <1>6
<1>12. {} \ M = {} /\ {} \ {first} = {} /\ {} \ {to} = {} /\ M \cup {} = M /\ {} \ {first, to} = {}
  OBVIOUS
<1>13. CASE first \in heap.live
  <2>1. Entering(heap, M, first)
    <3>1. CASE M = {}
      BY <1>1, <1>2, <3>1, EnteringMoved
    <3>2. CASE M # {}
      BY <1>1, <3>2 DEF Entering
    <3>. QED BY <3>1, <3>2
  <2>2. first # s
    <3>1. s \in Line(F, s)
      BY <1>2, LineFacts
    <3>. QED BY <1>1, <1>7, <3>1
  <2>3. Receiving(heap, M, first, to, s)
    BY <1>4, <1>6, <1>9, <1>13, <2>1, <2>2 DEF Receiving
  <2>4. FixedBelow(g, out, M, first, to)
    BY <1>1, <1>10, <1>11, <2>3, MovedFixed
  <2>5. Pending(out, {} \ M, {}, {}) /\ Holding(h1, out, first)
    BY <1>10, <1>11, <2>3, <2>4, PlaceHeld
  <2>. QED BY <1>1, <1>12, <2>5, SafeIsPending, ReturnSafe DEF Holding
<1>14. CASE first \notin heap.live
  <2>1. first \in M /\ first \notin Frags /\ first \notin Docs /\ first \in Elems
    BY <1>1, <1>2, <1>3, <1>4, <1>14
  <2>2. Pending(h1, {}, {}, M)
    BY <1>10, <1>12, RelinkSafe
  <2>3. /\ h1.live = heap.live /\ h1.owner = O /\ h1.parent \in Pointers
        /\ \A y \in Nodes : h1.parent[y] = IF y \in M THEN s ELSE F[y]
        /\ h1.alloc = heap.alloc
    BY <1>3 DEF Relinked, IsMove
  <2>4. /\ \A y \in Ends : Line(F, y) \cap M = {} => Line(h1.parent, y) = Line(F, y)
        /\ \A y \in Nodes : \A m \in M : m \in Line(F, y) =>
              Line(h1.parent, y) = {z \in Line(F, y) : m \in Line(F, z)} \cup Line(F, s)
        /\ \A y \in Ends : Line(h1.parent, y) \cap M = Line(F, y) \cap M
    <3>1. IsMove(F, M, s, h1.parent) /\ Apart(F, M)
      BY <1>3 DEF Relinked, Placeable
    <3>. QED BY <1>2, <1>4, <1>7, <3>1, RelinkLines
  <2>5. to \in Nodes /\ to \in Ends /\ first \in Ends
    BY <1>2, <1>6 DEF Ends
  <2>6. Line(F, to) \cap M = {}
    <3>1. CASE to \in Frags
      <4>1. Line(F, to) = {to}
        BY <1>2, <2>5, <3>1, LineUnfolds
      <4>. QED BY <1>4, <3>1, <4>1
    <3>2. CASE to \notin Frags
      <4>1. Line(F, to) \subseteq Line(F, s)
        BY <1>2, <1>8, <3>2, LineFacts
      <4>. QED BY <1>7, <4>1
    <3>. QED BY <3>1, <3>2
  <2>7. first \in Line(F, first)
    BY <1>2, LineFacts
  <2>8. h1.parent[first] = s /\ first \in Line(h1.parent, first)
    BY <2>1, <2>3, <2>4, <2>5, <2>7
  <2>9. Ownable(h1, M, first, to)
    BY <1>2, <1>6, <2>1, <2>3, <2>4, <2>5, <2>6, <2>8 DEF Ownable
  <2>10. WithMemory(h1, h1, first)
    <3>1. first \in h1.alloc
      BY <1>3, <2>1, <2>3 DEF Placeable
    <3>. QED BY <1>3, <2>1, <3>1 DEF WithMemory, SameProxies
  <2>11. Sound(g)
    BY <1>5, <1>6, <2>3, NodeToSvSound
  <2>12. /\ Pending(g, {} \ {first}, {} \ {first, to}, M) /\ Proxied(h1, g, first, to)
         /\ Holding(h1, g, first)
    <3>1. first \in Nodes \ h1.live
      BY <1>14, <2>3
    <3>. QED BY <1>4, <2>2, <2>9, <2>10, <2>11, <3>1, NodeToSvNew
  <2>13. /\ g.live = heap.live \cup {first} /\ g.parent = h1.parent
         /\ IsMove(O, {first}, to, g.owner) /\ g.owner \in Pointers
         /\ \A y \in Nodes : g.owner[y] = IF y = first THEN to ELSE O[y]
    BY <2>3, <2>12 DEF Proxied, IsMove
  <2>14. Keeps(g.parent, g.owner, to, s)
    <3>1. Line(Passing(O), to) \subseteq Nodes
      BY <1>2, <2>5, PassingFacts
    <3>2. \A v \in Line(Passing(O), to) \cap Frags : g.owner[v] = O[v]
      BY <2>1, <2>13, <3>1
    <3>3. Grounded(g.owner)
      BY <2>12, StableFacts DEF Pending
    <3>4. Line(Passing(g.owner), to) = Line(Passing(O), to)
      BY <1>2, <2>5, <2>13, <3>2, <3>3, PassingAgrees
    <3>5. Line(h1.parent, s) = Line(F, s)
      BY <1>7, <2>4
    <3>. QED BY <1>6, <2>13, <3>4, <3>5 DEF Keeps
  <2>15. Placing(g, M, {}, first, to, s)
    <3>1. \A m \in M : g.parent[m] = s
      BY <1>4, <2>3, <2>13
    <3>2. s \in Frags => g.owner[s] \in Docs \cup {NULL}
      <4>1. s # first
        BY <1>4, <2>1, <2>8, <2>7, <1>2, <1>7, LineFacts
      <4>. QED BY <1>1, <1>2, <2>13, <4>1
    <3>3. Line(g.parent, s) \cap (M \cup {}) = {}
      BY <1>7, <2>4, <2>13
    <3>. QED BY <1>1, <1>4, <1>6, <1>9, <2>1, <2>14, <3>1, <3>2, <3>3 DEF Placing
  <2>16. Pending(out, {}, {} \ {to}, {}) /\ Placed(g, M, first, out)
    <3>1. /\ first \in g.live /\ to \in g.live /\ {} \in SUBSET Nodes /\ Watched(g, out, {})
          /\ g.owner[first] = to /\ g.handles[first] > 0
      BY <1>6, <2>12, <2>13 DEF Watched, Holding
    <3>2. Pending(g, {}, {}, M \cup {})
      BY <1>12, <2>12
    <3>3. Carried(heap, g, M, first, to, s)
      <4>1. g.live \subseteq Nodes
        BY <1>2, <2>13
      <4>2. \A y \in g.live : \/ y \in heap.live /\ g.owner[y] = heap.owner[y]
                              \/ y = first /\ first \notin heap.live /\ g.owner[y] = to
        BY <1>2, <1>14, <2>13
      <4>3. g.parent = h1.parent
        BY <2>13
      <4>. HIDE DEF F, O
      <4>. QED BY <1>10, <4>1, <4>2, <4>3, CarriedMoved
    <3>4. FixedBelow(g, out, M, first, to)
      BY <1>1, <1>2, <1>4, <2>15, <3>1, <3>2, <3>3, FollowFixed
    <3>. QED BY <1>2, <1>4, <2>15, <3>1, <3>2, <3>4, FixOwnerPending
  <2>17. Safe(out) /\ out.handles[first] > 0
    BY <1>12, <2>12, <2>16, SafeIsPending DEF Placed, Holding
  <2>. QED BY <1>1, <2>17, ReturnSafe
<1>. QED BY <1>13, <1>14

-----------------------------------------------------------------------------
(* Attributes. *)

(* Nothing is below an attribute. *)
LEMMA AttributeAlone ==
  ASSUME NEW h \in Heaps, Grounded(h.parent), \A q \in Nodes : h.parent[q] \notin Attrs,
         NEW a \in Attrs
  PROVE  /\ \A x \in Ends : a \in Line(h.parent, x) => x = a
         /\ \A x \in Subtree(h, a) : x = a
         /\ a \in h.alloc => Subtree(h, a) = {a}
         /\ Below(h, a) = {}
<1>1. /\ h.parent \in Pointers /\ a \in Nodes /\ h.alloc \subseteq Nodes
      /\ Subtree(h, a) = {m \in h.alloc : a \in Line(h.parent, m)}
  BY SubtreeLines, KindFacts DEF Heaps
<1>2. ASSUME NEW x \in Ends, a \in Line(h.parent, x), x # a PROVE FALSE
  <2>1. x \in Nodes
    BY <1>1, <1>2, LineUnfolds DEF Ends
  <2>2. PICK y \in Line(h.parent, x) : h.parent[y] = a
    BY <1>1, <1>2, <2>1, LineChild
  <2>. QED BY <1>1, <2>1, <2>2, LineFacts
<1>3. \A x \in h.alloc : x \in Ends
  BY <1>1 DEF Ends
<1>4. a \in Line(h.parent, a)
  BY <1>1, LineFacts
<1>5. Below(h, a) = {}
  BY <1>1 DEF Below
<1>. QED BY <1>1, <1>2, <1>3, <1>4, <1>5

(* An attribute without a proxy is freed. *)
LEMMA FreedAttribute ==
  ASSUME NEW h, Safe(h), NEW S, S \cap Nodes \subseteq Attrs \ h.live, NEW r, r = xmlFreed(h, S)
  PROVE  /\ Safe(r) /\ r \in Heaps /\ SameProxies(h, r) /\ r.alloc = h.alloc \ S
         /\ \A x \in Nodes \ S : r.parent[x] = h.parent[x] /\ r.doc[x] = h.doc[x]
<1>1. /\ h \in Heaps /\ Sound(h) /\ Stable(h, {}, {}) /\ h.parent \in Pointers /\ Grounded(h.parent)
      /\ NULL \notin Nodes /\ h.alloc \subseteq Nodes /\ h.live \subseteq h.alloc
      /\ \A q \in Nodes : h.parent[q] \notin Attrs
      /\ \A q \in Nodes : h.parent[q] \in Ends
  BY SafeFacts, StableFacts
<1>0. Treed(h) /\ Homed(h, {}) /\ Cased(h) /\ Wanted(h, {})
  BY <1>1 DEF Stable
<1>2. /\ r \in Heaps /\ Sound(r) /\ SameProxies(h, r) /\ r.alloc = h.alloc \ S
      /\ \A x \in Nodes : r.parent[x] = IF x \in S THEN NULL ELSE h.parent[x]
      /\ \A x \in Nodes : r.doc[x] = IF x \in S THEN NULL ELSE h.doc[x]
  <2>1. r \in Heaps /\ Sound(r) /\ SameProxies(h, r)
    BY <1>1, FreedSound DEF Sound, Counted
  <2>. QED BY Zenon, <1>1, <2>1 DEF xmlFreed, Heaps
<1>3. \A x \in Nodes : h.parent[x] # NULL => h.parent[x] \notin S
  BY <1>1 DEF Ends
<1>4. \A q \in Docs \cup Frags \cup Elems : q \notin S
  BY NodesAssumption DEF Nodes
<1>5. Grounded(r.parent) /\ r.parent \in Pointers
  <2>1. \A x \in Nodes : r.parent[x] \in {h.parent[x], NULL}
    BY <1>2
  <2>. QED BY <1>1, <1>2, <2>1 DEF Grounded, Rooted, Heaps, Pointers, Ends
<1>6. Treed(r)
  <2>1. \A n \in Nodes : r.parent[n] # NULL =>
          n \in r.alloc /\ r.parent[n] \in r.alloc /\ r.doc[n] = r.doc[r.parent[n]]
    <3>. SUFFICES ASSUME NEW n \in Nodes, r.parent[n] # NULL
                  PROVE  n \in r.alloc /\ r.parent[n] \in r.alloc /\ r.doc[n] = r.doc[r.parent[n]]
      OBVIOUS
    <3>1. n \notin S /\ r.parent[n] = h.parent[n] /\ h.parent[n] \notin S
      BY <1>2, <1>3
    <3>2. n \in h.alloc /\ h.parent[n] \in h.alloc /\ h.doc[n] = h.doc[h.parent[n]]
      BY <1>0, <3>1 DEF Treed
    <3>. QED BY <1>1, <1>2, <3>1, <3>2
  <2>2. \A f \in Frags : r.parent[f] = NULL
    BY <1>0, <1>2, KindFacts DEF Treed
  <2>3. \A a \in Attrs : r.parent[a] \in Elems \cup {NULL}
    BY <1>0, <1>2, KindFacts DEF Treed
  <2>4. \A d \in Docs \cap r.alloc : r.doc[d] = d
    BY <1>0, <1>1, <1>2, KindFacts DEF Treed
  <2>. QED BY <1>5, <2>1, <2>2, <2>3, <2>4 DEF Treed
<1>7. Homed(r, {})
  BY <1>0, <1>1, <1>2 DEF Homed, SameProxies
<1>8. Cased(r)
  <2>1. r.live \subseteq r.alloc
    BY <1>1, <1>2 DEF SameProxies
  <2>2. \A n \in Nodes : r.parent[n] \in Frags => r.owner[r.parent[n]] = r.doc[r.parent[n]]
    <3>. SUFFICES ASSUME NEW n \in Nodes, r.parent[n] \in Frags
                  PROVE  r.owner[r.parent[n]] = r.doc[r.parent[n]]
      OBVIOUS
    <3>1. r.parent[n] = h.parent[n] /\ h.parent[n] \in Nodes /\ h.parent[n] \notin S
      BY <1>2, <1>4, KindFacts
    <3>2. h.owner[h.parent[n]] = h.doc[h.parent[n]]
      BY <1>0, <3>1 DEF Cased
    <3>. QED BY <1>2, <3>1, <3>2 DEF SameProxies
  <2>. QED BY <1>0, <1>1, <1>2, <2>1, <2>2 DEF Cased, SameProxies
<1>9. Wanted(r, {})
  BY <1>0, <1>2 DEF Wanted, SameProxies
<1>10. Owned(r)
  <2>. SUFFICES ASSUME NEW x \in r.live, r.parent[x] # NULL PROVE Anchored(r.parent, r.owner, x)
    BY DEF Owned
  <2>1. x \in h.live /\ x \in Nodes /\ r.parent[x] = h.parent[x] /\ r.owner = h.owner
        /\ h.parent[x] \in Nodes
    BY <1>1, <1>2 DEF SameProxies, Ends
  <2>2. \A y \in Line(h.parent, h.parent[x]) : y \in Nodes /\ y \notin S
    <3>. SUFFICES ASSUME NEW y \in Line(h.parent, h.parent[x]), y \in S PROVE FALSE
      BY <1>1, <2>1, LineFacts
    <3>1. y \in Attrs
      BY <1>1, <2>1, LineFacts
    <3>2. h.parent[x] = y
      BY <1>1, <2>1, <3>1, AttributeAlone DEF Ends
    <3>. QED BY <1>1, <2>1, <3>1, <3>2
  <2>3. Line(r.parent, h.parent[x]) = Line(h.parent, h.parent[x])
    BY <1>1, <1>2, <1>5, <2>1, <2>2, LineAgrees
  <2>4. Anchored(h.parent, h.owner, x)
    BY <2>1 DEF Safe, Owned
  <2>. QED BY <2>1, <2>3, <2>4 DEF Anchored, Keeps
<1>11. \A x \in Nodes \ S : r.parent[x] = h.parent[x] /\ r.doc[x] = h.doc[x]
  BY <1>2
<1>. QED BY <1>2, <1>6, <1>7, <1>8, <1>9, <1>10, <1>11 DEF Safe, Stable

(* PmmFixOwner of an attribute that was given a place: it has its owner. *)
LEMMA FixedAttribute ==
  ASSUME NEW g, Sound(g), Grounded(g.parent), NEW a \in Attrs \cap g.live, g.handles[a] > 0,
         a \in g.alloc, NEW p \in g.live, p # a, NEW out, out = PmmFixOwner(g, a, p), NEW h
  PROVE  FixedBelow(h, out, {a}, a, p)
<1>1. /\ Settled(g, out) /\ out \in Heaps /\ Grounded(out.parent)
  BY FixOwnerLinks
<1>2. \A x \in Subtree(out, a) : x = a
  <2>1. \A q \in Nodes : out.parent[q] \notin Attrs
    BY <1>1 DEF Settled, Sound, Planted
  <2>. QED BY <1>1, <2>1, AttributeAlone
<1>3. a \in out.live => out.owner[a] = p
  <2>1. CASE g.owner[a] = p
    BY <2>1 DEF PmmFixOwner
  <2>2. CASE g.owner[a] # p
    <3>1. a \in g.live \ Docs /\ g \in Heaps /\ (\A q \in Nodes : g.parent[q] \notin Attrs) /\ a \in Attrs
          /\ p \in Nodes /\ a \in Nodes
      BY NodesAssumption DEF Sound, Counted, Planted, Heaps
    <3>2. Below(g, a) = {} /\ Subtree(g, a) = {a}
      BY <3>1, AttributeAlone
    <3>. PICK S : S = FixSet(g, a, p)
      OBVIOUS
    <3>3. out = Reown(g, S, p)
      BY <2>2, <3>1, <3>2, FixOwnerIs
    <3>4. S = {a}
      <4>1. Ancestors(g, a) \cap {a} = {}
        BY <3>1, SubtreeLines
      <4>2. Reached(g, {a}, p) = {a}
        BY <2>2, <3>1, <3>2, <4>1 DEF Reached
      <4>. QED BY <4>2 DEF FixSet
    <3>5. Sound(g) /\ S \in SUBSET g.live /\ p \in g.live \cup {NULL} /\ p \notin S
      BY <3>4
    <3>6. /\ \A q \in Reown(g, S, p).live :
               /\ Reown(g, S, p).owner[q] = Given(g, S, p)[q]
               /\ Given(g, S, p)[q] \in Reown(g, S, p).live \cup {NULL}
          /\ Reown(g, S, p).live \subseteq g.live /\ Reown(g, S, p).handles = g.handles
      BY ONLY <3>5, ReownOwners, Zenon
    <3>. QED BY <3>1, <3>3, <3>4, <3>6 DEF Given
  <2>. QED BY <2>1, <2>2
<1>. QED BY <1>2, <1>3 DEF FixedBelow

(* An attribute is a tree of its own: to place it below an element is a
   move that the element can receive. *)
LEMMA AttributeMoves ==
  ASSUME NEW h, NEW L \in SUBSET Attrs, Pending(h, L, {}, {}), NEW a \in Attrs \cap h.live,
         NEW s \in Elems \cap h.live, NEW h1, AttributePlaced(h, a, s, h1)
  PROVE  Moving(h, L, {a}, s, h1) /\ Receiving(h, {a}, a, s, s)
<1>1. /\ h \in Heaps /\ Sound(h) /\ Treed(h) /\ h.parent \in Pointers /\ Grounded(h.parent)
      /\ h.owner \in Pointers /\ Grounded(h.owner)
      /\ h.live \subseteq h.alloc /\ h.alloc \subseteq Nodes
      /\ \A q \in Nodes : h.parent[q] \notin Attrs
  BY StableFacts DEF Pending, Stable
<1>2. /\ a \in h.alloc /\ s \in h.alloc /\ a \in Nodes /\ s \in Nodes /\ a # s /\ s \notin Attrs
      /\ a \in Ends /\ s \in Ends /\ {a} \in SUBSET Nodes /\ s \notin Frags
  BY <1>1, NodesAssumption DEF Ends
<1>3. a \notin Line(h.parent, s) /\ a \notin Line(h.parent, h.parent[a])
  BY <1>1, <1>2, AttributeAlone, LineUnfolds
<1>4. Placeable(h, {a}, s)
  BY <1>1, <1>2, <1>3 DEF Placeable, Apart
<1>5. Subtree(h, a) = {a}
  BY <1>1, <1>2, AttributeAlone
<1>6. Relinked(h, h1, {a}, s)
  <2>1. IsMove(h.parent, {a}, s, h1.parent)
    BY <1>2 DEF AttributePlaced, IsMove, Heaps, Pointers, Ends
  <2>2. \A x \in Nodes : h1.doc[x] = IF x \in Subtree(h, a) THEN h.doc[s] ELSE h.doc[x]
    BY <1>5 DEF AttributePlaced
  <2>3. SameProxies(h, h1) /\ h1.alloc = h.alloc
    BY DEF AttributePlaced
  <2>. QED BY <1>1, <1>2, <2>1, <2>2, <2>3, RelinkOne
<1>7. h1 \in Heaps
  BY DEF AttributePlaced
<1>8. Sound(h1)
  BY <1>1, <1>4, <1>6, <1>7, RelinkSound
<1>9. Keeps(h.parent, h.owner, s, s)
  BY <1>1, <1>2, LineFacts, PassingFacts DEF Keeps
<1>10. Moving(h, L, {a}, s, h1)
  BY <1>2, <1>4, <1>6, <1>8 DEF Moving
<1>. QED BY <1>2, <1>9, <1>10 DEF Receiving, Entering

(* addChild of an attribute (LibXML.xs), which frees the attribute of that
   name the element had, keeps the memory safe. *)
LEMMA addChildAttributeSafe ==
  ASSUME Safe(heap), Uses = {}, NEW s \in Nodes, NEW n \in Nodes, NEW old,
         addChildAttribute(s, n, old)
  PROVE  Safe(heap')
<1>. PICK o : o = PmmOWNERPO(heap, s)
  OBVIOUS
<1>. PICK h0 : h0 = xmlFreed(heap, {old})
  OBVIOUS
<1>. PICK h1 : h1 = AddChild(xmlFreed(SetTreeDoc(Unlink(heap, n), n, heap.doc[s]), {old}), s, n)
  OBVIOUS
<1>. PICK g : g = PmmNodeToSv(h1, n, o)
  OBVIOUS
<1>. PICK out : out = PmmFixOwner(g, n, s)
  OBVIOUS
<1>1. /\ Return(out, n) /\ s \in Elems /\ n \in Attrs /\ old # n
      /\ old \in Attrs \cup {NULL} /\ old \notin heap.live /\ Held(s) /\ Held(n)
  BY NodesAssumption DEF addChildAttribute, Props, Nodes
<1>2. /\ Sound(heap) /\ heap \in Heaps /\ Treed(heap) /\ s \in heap.live /\ n \in heap.live
      /\ n \in heap.alloc /\ Grounded(heap.parent) /\ heap.live \subseteq heap.alloc
      /\ heap.alloc \subseteq Nodes
      /\ \A q \in Nodes : heap.parent[q] \notin Attrs
  <2>1. Sound(heap) /\ Stable(heap, {}, {})
    BY SafeFacts
  <2>. QED BY <1>1, <2>1, StableFacts, HeldFacts DEF Stable
<1>3. /\ Safe(h0) /\ h0 \in Heaps /\ SameProxies(heap, h0) /\ h0.alloc = heap.alloc \ {old}
      /\ \A x \in Nodes \ {old} : h0.parent[x] = heap.parent[x] /\ h0.doc[x] = heap.doc[x]
  <2>1. {old} \cap Nodes \subseteq Attrs \ heap.live
    BY <1>1, KindFacts
  <2>. QED BY <2>1, FreedAttribute
<1>4. AttributePlaced(h0, n, s, h1)
  <2>. PICK u : u = Unlink(heap, n)
    OBVIOUS
  <2>1. u \in Heaps /\ u.alloc = heap.alloc /\ Subtree(u, n) = {n} /\ u.doc = heap.doc
        /\ SameProxies(heap, u) /\ IsMove(heap.parent, {n}, NULL, u.parent)
    <3>1. Subtree(heap, n) = {n}
      BY <1>1, <1>2, AttributeAlone
    <3>. QED BY <1>2, <3>1, UnlinkLines
  <2>2. heap.doc[s] \in Docs \cup {NULL} /\ s \in Nodes \cup {NULL}
    BY <1>2 DEF Heaps
  <2>. PICK t : t = SetTreeDoc(u, n, heap.doc[s])
    OBVIOUS
  <2>3. /\ t \in Heaps /\ t.alloc = heap.alloc /\ SameProxies(heap, t) /\ t.parent = u.parent
        /\ \A x \in Nodes : t.doc[x] = IF x = n THEN heap.doc[s] ELSE heap.doc[x]
    BY <2>1, <2>2 DEF SetTreeDoc, Heaps, SameProxies
  <2>4. h1 = AddChild(xmlFreed(t, {old}), s, n)
    OBVIOUS
  <2>5. s # old /\ n # old
    BY <1>1, NodesAssumption, KindFacts
  <2>6. h1 \in Heaps /\ SameProxies(heap, h1) /\ h1.alloc = heap.alloc \ {old}
    <3>. PICK v : v = xmlFreed(t, {old})
      OBVIOUS
    <3>1. v \in Heaps /\ SameProxies(heap, v) /\ v.alloc = heap.alloc \ {old}
      BY ZenonT(60), <2>3 DEF xmlFreed, Heaps, SameProxies
    <3>2. h1 = AddChild(v, s, n)
      BY <2>4
    <3>3. h1 = [v EXCEPT !.parent = [v.parent EXCEPT ![n] = s]]
      BY <3>1, <3>2 DEF AddChild, Heaps
    <3>4. [v.parent EXCEPT ![n] = s] \in [Nodes -> Nodes \cup {NULL}]
      BY <3>1 DEF Heaps
    <3>. QED BY Zenon, <3>1, <3>3, <3>4 DEF Heaps, SameProxies
  <2>7. \A x \in Nodes : h1.parent[x] = IF x = n THEN s ELSE IF x = old THEN NULL ELSE heap.parent[x]
    BY SMTT(30), <2>1, <2>2, <2>3, <2>4 DEF AddChild, xmlFreed, Heaps, IsMove
  <2>8. \A x \in Nodes : h1.doc[x] = IF x = old THEN NULL ELSE IF x = n THEN heap.doc[s] ELSE heap.doc[x]
    BY <2>2, <2>3, <2>4 DEF AddChild, xmlFreed, Heaps
  <2>9. \A x \in Nodes : x = old => h0.parent[x] = NULL /\ h0.doc[x] = NULL
    BY <1>2 DEF xmlFreed, Heaps
  <2>. QED BY ZenonT(60), <1>3, <2>5, <2>6, <2>7, <2>8, <2>9 DEF AttributePlaced, SameProxies
<1>5. h0.live = heap.live /\ Pending(h0, {}, {}, {}) /\ {} \in SUBSET Attrs
  BY <1>3, SafeFacts DEF SameProxies
<1>6. Moving(h0, {}, {n}, s, h1) /\ Receiving(h0, {n}, n, s, s)
  BY <1>1, <1>2, <1>4, <1>5, AttributeMoves
<1>7. o \in h0.live \cup {NULL}
  BY <1>2, <1>5, OwnerLive
<1>8. FixedBelow(g, out, {n}, n, s)
  <2>1. h1.live = heap.live /\ Sound(h1) /\ n \in h1.live /\ h1.alloc = h0.alloc
    BY <1>2, <1>4, <1>5, <1>6 DEF AttributePlaced, SameProxies, Moving
  <2>5. Sound(g)
    BY <1>5, <1>7, <2>1, NodeToSvSound
  <2>6. Pending(h1, {} \ {n}, {}, {n} \cup {})
    BY <1>6, RelinkSafe
  <2>7. SameShape(h1, g) /\ Holding(h1, g, n)
    <3>1. o \in Nodes \cup {NULL}
      BY <1>2, <1>5, <1>7
    <3>. QED BY <2>1, <2>5, <2>6, <3>1, NodeToSvAgain
  <2>2. /\ g.live = h1.live /\ g.alloc = h1.alloc /\ g.parent = h1.parent /\ g.handles[n] > 0
    BY <2>7 DEF SameShape, Holding
  <2>3. Grounded(g.parent)
    BY <2>2, <2>6, StableFacts DEF Pending
  <2>4. n \in h0.alloc /\ s # n
    BY <1>1, <1>2, <1>3, NodesAssumption
  <2>. QED BY <1>1, <1>2, <1>5, <2>1, <2>2, <2>3, <2>4, <2>5, FixedAttribute
<1>9. Pending(out, {} \ {n}, {}, {}) /\ Holding(h1, out, n)
  BY <1>6, <1>7, <1>8, PlaceHeld
<1>10. {} \ {n} = {}
  OBVIOUS
<1>. QED BY <1>1, <1>9, <1>10, SafeIsPending, ReturnSafe DEF Holding

(* Only a node with an owner is anchored by it. *)
LEMMA AnchoredOwned ==
  ASSUME NEW F, NEW G \in Pointers, Grounded(G), NEW x, Anchored(F, G, x)
  PROVE  G[x] # NULL
<1>1. Passing(G) \in Pointers
  BY DEF Passing, Pointers, Ends
<1>2. Grounded(Passing(G))
  <2>. SUFFICES ASSUME NEW X \in SUBSET Nodes, X # {}, \A y \in X : Passing(G)[y] \in X
                PROVE  FALSE
    BY DEF Grounded, Rooted
  <2>1. \A y \in X : G[y] \in X
    BY SizeFacts DEF Passing
  <2>. QED BY <2>1 DEF Grounded, Rooted
<1>3. Line(Passing(G), NULL) = {}
  BY <1>1, <1>2, LineUnfolds
<1>. QED BY <1>3 DEF Anchored, Keeps

(* An owner that is given keeps the owners grounded. *)
LEMMA GivenGrounded ==
  ASSUME NEW h \in Heaps, Grounded(h.owner), NEW S, NEW p \in Ends, Line(h.owner, p) \cap S = {}
  PROVE  Given(h, S, p) \in Pointers /\ Grounded(Given(h, S, p))
<1>1. IsMove(h.owner, S, p, Given(h, S, p)) /\ h.owner \in Pointers
  BY DEF Given, IsMove, Heaps, Pointers, Ends
<1>. QED BY <1>1, MoveGrounded DEF IsMove

(* A Reown after which every proxy has the owner its tree asks for leaves
   the memory safe, and p is then owned. *)
LEMMA ReownOwned ==
  ASSUME NEW h, NEW L, NEW E, Stable(h, L, E), NEW S, NEW p, Reowning(h, S, p),
         NEW r, r = Reown(h, S, p)
  PROVE  /\ Stable(r, L, IF S = {} THEN E ELSE E \ {p}) /\ Owned(r)
         /\ Trimmed(h, Given(h, S, p), r)
<1>. PICK G : G = Given(h, S, p)
  OBVIOUS
<1>1. /\ S \in SUBSET (h.live \ Docs) /\ S \in SUBSET h.live /\ p \in h.live \cup {NULL} /\ p \notin Attrs
      /\ Line(h.owner, p) \cap S = {}
      /\ \A m \in Nodes : h.parent[m] \notin Frags \cap S
      /\ \A x \in h.live : h.parent[x] # NULL => Anchored(h.parent, G, x)
  BY DEF Reowning
<1>2. /\ h \in Heaps /\ Grounded(h.owner) /\ p \in Ends /\ Sound(h)
  BY <1>1, StableFacts DEF Ends, Stable
<1>3. G \in Pointers /\ Grounded(G)
  BY <1>1, <1>2, GivenGrounded
<1>4. \A q \in h.live : h.parent[q] # NULL => G[q] # NULL
  BY <1>1, <1>3, AnchoredOwned
<1>5. Settled(h, r)
  BY <1>1, <1>2, ReownSettled
<1>6. Moored(h, G, r.live)
  BY <1>1, <1>5 DEF Moored, Settled
<1>7. /\ Stable(Reown(h, S, p), L, IF S = {} THEN E ELSE E \ {p})
      /\ Trimmed(h, Given(h, S, p), Reown(h, S, p))
  BY <1>1, <1>4, <1>6, ReownSafe
<1>8. Stable(r, L, IF S = {} THEN E ELSE E \ {p}) /\ Trimmed(h, G, r)
  BY <1>7
<1>9. r.live \subseteq h.live /\ r.live \subseteq r.alloc
  BY <1>8, StableFacts DEF Trimmed
<1>10. Owned(r)
  <2>. SUFFICES ASSUME NEW x \in r.live, r.parent[x] # NULL PROVE Anchored(r.parent, r.owner, x)
    BY DEF Owned
  <2>1. x \in h.live /\ r.parent[x] = h.parent[x]
    BY <1>8, <1>9 DEF Trimmed, SameTree
  <2>. QED BY <1>1, <1>8, <2>1 DEF Trimmed
<1>. QED BY <1>8, <1>10

(* An attribute leaves its element. *)
LEMMA AttributeUnlinked ==
  ASSUME NEW h, Safe(h), NEW a \in Attrs \cap h.alloc, NEW u, u = Unlink(h, a),
         NEW L, {a} \ h.live \subseteq L
  PROVE  Pending(u, L, {}, {}) /\ u \in Heaps /\ SameProxies(h, u) /\ u.alloc = h.alloc
<1>1. /\ h \in Heaps /\ Sound(h) /\ Treed(h) /\ Homed(h, {}) /\ Cased(h) /\ Wanted(h, {})
      /\ h.parent \in Pointers /\ Grounded(h.parent)
      /\ h.live \subseteq h.alloc /\ h.alloc \subseteq Nodes /\ a \in Nodes
      /\ \A q \in Nodes : h.parent[q] \notin Attrs
      /\ \A q \in Nodes : h.parent[q] \in Ends /\ NULL \notin Nodes
  BY SafeFacts, StableFacts, KindFacts DEF Stable
<1>2. /\ u \in Heaps /\ SameProxies(h, u) /\ u.alloc = h.alloc /\ u.doc = h.doc
      /\ IsMove(h.parent, {a}, NULL, u.parent) /\ Grounded(u.parent)
      /\ \A x \in Ends : a \notin Line(h.parent, x) => Line(u.parent, x) = Line(h.parent, x)
  BY SMTT(30), <1>1, UnlinkLines
<1>3. \A x \in Nodes : u.parent[x] = IF x = a THEN NULL ELSE h.parent[x]
  BY <1>2 DEF IsMove
<1>4. Sound(u)
  BY <1>1, UnlinkSound
<1>5. Treed(u)
  BY <1>1, <1>2, <1>3, KindFacts DEF Treed
<1>6. Homed(u, L)
  <2>1. a \notin Elems
    BY NodesAssumption
  <2>. QED BY <1>1, <1>2, <1>3, <2>1 DEF Homed, SameProxies
<1>7. Cased(u)
  <2>1. u.live \subseteq u.alloc
    BY <1>1, <1>2 DEF SameProxies
  <2>2. \A n \in Nodes : u.parent[n] \in Frags => u.owner[u.parent[n]] = u.doc[u.parent[n]]
    <3>. SUFFICES ASSUME NEW n \in Nodes, u.parent[n] \in Frags
                  PROVE  u.owner[u.parent[n]] = u.doc[u.parent[n]]
      OBVIOUS
    <3>1. u.parent[n] = h.parent[n] /\ h.parent[n] \in Nodes
      BY <1>1, <1>3, KindFacts
    <3>2. h.owner[h.parent[n]] = h.doc[h.parent[n]]
      BY <1>1, <3>1 DEF Cased
    <3>. QED BY <1>2, <3>1, <3>2 DEF SameProxies
  <2>. QED BY <1>1, <1>2, <2>1, <2>2 DEF Cased, SameProxies
<1>8. Wanted(u, {})
  BY <1>1, <1>2 DEF Wanted, SameProxies
<1>9. OwnedBut(u, {})
  <2>. SUFFICES ASSUME NEW x \in u.live, u.parent[x] # NULL PROVE Anchored(u.parent, u.owner, x)
    BY DEF OwnedBut
  <2>1. x \in h.live /\ x \in Nodes /\ u.parent[x] = h.parent[x] /\ u.owner = h.owner
        /\ h.parent[x] \in Ends /\ h.parent[x] # NULL
    BY <1>1, <1>2, <1>3 DEF SameProxies
  <2>2. a \notin Line(h.parent, h.parent[x])
    BY <1>1, <2>1, AttributeAlone
  <2>3. Line(u.parent, h.parent[x]) = Line(h.parent, h.parent[x])
    BY <1>2, <2>1, <2>2
  <2>4. Anchored(h.parent, h.owner, x)
    BY <2>1 DEF Safe, Owned
  <2>. QED BY <2>1, <2>3, <2>4 DEF Anchored, Keeps
<1>10. Loose(u, {})
  BY DEF Loose
<1>. QED BY <1>2, <1>4, <1>5, <1>6, <1>7, <1>8, <1>9, <1>10 DEF Pending, Stable

(* An attribute outside a tree loses its owner. *)
LEMMA AttributeReleased ==
  ASSUME NEW g, Safe(g), NEW a \in Attrs \cap g.live, g.parent[a] = NULL,
         NEW out, out = PmmFixOwner(g, a, NULL)
  PROVE  Safe(out) /\ out.handles = g.handles
<1>1. CASE g.owner[a] = NULL
  BY <1>1 DEF PmmFixOwner
<1>2. CASE g.owner[a] # NULL
  <2>1. /\ g \in Heaps /\ Sound(g) /\ Stable(g, {}, {}) /\ a \in g.live \ Docs /\ a \in Nodes
        /\ Grounded(g.parent) /\ g.owner \in Pointers /\ Grounded(g.owner)
        /\ \A q \in Nodes : g.parent[q] \notin Attrs
        /\ NULL \notin Nodes /\ Line(g.owner, NULL) = {} /\ a \notin Frags
        /\ g.live \subseteq Nodes /\ NULL \in Ends
    BY SafeFacts, StableFacts, NodesAssumption, KindFacts DEF Ends
  <2>2. Below(g, a) = {}
    BY <2>1, AttributeAlone
  <2>. PICK S : S = {a}
    OBVIOUS
  <2>3. out = Reown(g, S, NULL)
    <3>1. FixSet(g, a, NULL) = S
      BY DEF FixSet
    <3>2. PmmFixOwner(g, a, NULL) = Reown(g, FixSet(g, a, NULL), NULL)
      BY <1>2, <2>1, <2>2, FixOwnerIs
    <3>. QED BY <3>1, <3>2
  <2>4. Reowning(g, S, NULL)
    <3>. PICK G : G = Given(g, S, NULL)
      OBVIOUS
    <3>1. G \in Pointers /\ Grounded(G)
      BY <2>1, GivenGrounded
    <3>2. \A v \in Nodes : v # a => G[v] = g.owner[v]
      BY DEF Given
    <3>3. ASSUME NEW x \in g.live, g.parent[x] # NULL PROVE Anchored(g.parent, G, x)
      <4>1. Anchored(g.parent, g.owner, x)
        BY <3>3 DEF Safe, Owned
      <4>2. g.owner[x] # NULL /\ g.owner[x] \in Nodes /\ G[x] = g.owner[x]
        <5>1. g.owner[x] # NULL
          BY <2>1, <4>1, AnchoredOwned
        <5>. QED BY <2>1, <3>2, <3>3, <5>1 DEF Pointers, Ends
      <4>3. Line(Passing(G), g.owner[x]) = Line(Passing(g.owner), g.owner[x])
        <5>1. Line(Passing(g.owner), g.owner[x]) \subseteq Nodes
          BY <2>1, <4>2, PassingFacts
        <5>2. \A v \in Line(Passing(g.owner), g.owner[x]) \cap Frags : G[v] = g.owner[v]
          BY <2>1, <3>2, <5>1
        <5>. QED BY ZenonT(60), <2>1, <3>1, <4>2, <5>2, PassingAgrees
      <4>. QED BY <4>1, <4>2, <4>3 DEF Anchored, Keeps
    <3>4. S \in SUBSET (g.live \ Docs) /\ NULL \notin Attrs
      BY <2>1, KindFacts
    <3>5. \A m \in Nodes : g.parent[m] \notin Frags \cap S
      BY <2>1
    <3>. QED BY <2>1, <3>3, <3>4, <3>5 DEF Reowning
  <2>5. Stable(out, {}, IF S = {} THEN {} ELSE {} \ {NULL}) /\ Owned(out)
        /\ Trimmed(g, Given(g, S, NULL), out)
    BY <2>1, <2>3, <2>4, ReownOwned
  <2>6. (IF S = {} THEN {} ELSE {} \ {NULL}) = {}
    OBVIOUS
  <2>. QED BY <2>5, <2>6 DEF Safe, Trimmed
<1>. QED BY <1>1, <1>2

(* An attribute outside a tree is given to the program. *)
LEMMA AttributeHandedOut ==
  ASSUME NEW g, NEW a \in Attrs \cap g.alloc, Pending(g, {a} \ g.live, {}, {}), g.parent[a] = NULL,
         NEW out, out = PmmFixOwner(PmmNodeToSv(g, a, NULL), a, NULL)
  PROVE  Safe(out) /\ out.handles[a] > 0
<1>. PICK r : r = PmmNodeToSv(g, a, NULL)
  OBVIOUS
<1>1. g \in Heaps /\ Sound(g) /\ a \in Nodes /\ a \notin Elems /\ a \notin Frags /\ a \notin Docs
      /\ NULL \notin Attrs /\ Stable(g, {a} \ g.live, {})
  BY StableFacts, NodesAssumption, KindFacts DEF Pending, Stable
<1>2. Blessed(g, a, NULL, r)
  BY <1>1, NodeToSvIs
<1>3. a \in r.live /\ r.parent[a] = NULL
  BY <1>2 DEF Blessed
<1>4. Sound(r)
  BY <1>1, NodeToSvSound
<1>5. {a} \ {a} = {} /\ {} \ {a, NULL} = {} /\ {} \ {a} = {}
  OBVIOUS
<1>6. Safe(r) /\ r.handles[a] > 0
  <2>1. CASE a \in g.live
    <3>1. {a} \ g.live = {}
      BY <2>1
    <3>2. Safe(g)
      BY <3>1, SafeIsPending
    <3>3. Safe(r) /\ Holding(g, r, a)
      BY <2>1, <3>2, AgainSafe
    <3>. QED BY <3>3 DEF Holding
  <2>2. CASE a \notin g.live
    <3>. PICK L : L = {a}
      OBVIOUS
    <3>1. {a} \ g.live = L
      BY <2>2
    <3>2. Pending(g, L, {}, {})
      BY <3>1
    <3>3. Ownable(g, {}, a, NULL)
      BY <1>1 DEF Ownable
    <3>4. WithMemory(g, g, a)
      BY <1>1 DEF WithMemory, SameProxies
    <3>5. Pending(r, L \ {a}, {} \ {a, NULL}, {}) /\ Holding(g, r, a)
      <4>1. a \in Nodes \ g.live /\ {} \in SUBSET Nodes
        BY <1>1, <2>2
      <4>. QED BY <1>4, <3>2, <3>3, <3>4, <4>1, NodeToSvNew
    <3>. QED BY <1>5, <3>5, SafeIsPending DEF Holding
  <2>. QED BY <2>1, <2>2
<1>7. Safe(out) /\ out.handles = r.handles
  BY <1>3, <1>6, AttributeReleased
<1>. QED BY <1>6, <1>7

(* removeAttribute (LibXML.xs) keeps the memory safe: an attribute with a
   proxy is unlinked, one without is freed. *)
LEMMA removeAttributeSafe ==
  ASSUME Safe(heap), NEW s \in Nodes, NEW a \in Nodes, removeAttribute(s, a)
  PROVE  Safe(heap')
<1>1. a \in Attrs \cap heap.alloc
  BY DEF removeAttribute, Props, Below
<1>2. CASE a \in heap.live
  <2>. PICK u : u = Unlink(heap, a)
    OBVIOUS
  <2>1. {a} \ heap.live \subseteq {} /\ heap' = PmmFixOwner(u, a, NULL) /\ heap \in Heaps
    BY <1>2, SafeFacts DEF removeAttribute
  <2>2. Pending(u, {}, {}, {}) /\ u \in Heaps /\ SameProxies(heap, u) /\ u.alloc = heap.alloc
    BY <1>1, <2>1, AttributeUnlinked
  <2>3. u.parent[a] = NULL /\ a \in u.live
    BY <1>2, <2>1, <2>2 DEF Unlink, SameProxies, Heaps
  <2>4. Safe(u)
    BY <2>2, SafeIsPending
  <2>. QED BY <1>1, <2>1, <2>3, <2>4, AttributeReleased
<1>3. CASE a \notin heap.live
  <2>1. heap' = xmlFreed(heap, {a}) /\ {a} \cap Nodes \subseteq Attrs \ heap.live
    BY <1>1, <1>3 DEF removeAttribute
  <2>. QED BY <2>1, FreedAttribute
<1>. QED BY <1>2, <1>3

(* removeAttributeNode (LibXML.xs) keeps the memory safe: the attribute is
   then the root of its own tree and has no owner. *)
LEMMA removeAttributeNodeSafe ==
  ASSUME Safe(heap), NEW s \in Nodes, NEW a \in Nodes, removeAttributeNode(s, a)
  PROVE  Safe(heap')
<1>. PICK u : u = Unlink(heap, a)
  OBVIOUS
<1>. PICK out : out = PmmFixOwner(PmmNodeToSv(u, a, NULL), a, NULL)
  OBVIOUS
<1>1. a \in Attrs \cap heap.alloc /\ Return(out, a) /\ heap \in Heaps
  BY SafeFacts DEF removeAttributeNode, Props, Below
<1>2. {a} \ heap.live \subseteq {a} \ heap.live
  OBVIOUS
<1>3. Pending(u, {a} \ heap.live, {}, {}) /\ u \in Heaps /\ SameProxies(heap, u) /\ u.alloc = heap.alloc
  BY <1>1, <1>2, AttributeUnlinked
<1>4. /\ u.parent[a] = NULL /\ a \in Attrs \cap u.alloc
      /\ Pending(u, {a} \ u.live, {}, {})
  BY <1>1, <1>3 DEF Unlink, SameProxies, Heaps
<1>5. Safe(out) /\ out.handles[a] > 0
  BY <1>4, AttributeHandedOut
<1>. QED BY <1>1, <1>5, ReturnSafe

(* An attribute with a proxy is held by the program. *)
LEMMA AttributeHeld ==
  ASSUME NEW h, NEW L, Stable(h, L, {}), NEW a \in Attrs \cap h.live
  PROVE  h.handles[a] > 0
<1>1. h \in Heaps /\ a \in Nodes /\ NULL \notin Nodes /\ h.live \subseteq Nodes
  BY StableFacts, KindFacts
<1>2. h.count[a] > 0 /\ h.count[a] = h.handles[a] + Cardinality(Ownees(h, h.live, a))
  BY <1>1 DEF Stable, Wanted, Sound, Counted
<1>3. Ownees(h, h.live, a) = {}
  <2>1. \A q \in Nodes : h.owner[q] # NULL => h.owner[q] \notin Attrs
    BY DEF Stable, Cased
  <2>. QED BY <1>1, <2>1 DEF Ownees
<1>4. Cardinality(Ownees(h, h.live, a)) = 0
  BY <1>3, FS_EmptySet
<1>. QED BY <1>1, <1>2, <1>4 DEF Heaps

(* setAttributeNode (LibXML.xs) keeps the memory safe, whether or not the
   element had an attribute of that name. *)
LEMMA setAttributeNodeSafe ==
  ASSUME Safe(heap), NEW s \in Nodes, NEW a \in Nodes, NEW old, setAttributeNode(s, a, old)
  PROVE  Safe(heap')
<1>a. PICK u : u = IF old = NULL THEN heap ELSE Unlink(heap, old)
  OBVIOUS
<1>b. PICK there : there = SetTreeDoc(Unlink(heap, a), a, heap.doc[s])
  OBVIOUS
<1>c. PICK h1 : h1 = [there EXCEPT !.parent = [m \in Nodes |-> IF m = a THEN s ELSE IF m = old THEN NULL ELSE there.parent[m]]]
  OBVIOUS
<1>d. PICK set : set = PmmFixOwner(h1, a, s)
  OBVIOUS
<1>e. PICK out : out = PmmFixOwner(PmmNodeToSv(set, old, NULL), old, NULL)
  OBVIOUS
<1>f. PICK L : L = {old} \ (heap.live \cup {NULL})
  OBVIOUS
<1>1. /\ Held(s) /\ Held(a) /\ s \in Elems /\ a \in Attrs /\ old # a
      /\ old \in (Attrs \cap heap.alloc) \cup {NULL}
      /\ IF old = NULL THEN heap' = set ELSE Return(out, old)
  BY <1>a, <1>b, <1>c, <1>d, <1>e, <1>f DEF setAttributeNode, Props, Below
<1>2. /\ Sound(heap) /\ heap \in Heaps /\ Treed(heap) /\ s \in heap.live /\ a \in heap.live
      /\ Stable(heap, {}, {}) /\ a \in heap.alloc /\ Grounded(heap.parent)
      /\ heap.live \subseteq heap.alloc /\ heap.alloc \subseteq Nodes /\ heap.handles[a] > 0
      /\ \A q \in Nodes : heap.parent[q] \notin Attrs
      /\ NULL \notin Nodes
  <2>1. Sound(heap) /\ Stable(heap, {}, {})
    BY SafeFacts
  <2>. QED BY <1>1, <2>1, StableFacts, HeldFacts DEF Stable
<1>3. /\ Pending(u, L, {}, {}) /\ u \in Heaps /\ SameProxies(heap, u) /\ u.alloc = heap.alloc
      /\ u.doc = heap.doc
      /\ \A x \in Nodes : u.parent[x] = IF x = old THEN NULL ELSE heap.parent[x]
  <2>1. CASE old = NULL
    <3>1. L = {} /\ u = heap
      BY <1>a, <1>f, <2>1
    <3>. QED BY <1>2, <2>1, <3>1, SafeFacts DEF SameProxies
  <2>2. CASE old # NULL
    <3>1. {old} \ heap.live \subseteq L /\ old \in Attrs \cap heap.alloc /\ u = Unlink(heap, old)
      BY <1>a, <1>f, <1>1, <2>2
    <3>2. Pending(u, L, {}, {}) /\ u \in Heaps /\ SameProxies(heap, u) /\ u.alloc = heap.alloc
      BY <3>1, AttributeUnlinked
    <3>. QED BY Zenon, <1>2, <3>1, <3>2 DEF Unlink, Heaps
  <2>. QED BY <2>1, <2>2
<1>4. AttributePlaced(u, a, s, h1)
  <2>. PICK v : v = Unlink(heap, a)
    OBVIOUS
  <2>1. v \in Heaps /\ v.alloc = heap.alloc /\ Subtree(v, a) = {a} /\ v.doc = heap.doc
        /\ SameProxies(heap, v) /\ IsMove(heap.parent, {a}, NULL, v.parent)
    <3>1. Subtree(heap, a) = {a}
      BY <1>1, <1>2, AttributeAlone
    <3>. QED BY <1>2, <3>1, UnlinkLines
  <2>2. heap.doc[s] \in Docs \cup {NULL} /\ s \in Nodes \cup {NULL}
    BY <1>2 DEF Heaps
  <2>3. /\ there \in Heaps /\ there.alloc = heap.alloc /\ SameProxies(heap, there)
        /\ there.parent = v.parent
        /\ \A x \in Nodes : there.doc[x] = IF x = a THEN heap.doc[s] ELSE heap.doc[x]
    BY <1>b, <2>1, <2>2 DEF SetTreeDoc, Heaps, SameProxies
  <2>4. /\ h1 \in Heaps /\ SameProxies(heap, h1) /\ h1.alloc = heap.alloc /\ h1.doc = there.doc
        /\ \A x \in Nodes : h1.parent[x] = IF x = a THEN s ELSE IF x = old THEN NULL ELSE there.parent[x]
    <3>1. [m \in Nodes |-> IF m = a THEN s ELSE IF m = old THEN NULL ELSE there.parent[m]]
            \in [Nodes -> Nodes \cup {NULL}]
      BY <2>2, <2>3 DEF Heaps
    <3>. QED BY <1>c, <2>3, <3>1 DEF Heaps, SameProxies
  <2>5. \A x \in Nodes : there.parent[x] = IF x = a THEN NULL ELSE heap.parent[x]
    BY <2>1, <2>3 DEF IsMove
  <2>. QED BY <1>3, <2>3, <2>4, <2>5 DEF AttributePlaced, SameProxies
<1>5. L \in SUBSET Attrs /\ a \in Attrs \cap u.live /\ s \in Elems \cap u.live /\ L \ {a} = L
  BY <1>f, <1>1, <1>2, <1>3 DEF SameProxies
<1>6. Moving(u, L, {a}, s, h1) /\ Receiving(u, {a}, a, s, s)
  BY <1>3, <1>4, <1>5, AttributeMoves
<1>7. Pending(h1, L \ {a}, {}, {a} \cup {})
  BY <1>6, RelinkSafe
<1>8. /\ Sound(h1) /\ Grounded(h1.parent) /\ Wanted(h1, {}) /\ Stable(h1, L, {})
      /\ h1.live = heap.live /\ h1.handles = heap.handles /\ h1.alloc = heap.alloc
      /\ SameShape(h1, h1) /\ Holding(h1, h1, a) /\ s # a
      /\ h1.parent \in Pointers
  <2>1. Stable(h1, L, {})
    BY <1>5, <1>7 DEF Pending
  <2>2. h1.live = heap.live /\ h1.handles = heap.handles /\ h1.alloc = heap.alloc
    BY <1>3, <1>4 DEF AttributePlaced, SameProxies
  <2>3. Sound(h1) /\ Grounded(h1.parent) /\ Wanted(h1, {}) /\ h1.parent \in Pointers
    BY <2>1, StableFacts DEF Stable
  <2>. QED BY <1>1, <1>2, <2>1, <2>2, <2>3, NodesAssumption DEF SameShape, Holding
<1>9. FixedBelow(h1, set, {a}, a, s)
  BY <1>d, <1>1, <1>2, <1>8, FixedAttribute
<1>10. Pending(set, L \ {a}, {}, {}) /\ Placed(h1, {a}, a, set)
  BY <1>d, <1>6, <1>8, <1>9, PlaceSafe
<1>11. Pending(set, L, {}, {}) /\ SameTree(h1, set) /\ set.live \subseteq heap.live /\ set.handles = heap.handles
  BY Zenon, <1>5, <1>8, <1>10 DEF Placed
<1>12. CASE old = NULL
  <2>1. L = {}
    BY <1>f, <1>12
  <2>. QED BY <1>1, <1>11, <1>12, <2>1, SafeIsPending
<1>13. CASE old # NULL
  <2>1. old \in Attrs \cap heap.alloc /\ old \in Nodes /\ Return(out, old)
    BY <1>1, <1>13, KindFacts
  <2>2. h1.parent[old] = NULL
    BY <1>1, <1>3, <1>4, <2>1 DEF AttributePlaced
  <2>3. old \in set.alloc /\ {old} \ set.live = L
    <3>1. CASE old \in heap.live
      <4>1. set.handles[old] > 0
        BY <1>2, <1>11, <2>1, <3>1, AttributeHeld
      <4>2. old \in set.live /\ set.live \subseteq set.alloc
        BY Zenon, <1>11, <2>1, <4>1, StableFacts DEF Pending, Stable, Sound, Counted
      <4>. QED BY <1>f, <3>1, <4>2
    <3>2. CASE old \notin heap.live
      <4>1. Line(h1.parent, old) = {old}
        BY <1>8, <2>1, <2>2, LineUnfolds
      <4>2. old \in h1.alloc /\ Line(h1.parent, old) \cap h1.live = {}
        BY <1>8, <2>1, <3>2, <4>1
      <4>3. old \in set.alloc
        BY <1>11, <4>2 DEF SameTree
      <4>. QED BY <1>f, <1>11, <1>13, <3>2, <4>3
    <3>. QED BY <3>1, <3>2
  <2>4. set.parent[old] = NULL /\ old \in Attrs \cap set.alloc
    BY Zenon, <1>11, <2>1, <2>2, <2>3 DEF SameTree
  <2>5. Pending(set, {old} \ set.live, {}, {})
    BY <1>11, <2>3
  <2>6. Safe(out) /\ out.handles[old] > 0
    BY <1>e, <2>4, <2>5, AttributeHandedOut
  <2>. QED BY <2>1, <2>6, ReturnSafe
<1>. QED BY <1>12, <1>13

-----------------------------------------------------------------------------
(* Fragments that take nodes in. *)

(* After PmmFixOwner every proxy below n has the owner p, if none had it
   before. *)
LEMMA FixedAll ==
  ASSUME NEW h, Sound(h), Grounded(h.parent), h.live \subseteq h.alloc,
         NEW n, NEW p, Unreached(h, n, p), h.handles[n] > 0,
         NEW out, out = PmmFixOwner(h, n, p), NEW g
  PROVE  /\ \A x \in out.live : n \in Line(h.parent, x) => out.owner[x] = p
         /\ FixedBelow(g, out, {n}, n, p)
<1>1. /\ h \in Heaps /\ h.parent \in Pointers /\ h.live \subseteq Nodes /\ n \in Nodes /\ p \in Nodes
      /\ n \in h.live \ Docs /\ p \in h.live /\ h.parent[n] # NULL
      /\ n \notin Line(h.parent, p) /\ NULL \notin Nodes
      /\ \A v \in h.live : n \in Line(h.parent, v) => v \notin Docs /\ h.owner[v] # p
      /\ n \in Line(h.parent, n)
  <2>1. h \in Heaps /\ n \in h.live
    BY DEF Sound, Counted, Unreached
  <2>2. h.parent \in Pointers /\ h.live \subseteq Nodes /\ n \in Nodes
    BY <2>1 DEF Heaps, Pointers, Ends
  <2>3. n \in Line(h.parent, n)
    BY <2>2, LineFacts
  <2>. QED BY <2>1, <2>2, <2>3, SizeFacts DEF Unreached
<1>. PICK S : S = FixSet(h, n, p)
  OBVIOUS
<1>2. S = {v \in h.live : n \in Line(h.parent, v)}
  <2>1. S = Reached(h, {n}, p)
    BY <1>1 DEF FixSet
  <2>2. Subtree(h, n) = {m \in h.alloc : n \in Line(h.parent, m)}
    BY <1>1, SubtreeLines
  <2>. QED BY <1>1, <2>1, <2>2 DEF Reached
<1>3. out = Reown(h, S, p)
  <2>1. h.owner[n] # p /\ p # NULL /\ p \in h.live \cup {NULL}
    BY <1>1
  <2>. QED BY <1>1, <2>1, FixOwnerIs
<1>4. S \in SUBSET h.live /\ p \in h.live \cup {NULL} /\ p \notin S
  BY <1>1, <1>2
<1>5. /\ \A q \in Reown(h, S, p).live : /\ Reown(h, S, p).owner[q] = Given(h, S, p)[q]
                                       /\ Given(h, S, p)[q] \in Reown(h, S, p).live \cup {NULL}
      /\ Reown(h, S, p).live \subseteq h.live /\ Reown(h, S, p).handles = h.handles
  BY ONLY Sound(h), <1>4, ReownOwners, Zenon
<1>6. \A x \in out.live : n \in Line(h.parent, x) => out.owner[x] = p
  BY <1>1, <1>2, <1>3, <1>5 DEF Given
<1>7. /\ Settled(h, out) /\ out \in Heaps /\ out.parent \in Pointers /\ Grounded(out.parent)
      /\ \A x \in Nodes : out.parent[x] \in {h.parent[x], NULL}
  BY <1>1, <1>4, FixOwnerLinks
<1>8. \A x \in out.live \cap Subtree(out, n) : out.owner[x] = p
  <2>. SUFFICES ASSUME NEW x \in out.live, x \in Subtree(out, n) PROVE n \in Line(h.parent, x)
    BY <1>6
  <2>1. n \in Line(out.parent, x) /\ x \in Nodes
    BY <1>1, <1>7, SubtreeLines DEF Settled
  <2>. QED BY <1>1, <1>7, <2>1, LinesDrop
<1>. QED BY <1>6, <1>8 DEF FixedBelow

(* To place n below a fragment of its own and to fix the owners below it
   keeps the invariant for all but the trees W, which are still to be
   fixed, and every proxy below n is owned by the fragment. *)
LEMMA IntoFragment ==
  ASSUME NEW b, NEW f, NEW n, NEW W, Pending(b, {}, {f}, W), TakingIn(b, f, n, W),
         NEW put \in Heaps, Relinked(b, put, {n}, f),
         NEW out, out = PmmFixOwner(put, n, f), Watched(put, out, W)
  PROVE  Pending(out, {}, {}, W) /\ Placed(put, {n}, n, out) /\ TakenIn(put, out, n, f)
<1>1. /\ b \in Heaps /\ Sound(b) /\ b.live \subseteq b.alloc /\ b.alloc \subseteq Nodes
      /\ b.parent \in Pointers /\ Grounded(b.parent) /\ NULL \notin Nodes
      /\ Line(b.parent, NULL) = {}
      /\ \A q \in Docs \cup Frags : b.parent[q] = NULL /\ q \in Nodes
  BY StableFacts DEF Pending, Stable
<1>2. /\ f \in Frags /\ f \in b.live /\ b.owner[f] = b.doc[f] /\ f \in Nodes /\ f \in Ends
      /\ \A q \in Nodes : b.owner[q] # f
      /\ n \in Elems /\ n \in b.live /\ n \in Nodes /\ b.handles[n] > 0
      /\ W \in SUBSET Nodes /\ W \cap Attrs = {} /\ f \notin W /\ f # n
      /\ f \notin Attrs /\ f \notin Docs /\ n \notin Attrs /\ n \notin Docs /\ {n} \in SUBSET Nodes
      /\ \A x \in Nodes : n \notin Line(b.parent, x) \/ Line(b.parent, x) \cap W = {}
      /\ b.doc[f] \in Docs \cup {NULL}
  <2>1. /\ f \in Frags /\ f \in b.live /\ b.owner[f] = b.doc[f] /\ n \in Elems /\ n \in b.live
        /\ W \in SUBSET Elems
    BY DEF TakingIn
  <2>2. b.doc[f] \in Docs \cup {NULL} /\ f \in Nodes /\ n \in Nodes
    BY <1>1, <2>1 DEF Heaps
  <2>3. W \in SUBSET Nodes /\ W \cap Attrs = {} /\ f \notin W
    BY <2>1, KindFacts, NodesAssumption
  <2>. QED BY <2>1, <2>2, <2>3, KindFacts, NodesAssumption DEF Ends, TakingIn
<1>3. Line(b.parent, f) = {f}
  BY <1>1, <1>2, LineUnfolds
<1>4. Placeable(b, {n}, f)
  <2>1. n \notin Line(b.parent, b.parent[n])
    BY <1>1, <1>2, LineUnfolds
  <2>. QED BY <1>1, <1>2, <1>3, <2>1 DEF Placeable, Apart
<1>5. Sound(put)
  BY <1>1, <1>4, RelinkSound
<1>6. Pending(put, {}, {f}, {n} \cup W)
  <2>1. {} \cap b.live \subseteq Attrs /\ Line(b.parent, f) \cap W = {} /\ {} \ {n} = {}
        /\ \A x \in Nodes : Line(b.parent, x) \cap {n} = {} \/ Line(b.parent, x) \cap W = {}
    BY <1>2, <1>3
  <2>2. Pending(put, {} \ {n}, {f}, {n} \cup W)
    BY <1>2, <1>4, <1>5, <2>1, RelinkPending
  <2>. QED BY <2>1, <2>2
<1>7. /\ put.live = b.live /\ put.owner = b.owner /\ put.handles = b.handles /\ put.alloc = b.alloc
      /\ put.parent \in Pointers /\ Grounded(put.parent)
      /\ \A x \in Nodes : put.parent[x] = IF x \in {n} THEN f ELSE b.parent[x]
      /\ put.owner \in Pointers /\ Grounded(put.owner)
      /\ \A q \in Docs : put.parent[q] = NULL
  <2>1. /\ put.parent \in Pointers /\ Grounded(put.parent)
        /\ put.owner \in Pointers /\ Grounded(put.owner)
        /\ \A q \in Docs : put.parent[q] = NULL
    BY <1>6, StableFacts DEF Pending
  <2>. QED BY <2>1 DEF Relinked, IsMove
<1>8. /\ \A x \in Ends : Line(put.parent, x) \cap {n} = Line(b.parent, x) \cap {n}
      /\ \A x \in Ends : Line(b.parent, x) \cap {n} = {} => Line(put.parent, x) = Line(b.parent, x)
      /\ \A x \in Nodes : \A m \in {n} : m \in Line(b.parent, x) =>
              Line(put.parent, x) = {y \in Line(b.parent, x) : m \in Line(b.parent, y)} \cup Line(b.parent, f)
  <2>1. IsMove(b.parent, {n}, f, put.parent) /\ Apart(b.parent, {n}) /\ Line(b.parent, f) \cap {n} = {}
    BY <1>4 DEF Relinked, Placeable
  <2>. QED BY <1>1, <1>2, <2>1, RelinkLines
<1>9. Line(put.parent, f) = {f}
  BY <1>2, <1>3, <1>8
<1>10. \A x \in Nodes : Line(put.parent, x) \cap {n} = {} \/ Line(put.parent, x) \cap W = {}
  <2>. SUFFICES ASSUME NEW x \in Nodes, n \in Line(put.parent, x) PROVE Line(put.parent, x) \cap W = {}
    OBVIOUS
  <2>1. n \in Line(b.parent, x)
    BY <1>8 DEF Ends
  <2>2. Line(put.parent, x) \subseteq Line(b.parent, x) \cup {f}
    BY <1>3, <1>8, <2>1
  <2>. QED BY <1>2, <2>1, <2>2
<1>11. Placing(put, {n}, W, n, f, f)
  <2>1. Keeps(put.parent, put.owner, f, f)
    BY <1>2, <1>7, LineFacts, PassingFacts DEF Keeps
  <2>2. \A m \in {n} : put.parent[m] = f
    BY <1>2, <1>7
  <2>3. put.owner[f] \in Docs \cup {NULL}
    BY <1>2, <1>7
  <2>. QED BY <1>2, <1>9, <1>10, <2>1, <2>2, <2>3 DEF Placing
<1>12. Unreached(put, n, f)
  <2>1. \A v \in put.live : n \in Line(put.parent, v) => v \notin Docs
    <3>. SUFFICES ASSUME NEW v \in Docs PROVE n \notin Line(put.parent, v)
      OBVIOUS
    <3>1. v \in Nodes /\ Line(put.parent, NULL) = {}
      BY <1>7, KindFacts, LineUnfolds
    <3>2. Line(put.parent, v) = {v}
      BY <1>7, <3>1, LineUnfolds
    <3>. QED BY <1>2, <3>2
  <2>2. put.parent[n] = f /\ f # NULL
    BY <1>1, <1>2, <1>7
  <2>. QED BY <1>1, <1>2, <1>7, <1>9, <2>1, <2>2 DEF Unreached
<1>13. /\ \A x \in out.live : n \in Line(put.parent, x) => out.owner[x] = f
       /\ FixedBelow(put, out, {n}, n, f)
  BY SMTT(30), <1>1, <1>2, <1>5, <1>7, <1>12, FixedAll
<1>14. Pending(out, {}, {f} \ {f}, W) /\ Placed(put, {n}, n, out) /\ out.owner[n] = f
  <2>. PICK E, M : E = {f} /\ M = {n}
    OBVIOUS
  <2>1. /\ n \in put.live /\ f \in put.live /\ put.handles[n] > 0 /\ (put.owner[n] = f => E = {})
        /\ {} \in SUBSET Attrs /\ M \in SUBSET Nodes /\ W \in SUBSET Nodes /\ f \in Nodes
    BY <1>2, <1>7
  <2>2. Pending(put, {}, E, M \cup W) /\ Placing(put, M, W, n, f, f) /\ FixedBelow(put, out, M, n, f)
    BY <1>6, <1>11, <1>13
  <2>. PICK L : L = {}
    OBVIOUS
  <2>4. /\ L \in SUBSET Attrs /\ M \in SUBSET Nodes /\ W \in SUBSET Nodes
        /\ Pending(put, L, E, M \cup W) /\ n \in put.live /\ put.handles[n] > 0 /\ f \in put.live
        /\ f \in Nodes /\ Placing(put, M, W, n, f, f) /\ put.owner[n] # f
        /\ out = PmmFixOwner(put, n, f) /\ FixedBelow(put, out, M, n, f) /\ Watched(put, out, W)
    BY <2>1, <2>2
  <2>5. Pending(out, L, E \ {f}, W) /\ Placed(put, M, n, out)
    BY ONLY <2>4, FixOwnerPending
  <2>3. Pending(out, {}, E \ {f}, W) /\ Placed(put, M, n, out)
    BY <2>5
  <2>6. n \in out.live
    <3>1. out.handles[n] > 0
      BY <1>2, <1>7, <2>3 DEF Placed
    <3>. QED BY <1>2, <2>3, <3>1 DEF Pending, Stable, Sound, Counted
  <2>7. n \in Line(put.parent, n)
    BY <1>2, <1>7, LineFacts
  <2>. QED BY <1>13, <2>3, <2>6, <2>7
<1>15. {f} \ {f} = {}
  OBVIOUS
<1>16. n \in out.live
  <2>1. out.handles[n] > 0
    BY <1>2, <1>7, <1>14 DEF Placed
  <2>. QED BY <1>2, <1>14, <2>1 DEF Pending, Stable, Sound, Counted
<1>. QED BY <1>13, <1>14, <1>15, <1>16 DEF TakenIn

(* PmmNewFragment makes a fragment whose only reference is its own count,
   owned by its document. *)
LEMMA FragmentFresh ==
  ASSUME NEW h, NEW L \in SUBSET Nodes, NEW W \in SUBSET Elems, Pending(h, L, {}, W),
         NEW f \in Frags \ (h.alloc \cup h.live), f \notin L, NEW d \in (Docs \cap h.live) \cup {NULL},
         NEW b, b = PmmNewFragment(h, f, d)
  PROVE  Pending(b, L, {f}, W) /\ FreshFragment(h, b, f, d)
<1>. PICK E : E = {}
  OBVIOUS
<1>1. W \in SUBSET Nodes /\ W \cap Frags = {} /\ f \in Nodes /\ Pending(h, L, E, W)
  BY KindFacts, NodesAssumption
<1>2. /\ Pending(b, L, E \cup {f}, W) /\ Proxied(h, b, f, d) /\ Sound(b)
      /\ b.doc[f] = d /\ b.handles = h.handles /\ b.owner[f] = d
  BY <1>1, NewFragmentPending
<1>3. E \cup {f} = {f}
  OBVIOUS
<1>4. /\ \A q \in Nodes : h.owner[q] # NULL => q \in h.live
      /\ \A q \in h.live : h.owner[q] \in h.live \cup {NULL}
      /\ NULL \notin Nodes
  BY StableFacts DEF Pending, Stable, Cased
<1>5. \A q \in Nodes : b.owner[q] # f
  <2>. SUFFICES ASSUME NEW q \in Nodes, b.owner[q] = f PROVE FALSE
    OBVIOUS
  <2>1. IsMove(h.owner, {f}, d, b.owner)
    BY <1>2 DEF Proxied
  <2>2. d # f /\ f # NULL
    BY <1>1, <1>4, NodesAssumption
  <2>3. q # f /\ h.owner[q] = f
    BY <1>2, <2>1, <2>2 DEF IsMove
  <2>. QED BY <1>4, <2>2, <2>3
<1>. QED BY <1>2, <1>3, <1>5 DEF FreshFragment, Proxied

(* Where b is h with the fragment f, and put is b with n in f. *)
LEMMA IntoFreshFragment ==
  ASSUME NEW h, NEW W, Pending(h, {}, {}, W), NEW n, NEW f, Leaving(h, n, f, W),
         NEW d, NEW b, FreshFragment(h, b, f, d), Pending(b, {}, {f}, W),
         NEW put \in Heaps, Relinked(b, put, {n}, f),
         NEW out, out = PmmFixOwner(put, n, f), Minding(h, out, n, W)
  PROVE  Pending(out, {}, {}, W) /\ Reparented(h, out, n, f)
<1>1. /\ h \in Heaps /\ h.live \subseteq h.alloc /\ h.alloc \subseteq Nodes
      /\ h.parent \in Pointers /\ Grounded(h.parent) /\ NULL \notin Nodes
      /\ h.owner \in Pointers /\ Grounded(h.owner)
  BY StableFacts DEF Pending
<1>2. /\ b \in Heaps /\ b.parent \in Pointers /\ Grounded(b.parent) /\ b.owner \in Pointers /\ Grounded(b.owner)
      /\ b.live \subseteq b.alloc /\ b.alloc \subseteq Nodes /\ Line(b.parent, NULL) = {}
      /\ \A q \in Docs \cup Frags : b.parent[q] = NULL /\ q \in Nodes
  BY StableFacts DEF Pending
<1>3. /\ f \in Frags /\ f \in b.live /\ b.owner[f] = d /\ b.doc[f] = d /\ \A q \in Nodes : b.owner[q] # f
      /\ b.alloc = h.alloc \cup {f} /\ b.live = h.live \cup {f} /\ b.parent = h.parent
      /\ b.handles = h.handles
      /\ \A q \in Nodes : b.owner[q] = IF q = f THEN d ELSE h.owner[q]
  BY DEF FreshFragment, IsMove
<1>4. /\ n \in Elems /\ n \in h.live /\ h.handles[n] > 0 /\ f \notin h.alloc /\ f \notin h.live
      /\ W \in SUBSET Elems /\ n \in Nodes /\ f \in Nodes /\ n # f /\ f \in Ends
      /\ \A x \in Nodes : n \notin Line(h.parent, x) \/ Line(h.parent, x) \cap W = {}
      /\ {n} \in SUBSET Nodes
  BY <1>2, <1>3, NodesAssumption, KindFacts DEF Leaving, Ends
<1>5. TakingIn(b, f, n, W)
  BY <1>3, <1>4 DEF TakingIn
<1>6. Line(b.parent, f) = {f}
  BY <1>2, <1>3, <1>4, LineUnfolds
<1>7. /\ \A x \in Ends : Line(put.parent, x) \cap {n} = Line(h.parent, x) \cap {n}
      /\ \A x \in Ends : Line(h.parent, x) \cap {n} = {} => Line(put.parent, x) = Line(h.parent, x)
      /\ IsMove(h.parent, {n}, f, put.parent)
  <2>1. IsMove(b.parent, {n}, f, put.parent)
    BY DEF Relinked
  <2>2. n \notin Line(b.parent, b.parent[n]) /\ Line(b.parent, f) \cap {n} = {}
    BY <1>2, <1>4, <1>6, LineUnfolds
  <2>3. Apart(b.parent, {n})
    BY <2>2 DEF Apart
  <2>. QED BY <1>2, <1>3, <1>4, <2>1, <2>2, <2>3, RelinkLines
<1>8. /\ put.live = b.live /\ put.owner = b.owner /\ put.handles = h.handles /\ put.alloc = b.alloc
      /\ \A x \in Nodes : put.parent[x] = IF x = n THEN f ELSE h.parent[x]
  BY <1>3, <1>7 DEF Relinked, IsMove
<1>9. ASSUME NEW k \in h.live PROVE Line(Passing(put.owner), k) = Line(Passing(h.owner), k)
  <2>1. k \in Nodes
    BY <1>1, <1>9
  <2>2. \A q \in h.live : h.owner[q] \in h.live \cup {NULL}
    BY StableFacts DEF Pending
  <2>3. Line(Passing(h.owner), k) \subseteq h.live
    <3>1. h.live \in SUBSET Nodes
      BY <1>1
    <3>. QED BY <1>1, <1>9, <2>2, <3>1, PassingWithin
  <2>4. \A v \in Line(Passing(h.owner), k) \cap Frags : put.owner[v] = h.owner[v]
    BY <1>1, <1>3, <1>4, <1>8, <2>3
  <2>. QED BY <1>1, <1>2, <1>8, <2>1, <2>4, PassingAgrees
<1>10. Watched(put, out, W)
  <2>. SUFFICES ASSUME W # {} PROVE \E k \in out.live : \A w \in W : Keeps(put.parent, put.owner, k, put.parent[w])
    BY DEF Watched
  <2>1. PICK k \in out.live \cap h.live : \A w \in W :
          /\ Keeps(h.parent, h.owner, k, h.parent[w])
          /\ h.parent[w] \in Nodes /\ n \notin Line(h.parent, h.parent[w])
    BY DEF Minding
  <2>2. ASSUME NEW w \in W PROVE Keeps(put.parent, put.owner, k, put.parent[w])
    <3>1. w \in Nodes
      BY <1>4, KindFacts
    <3>2. w # n
      <4>1. n \in Line(h.parent, n)
        BY <1>1, <1>4, LineFacts
      <4>. QED BY <1>4, <2>2, <4>1
    <3>3. put.parent[w] = h.parent[w] /\ h.parent[w] \in Ends
      BY <1>8, <2>1, <3>1, <3>2 DEF Ends
    <3>4. Line(put.parent, h.parent[w]) = Line(h.parent, h.parent[w])
      BY <1>7, <2>1, <2>2, <3>3
    <3>. QED BY <1>9, <2>1, <3>3, <3>4 DEF Keeps
  <2>. QED BY <2>2
<1>17. Pending(out, {}, {}, W) /\ Placed(put, {n}, n, out) /\ TakenIn(put, out, n, f)
  BY <1>5, <1>10, IntoFragment
<1>11. /\ Pending(out, {}, {}, W) /\ Placed(put, {n}, n, out)
       /\ out.owner[n] = f /\ n \in out.live
       /\ \A x \in out.live : n \in Line(put.parent, x) => out.owner[x] = f
  BY <1>17 DEF TakenIn
<1>12. /\ out.handles = put.handles /\ out.live \subseteq put.live /\ SameTree(put, out)
       /\ \A q \in out.live : q # n /\ Line(put.parent, q) \cap {n} = {} => out.owner[q] = put.owner[q]
       /\ \A k \in out.live : Line(Passing(out.owner), k) = Line(Passing(put.owner), k)
       /\ out.live \subseteq out.alloc /\ out.alloc \subseteq Nodes
  <2>1. n \in {n}
    OBVIOUS
  <2>2. out.live \subseteq out.alloc /\ out.alloc \subseteq Nodes
    BY <1>11, StableFacts DEF Pending
  <2>. QED BY <1>11, <2>1, <2>2 DEF Placed
<1>13. ASSUME NEW x \in out.live \ {f} PROVE out.owner[x] = IF n \in Line(h.parent, x) THEN f ELSE h.owner[x]
  <2>1. x \in Nodes /\ x \in Ends /\ x # f
    BY <1>12, <1>13 DEF Ends
  <2>2. n \in Line(put.parent, x) <=> n \in Line(h.parent, x)
    BY <1>7, <2>1
  <2>3. CASE n \in Line(h.parent, x)
    BY <1>11, <1>13, <2>2, <2>3
  <2>4. CASE n \notin Line(h.parent, x)
    <3>1. x # n
      BY <1>1, <1>4, <2>4, LineFacts
    <3>2. out.owner[x] = put.owner[x]
      BY <1>12, <1>13, <2>2, <2>4, <3>1
    <3>. QED BY <1>3, <1>8, <2>1, <2>4, <3>2
  <2>. QED BY <2>3, <2>4
<1>14. ASSUME NEW k \in out.live \ {f} PROVE Line(Passing(out.owner), k) = Line(Passing(h.owner), k)
  BY <1>3, <1>8, <1>9, <1>12, <1>14
<1>15. ASSUME NEW x \in out.alloc
       PROVE  /\ out.parent[x] = IF x = n THEN f ELSE h.parent[x]
              /\ n \notin Line(h.parent, x) => Line(out.parent, x) = Line(h.parent, x)
  <2>1. x \in Nodes /\ x \in Ends
    BY <1>12, <1>15 DEF Ends
  <2>2. out.parent[x] = put.parent[x] /\ Line(out.parent, x) = Line(put.parent, x)
    BY <1>12, <1>15 DEF SameTree
  <2>. QED BY <1>7, <1>8, <2>1, <2>2
<1>16. ASSUME NEW x \in h.alloc, n \notin Line(h.parent, x), Line(h.parent, x) \cap out.alloc # {}
       PROVE  x \in out.alloc
  <2>1. x \in put.alloc /\ x \in Ends
    BY <1>1, <1>3, <1>8, <1>16 DEF Ends
  <2>2. Line(put.parent, x) \cap out.alloc # {}
    BY <1>7, <1>16, <2>1
  <2>. QED BY <1>12, <2>1, <2>2 DEF SameTree
<1>. QED BY <1>3, <1>8, <1>11, <1>12, <1>13, <1>14, <1>15, <1>16 DEF Reparented

(* A node that leaves its tree for a new fragment takes the proxies below
   it along (the unlink, PmmNewFragment and PmmFixOwner of the handlers):
   the invariant is kept for all but the trees W. *)
LEMMA ReparentSafe ==
  ASSUME NEW h, NEW W, Pending(h, {}, {}, W), NEW n, NEW f, Leaving(h, n, f, W),
         NEW out, out = Reparent(Unlink(h, n), n, f), Minding(h, out, n, W)
  PROVE  Pending(out, {}, {}, W) /\ Reparented(h, out, n, f)
<1>. PICK d : d = h.doc[n]
  OBVIOUS
<1>. PICK b : b = PmmNewFragment(h, f, d)
  OBVIOUS
<1>. PICK u : u = Unlink(h, n)
  OBVIOUS
<1>. PICK put : put = AddChild(PmmNewFragment(u, f, d), f, n)
  OBVIOUS
<1>1. /\ h \in Heaps /\ n \in Elems /\ n \in Nodes /\ n \in h.alloc /\ n \in h.live
      /\ f \in Frags \ (h.alloc \cup h.live) /\ f \in Nodes /\ f # n
      /\ d \in (Docs \cap h.live) \cup {NULL} /\ W \in SUBSET Elems
      /\ {} \in SUBSET Nodes /\ f \notin {}
  BY StableFacts, KindFacts, NodesAssumption DEF Leaving, Pending
<1>2. Pending(b, {}, {f}, W) /\ FreshFragment(h, b, f, d)
  BY <1>1, FragmentFresh
<1>3. b \in Heaps /\ Treed(b) /\ b.parent = h.parent /\ b.doc[f] = d /\ b.doc[n] = d /\ n \in b.alloc
  BY <1>1, <1>2, StableFacts DEF Pending, Stable, FreshFragment
<1>4. /\ put \in Heaps /\ SameProxies(b, put) /\ put.alloc = b.alloc /\ put.doc = b.doc
      /\ \A x \in Nodes : put.parent[x] = IF x = n THEN f ELSE h.parent[x]
  <2>1. /\ u \in Heaps /\ SameProxies(h, u) /\ u.alloc = h.alloc /\ u.doc = h.doc
        /\ \A x \in Nodes : u.parent[x] = IF x = n THEN NULL ELSE h.parent[x]
    BY <1>1 DEF Unlink, Heaps, SameProxies
  <2>. PICK v : v = PmmNewFragment(u, f, d)
    OBVIOUS
  <2>2. SameProxies(b, v) /\ v.alloc = b.alloc /\ v.doc = b.doc /\ v.parent = u.parent
    BY <2>1 DEF PmmNewFragment, SameProxies
  <2>3. v = [u EXCEPT !.alloc = v.alloc, !.doc = v.doc, !.live = v.live, !.owner = v.owner, !.count = v.count]
    BY DEF PmmNewFragment
  <2>4. v \in Heaps
    <3>1. /\ v.alloc \in SUBSET Nodes /\ v.doc \in [Nodes -> Docs \cup {NULL}] /\ v.live \in SUBSET Nodes
          /\ v.owner \in [Nodes -> Nodes \cup {NULL}] /\ v.count \in [Nodes -> Int]
      BY <1>3, <2>2 DEF Heaps, SameProxies
    <3>. QED BY ZenonT(60), <2>1, <2>3, <3>1 DEF Heaps
  <2>5. [v.parent EXCEPT ![n] = f] \in [Nodes -> Nodes \cup {NULL}]
    BY <1>1, <2>4 DEF Heaps
  <2>6. put = [v EXCEPT !.parent = [v.parent EXCEPT ![n] = f]]
    BY <2>4 DEF AddChild, Heaps
  <2>7. put \in Heaps
    BY <2>4, <2>5, <2>6 DEF Heaps
  <2>8. \A x \in Nodes : put.parent[x] = IF x = n THEN f ELSE u.parent[x]
    BY <1>1, <2>2, <2>4, <2>6 DEF Heaps
  <2>. QED BY <2>1, <2>2, <2>6, <2>7, <2>8 DEF SameProxies
<1>5. IsMove(b.parent, {n}, f, put.parent)
  BY SMTT(30), <1>3, <1>4 DEF IsMove, Heaps, Pointers, Ends
<1>6. Relinked(b, put, {n}, f)
  BY <1>3, <1>4, <1>5, RelinkHere
<1>7. out = PmmFixOwner(put, n, f)
  BY <1>1 DEF Reparent, Unlink
<1>. QED BY <1>2, <1>4, <1>6, <1>7, IntoFreshFragment

(* ... when nothing is pending *)
LEMMA ReparentSafely ==
  ASSUME NEW h, Safe(h), NEW n \in Elems \cap h.live, h.handles[n] > 0,
         NEW f \in Frags \ (h.alloc \cup h.live), h.doc[n] \in (Docs \cap h.live) \cup {NULL},
         NEW out, out = Reparent(Unlink(h, n), n, f)
  PROVE  Safe(out) /\ Reparented(h, out, n, f)
<1>. PICK W : W = {}
  OBVIOUS
<1>1. Pending(h, {}, {}, W)
  BY SafeFacts
<1>2. Leaving(h, n, f, W) /\ Minding(h, out, n, W)
  BY DEF Leaving, Minding
<1>3. Pending(out, {}, {}, W) /\ Reparented(h, out, n, f)
  BY <1>1, <1>2, ReparentSafe
<1>. QED BY <1>3, SafeIsPending

(* A node with a parent that is no attribute may leave its tree. *)
LEMMA HeldElement ==
  ASSUME Safe(heap), NEW n \in Nodes, Held(n), n \notin Attrs,
         heap.parent[n] # NULL \/ n \notin Docs \cup Frags
  PROVE  /\ n \in Elems \cap heap.live /\ heap.handles[n] > 0 /\ n \in heap.alloc
         /\ heap.doc[n] \in (Docs \cap heap.live) \cup {NULL}
<1>1. \A q \in Docs \cup Frags : heap.parent[q] = NULL
  BY SafeFacts, StableFacts
<1>2. n \in Elems
  BY <1>1 DEF Nodes
<1>. QED BY <1>2, SafeFacts, HeldFacts

(* A fragment that can be allocated is neither in memory nor has it a
   proxy. *)
LEMMA FreshFrag ==
  ASSUME NEW f \in Free(heap, Frags)
  PROVE  f \in Frags \ (heap.alloc \cup heap.live)
BY DEF Free

(* removeChild (LibXML.xs) keeps the memory safe. *)
LEMMA removeChildSafe ==
  ASSUME Safe(heap), NEW s \in Nodes, NEW n \in Nodes, removeChild(s, n)
  PROVE  Safe(heap')
<1>1. PICK f \in Free(heap, Frags) :
        Return(PmmNodeToSv(Reparent(Unlink(heap, n), n, f), n, NULL), n)
  BY DEF removeChild
<1>. PICK out : out = Reparent(Unlink(heap, n), n, f)
  OBVIOUS
<1>. PICK r : r = PmmNodeToSv(out, n, NULL)
  OBVIOUS
<1>2. /\ n \in Elems \cap heap.live /\ heap.handles[n] > 0
      /\ heap.doc[n] \in (Docs \cap heap.live) \cup {NULL}
  <2>1. s \in heap.alloc /\ heap.parent[n] = s /\ n \notin Attrs /\ Held(n) /\ NULL \notin Nodes
    BY SizeFacts DEF removeChild, Kids, Below, Held, Kept
  <2>. QED BY <2>1, HeldElement
<1>3. Safe(out) /\ Reparented(heap, out, n, f)
  BY <1>2, FreshFrag, ReparentSafely
<1>4. Safe(r) /\ Holding(out, r, n)
  BY <1>3, AgainSafe DEF Reparented
<1>. QED BY <1>1, <1>4, ReturnSafe DEF Holding

(* unbindNode (LibXML.xs) keeps the memory safe. *)
LEMMA unbindNodeSafe ==
  ASSUME Safe(heap), NEW n \in Nodes, unbindNode(n)
  PROVE  Safe(heap')
<1>1. Held(n) /\ n \notin Docs \cup Frags
  BY DEF unbindNode
<1>2. CASE n \in Attrs
  <2>1. heap' = Unlink(heap, n) /\ n \in heap.alloc
    BY <1>1, <1>2, SafeFacts, HeldFacts DEF unbindNode
  <2>2. n \in heap.live
    BY <1>1, SafeFacts, HeldFacts
  <2>3. {n} \ heap.live \subseteq {}
    BY <2>2
  <2>. PICK u : u = Unlink(heap, n)
    OBVIOUS
  <2>4. n \in Attrs \cap heap.alloc
    BY <1>2, <2>1
  <2>5. Pending(u, {}, {}, {}) /\ u \in Heaps /\ SameProxies(heap, u) /\ u.alloc = heap.alloc
    BY <2>3, <2>4, AttributeUnlinked
  <2>. QED BY <2>1, <2>5, SafeIsPending
<1>3. CASE n \notin Attrs
  <2>1. PICK f \in Free(heap, Frags) : heap' = Reparent(Unlink(heap, n), n, f)
    BY <1>3 DEF unbindNode
  <2>2. /\ n \in Elems \cap heap.live /\ heap.handles[n] > 0
        /\ heap.doc[n] \in (Docs \cap heap.live) \cup {NULL}
    BY <1>1, <1>3, HeldElement
  <2>. QED BY <2>1, <2>2, FreshFrag, ReparentSafely
<1>. QED BY <1>2, <1>3

(* adoptNode (LibXML.xs) keeps the memory safe: the node leaves its tree
   and takes the new document with everything below it. *)
LEMMA adoptNodeSafe ==
  ASSUME Safe(heap), NEW d \in Nodes, NEW n \in Nodes, adoptNode(d, n)
  PROVE  Safe(heap')
<1>. PICK moved : moved = SetTreeDoc(Unlink(heap, n), n, d)
  OBVIOUS
<1>1. PICK f \in Free(heap, Frags) :
        Return(PmmFixOwner(AddChild(PmmNodeToSv(PmmNewFragment(moved, f, d), n, f), f, n), n, f), n)
  BY DEF adoptNode
<1>. PICK g : g = PmmNodeToSv(heap, n, NULL)
  OBVIOUS
<1>. PICK b : b = PmmNewFragment(g, f, d)
  OBVIOUS
<1>. PICK fr : fr = PmmNewFragment(moved, f, d)
  OBVIOUS
<1>. PICK frag : frag = PmmNodeToSv(fr, n, f)
  OBVIOUS
<1>. PICK put : put = AddChild(frag, f, n)
  OBVIOUS
<1>. PICK out : out = PmmFixOwner(put, n, f)
  OBVIOUS
<1>2. /\ Return(out, n) /\ d \in Docs /\ n \in Elems
      /\ d \in heap.live /\ n \in heap.live /\ n \in heap.alloc /\ heap.handles[n] > 0
      /\ heap.doc[n] \in (Docs \cap heap.live) \cup {NULL}
      /\ f \in Frags \ (heap.alloc \cup heap.live) /\ f \in Nodes /\ f # n /\ d # n /\ d # f
      /\ heap \in Heaps /\ Treed(heap) /\ d \in Docs \cup {NULL}
      /\ heap.parent \in Pointers /\ Grounded(heap.parent) /\ heap.alloc \subseteq Nodes
  <2>1. Held(d) /\ Held(n) /\ d \in Docs /\ n \in Elems
    BY DEF adoptNode
  <2>2. Sound(heap) /\ Stable(heap, {}, {})
    BY SafeFacts
  <2>. QED BY <1>1, <2>1, <2>2, HeldFacts, StableFacts, FreshFrag, KindFacts, NodesAssumption DEF Stable
<1>3. Safe(g) /\ Holding(heap, g, n) /\ Blessed(heap, n, NULL, g)
  <2>1. Safe(g) /\ Holding(heap, g, n)
    BY <1>2, AgainSafe
  <2>. QED BY <1>2, <2>1, NodeToSvIs
<1>4. /\ g \in Heaps /\ g.live = heap.live /\ g.alloc = heap.alloc /\ g.parent = heap.parent
      /\ g.doc = heap.doc /\ g.owner = heap.owner
      /\ g.handles = [heap.handles EXCEPT ![n] = heap.handles[n] + 1]
      /\ \A q \in Nodes : g.count[q] = heap.count[q] + (IF q = n THEN 1 ELSE 0)
  BY <1>2, <1>3 DEF Blessed, Heaps
<1>5. Pending(b, {}, {f}, {}) /\ FreshFragment(g, b, f, d)
  <2>1. Pending(g, {}, {}, {}) /\ {} \in SUBSET Nodes /\ {} \in SUBSET Elems /\ f \notin {}
    BY <1>3, SafeFacts
  <2>2. f \in Frags \ (g.alloc \cup g.live) /\ d \in (Docs \cap g.live) \cup {NULL}
    BY <1>2, <1>4
  <2>. QED BY <2>1, <2>2, FragmentFresh
<1>6. /\ b \in Heaps /\ Treed(b) /\ b.parent = heap.parent /\ b.doc[f] = d /\ n \in b.alloc
      /\ b.alloc = heap.alloc \cup {f} /\ b.live = heap.live \cup {f}
      /\ b.handles = g.handles /\ b.doc = [heap.doc EXCEPT ![f] = d]
      /\ b.owner = [heap.owner EXCEPT ![f] = d]
      /\ \A q \in Nodes : b.count[q] = heap.count[q] + (IF q = n THEN 1 ELSE 0) + (IF q = d THEN 1 ELSE 0)
      /\ b.count \in [Nodes -> Int]
  <2>1. b \in Heaps /\ Treed(b) /\ b.parent = heap.parent /\ b.doc[f] = d /\ n \in b.alloc
    BY <1>2, <1>4, <1>5, StableFacts DEF Pending, Stable, FreshFragment
  <2>2. /\ b.alloc = heap.alloc \cup {f} /\ b.live = heap.live \cup {f}
        /\ b.handles = g.handles /\ b.doc = [heap.doc EXCEPT ![f] = d]
        /\ b.owner = [heap.owner EXCEPT ![f] = d]
    BY <1>4 DEF PmmNewFragment
  <2>3. \A q \in Nodes : b.count[q] = IF q = d THEN g.count[q] + 1 ELSE g.count[q]
    BY <1>2, <1>4 DEF PmmNewFragment
  <2>4. \A q \in Nodes : b.count[q] = heap.count[q] + (IF q = n THEN 1 ELSE 0) + (IF q = d THEN 1 ELSE 0)
    <3>1. \A q \in Nodes : heap.count[q] \in Int
      BY <1>2 DEF Heaps
    <3>. QED BY <1>4, <2>3, <3>1
  <2>. QED BY <2>1, <2>2, <2>4 DEF Heaps
<1>7. /\ moved \in Heaps /\ SameProxies(heap, moved) /\ moved.alloc = heap.alloc
      /\ \A x \in Nodes : moved.parent[x] = IF x = n THEN NULL ELSE heap.parent[x]
      /\ \A x \in Nodes : moved.doc[x] = IF x \in Subtree(heap, n) THEN d ELSE heap.doc[x]
  <2>. PICK u : u = Unlink(heap, n)
    OBVIOUS
  <2>1. /\ u \in Heaps /\ SameProxies(heap, u) /\ u.alloc = heap.alloc /\ u.doc = heap.doc
        /\ IsMove(heap.parent, {n}, NULL, u.parent) /\ Subtree(u, n) = Subtree(heap, n)
    BY <1>2, UnlinkLines
  <2>2. moved = SetTreeDoc(u, n, d)
    OBVIOUS
  <2>. QED BY <1>2, <2>1, <2>2 DEF SetTreeDoc, Heaps, SameProxies, IsMove
<1>8. /\ fr \in Heaps /\ fr.alloc = b.alloc /\ fr.live = b.live /\ fr.owner = b.owner
      /\ fr.handles = heap.handles /\ fr.parent = moved.parent
      /\ \A x \in Nodes : fr.doc[x] = IF x = f THEN d ELSE moved.doc[x]
      /\ \A q \in Nodes : fr.count[q] = heap.count[q] + (IF q = d THEN 1 ELSE 0)
  <2>1. /\ fr.alloc = b.alloc /\ fr.live = b.live /\ fr.owner = b.owner
        /\ fr.handles = heap.handles /\ fr.parent = moved.parent
        /\ fr.doc = [moved.doc EXCEPT ![f] = d]
        /\ fr.count = [q \in Nodes |-> IF q = d /\ d \in moved.live THEN moved.count[q] + 1 ELSE moved.count[q]]
    BY <1>6, <1>7 DEF PmmNewFragment, SameProxies
  <2>2. [moved.doc EXCEPT ![f] = d] \in [Nodes -> Docs \cup {NULL}]
    BY <1>2, <1>7 DEF Heaps
  <2>3. \A q \in Nodes : heap.count[q] \in Int
    BY <1>2 DEF Heaps
  <2>4. \A q \in Nodes : fr.count[q] = heap.count[q] + (IF q = d THEN 1 ELSE 0)
    BY <1>2, <1>7, <2>1, <2>3 DEF SameProxies
  <2>5. fr.count \in [Nodes -> Int]
    BY <1>7, <2>1, <2>3 DEF SameProxies
  <2>6. fr = [moved EXCEPT !.alloc = fr.alloc, !.doc = fr.doc, !.live = fr.live, !.owner = fr.owner, !.count = fr.count]
    BY DEF PmmNewFragment
  <2>7. fr \in Heaps
    BY Zenon, <1>6, <1>7, <2>1, <2>2, <2>5, <2>6 DEF Heaps
  <2>. QED BY <1>2, <1>7, <2>1, <2>4, <2>7 DEF Heaps
<1>9. Blessed(fr, n, f, frag)
  BY <1>2, <1>8, NodeToSvIs
<1>10. /\ frag \in Heaps /\ frag.alloc = b.alloc /\ frag.live = b.live /\ frag.owner = b.owner
       /\ frag.handles = b.handles /\ frag.parent = moved.parent /\ frag.doc = fr.doc
       /\ frag.count = b.count
  <2>1. n \in fr.live /\ fr.owner \in [Nodes -> Nodes \cup {NULL}]
    BY <1>2, <1>6, <1>8 DEF Heaps
  <2>2. /\ frag \in Heaps /\ frag.alloc = fr.alloc /\ frag.live = fr.live \cup {n} /\ frag.owner = fr.owner
        /\ frag.parent = fr.parent /\ frag.doc = fr.doc
        /\ frag.handles = [fr.handles EXCEPT ![n] = fr.handles[n] + 1]
        /\ \A q \in Nodes : frag.count[q] = fr.count[q] + ((IF q = n THEN 1 ELSE 0) + 0)
    BY <1>9, <2>1 DEF Blessed
  <2>3. \A q \in Nodes : heap.count[q] \in Int
    BY <1>2 DEF Heaps
  <2>4. \A q \in Nodes : frag.count[q] = b.count[q]
    BY <1>6, <1>8, <2>2, <2>3
  <2>5. frag.count = b.count
    BY <1>6, <2>2, <2>4 DEF Heaps
  <2>. QED BY <1>4, <1>6, <1>8, <2>1, <2>2, <2>5
<1>11. /\ put \in Heaps /\ SameProxies(b, put) /\ put.alloc = b.alloc /\ put.doc = fr.doc
       /\ \A x \in Nodes : put.parent[x] = IF x = n THEN f ELSE heap.parent[x]
  <2>1. [frag.parent EXCEPT ![n] = f] \in [Nodes -> Nodes \cup {NULL}]
    BY <1>2, <1>10 DEF Heaps
  <2>2. put = [frag EXCEPT !.parent = [frag.parent EXCEPT ![n] = f]]
    BY <1>10 DEF AddChild, Heaps
  <2>3. put \in Heaps
    BY <1>10, <2>1, <2>2 DEF Heaps
  <2>4. /\ put.parent = [frag.parent EXCEPT ![n] = f] /\ put.alloc = b.alloc /\ put.doc = fr.doc
        /\ SameProxies(b, put)
    BY <1>10, <2>2 DEF Heaps, SameProxies
  <2>5. \A x \in Nodes : put.parent[x] = IF x = n THEN f ELSE moved.parent[x]
    BY <1>2, <1>10, <2>4 DEF Heaps
  <2>. QED BY <1>2, <1>7, <2>3, <2>4, <2>5
<1>12. Relinked(b, put, {n}, f)
  <2>1. IsMove(b.parent, {n}, f, put.parent)
    BY <1>6, <1>11 DEF IsMove, Heaps, Pointers, Ends
  <2>2. \A x \in Nodes : put.doc[x] = IF x \in Subtree(b, n) THEN b.doc[f] ELSE b.doc[x]
    <3>1. Subtree(b, n) = {m \in b.alloc : n \in Line(heap.parent, m)}
      BY <1>2, <1>6, SubtreeLines
    <3>2. Subtree(heap, n) = {m \in heap.alloc : n \in Line(heap.parent, m)}
      BY <1>2, SubtreeLines
    <3>3. f \notin Subtree(b, n)
      <4>1. heap.parent[f] = NULL /\ Line(heap.parent, NULL) = {}
        BY <1>2, LineUnfolds DEF Treed
      <4>2. Line(heap.parent, f) = {f}
        BY <1>2, <4>1, LineUnfolds
      <4>. QED BY <1>2, <3>1, <4>2
    <3>4. \A x \in Nodes : x # f => (x \in Subtree(b, n) <=> x \in Subtree(heap, n))
      BY <1>6, <3>1, <3>2
    <3>5. \A x \in Nodes : x # f => b.doc[x] = heap.doc[x]
      BY <1>2, <1>6 DEF Heaps
    <3>. QED BY <1>6, <1>7, <1>8, <1>11, <3>3, <3>4, <3>5
  <2>. QED BY ZenonT(60), <1>6, <1>11, <2>1, <2>2, RelinkOne
<1>13. Pending(out, {}, {}, {}) /\ Reparented(g, out, n, f)
  <2>. PICK W : W = {}
    OBVIOUS
  <2>1. Pending(g, {}, {}, W) /\ Pending(b, {}, {f}, W)
    BY <1>3, <1>5, SafeFacts
  <2>2. Leaving(g, n, f, W) /\ Minding(g, out, n, W)
    <3>1. g.handles[n] > 0
      BY <1>3 DEF Holding
    <3>. QED BY <1>2, <1>4, <3>1 DEF Leaving, Minding
  <2>3. Pending(out, {}, {}, W) /\ Reparented(g, out, n, f)
    BY <1>5, <1>11, <1>12, <2>1, <2>2, IntoFreshFragment
  <2>. QED BY <2>3
<1>14. out.handles[n] > 0
  BY <1>3, <1>13 DEF Holding, Reparented
<1>. QED BY <1>2, <1>13, <1>14, SafeIsPending, ReturnSafe

(* The root element that a document without one receives. *)
LEMMA RootPlaced ==
  ASSUME NEW h, Safe(h), NEW d \in Docs \cap h.live, NEW e \in Elems \cap h.live, h.handles[e] > 0,
         Kids(h, d) = {},
         NEW out, out = PmmFixOwner(AddChild(SetTreeDoc(Unlink(h, e), e, d), d, e), e, d)
  PROVE  Safe(out) /\ out.handles = h.handles
<1>. PICK h1 : h1 = AddChild(SetTreeDoc(Unlink(h, e), e, h.doc[d]), d, e)
  OBVIOUS
<1>1. /\ Sound(h) /\ Pending(h, {}, {}, {}) /\ h \in Heaps /\ Treed(h) /\ Homed(h, {}) /\ Wanted(h, {})
      /\ h.parent \in Pointers /\ Grounded(h.parent)
      /\ d \in h.alloc /\ e \in h.alloc /\ d \in h.live /\ e \in h.live /\ e # d
      /\ d \in Nodes /\ e \in Nodes /\ h.live \subseteq Nodes
      /\ d \notin Attrs /\ d \notin Frags /\ d \notin Elems /\ e \notin Attrs /\ e \notin Docs
      /\ {e} \in SUBSET Nodes /\ {} \in SUBSET Attrs
      /\ h.owner \in Pointers /\ Grounded(h.owner) /\ h.parent[d] = NULL /\ h.owner[d] = NULL
      /\ \A q \in h.live : h.owner[q] \in h.live \cup {NULL}
      /\ \A q \in Docs : h.parent[q] = NULL
  <2>1. Sound(h) /\ Stable(h, {}, {}) /\ Pending(h, {}, {}, {})
    BY SafeFacts
  <2>. QED BY <2>1, StableFacts, NodesAssumption, KindFacts DEF Stable
<1>2. h.doc[d] = d
  BY <1>1 DEF Treed
<1>3. out = PmmFixOwner(h1, e, d)
  BY <1>2
<1>4. h1 \in Heaps /\ Relinked(h, h1, {e}, d)
  BY <1>1, BelowRelinks
<1>5. Line(h.parent, d) = {d} /\ e \notin Line(h.parent, d)
  BY <1>1, LineUnfolds DEF Ends
<1>6. Placeable(h, {e}, d)
  <2>1. e \notin Line(h.parent, h.parent[e])
    BY <1>1, LineUnfolds
  <2>. QED BY <1>1, <1>5, <2>1 DEF Placeable, Apart
<1>7. Sound(h1) /\ h1.parent \in Pointers /\ Grounded(h1.parent) /\ h1.live \subseteq h1.alloc
      /\ \A x \in Ends : Line(h1.parent, x) \cap {e} = Line(h.parent, x) \cap {e}
  <2>1. Sound(h1)
    BY <1>1, <1>4, <1>6, RelinkSound
  <2>2. IsMove(h.parent, {e}, d, h1.parent) /\ Apart(h.parent, {e}) /\ Line(h.parent, d) \cap {e} = {}
    BY <1>4, <1>6, <1>5 DEF Relinked, Placeable
  <2>3. d \in Ends
    BY <1>1 DEF Ends
  <2>4. /\ h1.parent \in Pointers /\ Grounded(h1.parent)
        /\ \A x \in Ends : Line(h1.parent, x) \cap {e} = Line(h.parent, x) \cap {e}
    BY <1>1, <2>2, <2>3, RelinkLines
  <2>5. h1.live \subseteq h1.alloc
    <3>1. h.live \subseteq h.alloc
      BY SafeFacts
    <3>. QED BY <1>4, <3>1 DEF Relinked
  <2>. QED BY <2>1, <2>4, <2>5
<1>8. /\ h1.live = h.live /\ h1.owner = h.owner /\ h1.handles = h.handles /\ h1.count = h.count
      /\ h1.parent[e] = d
  BY <1>1, <1>4 DEF Relinked, IsMove
<1>9. Moving(h, {}, {e}, d, h1)
  BY <1>1, <1>4, <1>6, <1>7 DEF Moving
<1>10. Receiving(h, {e}, e, d, d)
  <2>1. Keeps(h.parent, h.owner, d, d)
    BY <1>1, LineFacts, PassingFacts DEF Keeps
  <2>. QED BY <1>1, <2>1 DEF Receiving, Entering
<1>11. Unreached(h1, e, d)
  <2>1. SUFFICES ASSUME NEW v \in h.live, e \in Line(h.parent, v)
                 PROVE  v \notin Docs /\ h.owner[v] # d
    <3>1. e \notin Line(h1.parent, d)
      BY <1>1, <1>5, <1>7 DEF Ends
    <3>2. \A v \in h.live : e \in Line(h1.parent, v) => e \in Line(h.parent, v)
      BY <1>1, <1>7 DEF Ends
    <3>3. h1.parent[e] # NULL
      BY <1>1, <1>8, NodesAssumption
    <3>. QED BY <1>1, <1>8, <2>1, <3>1, <3>2, <3>3 DEF Unreached
  <2>2. v \in Nodes
    BY <1>1
  <2>3. h.parent[v] = NULL => v = e
    BY <1>1, <2>1, <2>2, LineUnfolds
  <2>4. h.parent[v] # NULL
    <3>1. h.parent[e] # NULL
      BY <1>1 DEF Homed
    <3>. QED BY <2>3, <3>1
  <2>5. v \notin Docs
    BY <1>1, <2>4
  <2>6. ASSUME h.owner[v] = d PROVE FALSE
    <3>1. Keeps(h.parent, h.owner, d, h.parent[v])
      BY <2>4, <2>6 DEF Safe, Owned, Anchored
    <3>2. Line(Passing(h.owner), d) = {d}
      BY <1>1, PassingFacts
    <3>3. d \in Line(h.parent, h.parent[v])
      BY <3>1, <3>2 DEF Keeps
    <3>4. d \in Line(h.parent, v) /\ d # v
      BY <1>1, <2>2, <2>5, <3>3, LineUnfolds
    <3>5. PICK y \in Line(h.parent, v) : h.parent[y] = d
      BY <1>1, <2>2, <3>4, LineChild
    <3>6. y \in Nodes
      BY <1>1, <2>2, LineFacts
    <3>7. y \in h.alloc /\ y \notin Attrs
      BY <1>1, <3>5, <3>6, SizeFacts DEF Treed
    <3>. QED BY <3>5, <3>7 DEF Kids, Below
  <2>. QED BY <2>5, <2>6
<1>12. FixedBelow(h1, out, {e}, e, d)
  BY <1>1, <1>3, <1>7, <1>8, <1>11, FixedAll
<1>13. SameShape(h1, h1) /\ Wanted(h1, {}) /\ Holding(h1, h1, e)
  BY <1>1, <1>8 DEF SameShape, Wanted, Holding
<1>14. Pending(out, {} \ {e}, {}, {}) /\ Placed(h1, {e}, e, out)
  BY <1>3, <1>7, <1>9, <1>10, <1>12, <1>13, PlaceSafe
<1>15. {} \ {e} = {}
  OBVIOUS
<1>16. out.handles = h.handles
  BY <1>8, <1>14 DEF Placed
<1>. QED BY <1>14, <1>15, <1>16, SafeIsPending

(* Perl gets a handle of the root element that is replaced. *)
LEMMA OldRootHeld ==
  ASSUME NEW h, Safe(h), NEW d \in Docs \cap h.live, NEW old \in Kids(h, d),
         NEW r, r = PmmNodeToSv(h, old, d)
  PROVE  /\ Safe(r) /\ Holding(h, r, old) /\ old \in Elems \cap r.live
         /\ r.alloc = h.alloc /\ r.live = h.live \cup {old} /\ r.parent = h.parent /\ r.doc = h.doc
         /\ h.doc[old] = d /\ h.parent[old] = d
<1>. PICK W : W = {}
  OBVIOUS
<1>1. /\ Sound(h) /\ Pending(h, {}, {}, W) /\ h \in Heaps /\ Treed(h) /\ d \in Nodes /\ d \in h.alloc
      /\ h.parent \in Pointers /\ Grounded(h.parent) /\ h.owner \in Pointers /\ Grounded(h.owner)
      /\ h.alloc \subseteq Nodes /\ W \in SUBSET Nodes
      /\ d \notin Attrs /\ NULL \notin Nodes
  <2>1. Sound(h) /\ Stable(h, {}, {}) /\ Pending(h, {}, {}, W)
    BY SafeFacts
  <2>. QED BY <2>1, StableFacts, KindFacts DEF Stable
<1>2. old \in h.alloc /\ old \in Nodes /\ h.parent[old] = d /\ old \notin Attrs
  BY <1>1 DEF Kids, Below
<1>3. old \in Elems /\ old \notin Docs \cup Frags
  <2>1. old \notin Docs \cup Frags
    BY <1>1, <1>2, SafeFacts, StableFacts
  <2>. QED BY <1>2, <2>1 DEF Nodes
<1>4. h.doc[old] = d
  <2>1. h.doc[old] = h.doc[d] /\ h.doc[d] = d
    BY <1>1, <1>2 DEF Treed
  <2>. QED BY <2>1
<1>5. Safe(r) /\ Holding(h, r, old)
  <2>1. CASE old \in h.live
    BY <2>1, AgainSafe
  <2>2. CASE old \notin h.live
    <3>1. Keeps(h.parent, h.owner, d, d)
      BY <1>1, LineFacts, PassingFacts DEF Keeps
    <3>2. Ownable(h, W, old, d)
      BY <1>1, <1>2, <1>3, <3>1 DEF Ownable
    <3>3. WithMemory(h, h, old)
      BY <1>1, <1>2, <1>3 DEF WithMemory, SameProxies
    <3>4. Sound(r)
      BY <1>1, <1>2, NodeToSvSound
    <3>5. old \in Nodes \ h.live
      BY <1>2, <2>2
    <3>6. Pending(r, {} \ {old}, {} \ {old, d}, W) /\ Holding(h, r, old)
      BY <1>1, <3>2, <3>3, <3>4, <3>5, NodeToSvNew
    <3>7. {} \ {old} = {} /\ {} \ {old, d} = {}
      OBVIOUS
    <3>. QED BY <3>6, <3>7, SafeIsPending
  <2>. QED BY <2>1, <2>2
<1>6. Blessed(h, old, d, r)
  BY <1>1, <1>2, NodeToSvIs
<1>. QED BY <1>2, <1>3, <1>4, <1>5, <1>6 DEF Blessed

(* The document's only root element is gone. *)
LEMMA NoRoot ==
  ASSUME NEW h \in Heaps, NEW d, NEW old \in Kids(h, d), Cardinality(Kids(h, d)) <= 1
  PROVE  Kids(h, d) = {old}
<1>1. Kids(h, d) \in SUBSET Nodes
  BY DEF Kids, Below, Heaps
<1>2. IsFiniteSet(Kids(h, d)) /\ IsFiniteSet(Kids(h, d) \ {old}) /\ Cardinality(Kids(h, d) \ {old}) \in Nat
      /\ Cardinality(Kids(h, d)) \in Nat
  BY <1>1, FiniteNodes
<1>3. Cardinality(Kids(h, d) \ {old}) = Cardinality(Kids(h, d)) - 1
  BY <1>2, FS_RemoveElement
<1>4. Cardinality(Kids(h, d) \ {old}) = 0
  BY <1>2, <1>3
<1>5. Kids(h, d) \ {old} = {}
  BY <1>2, <1>4, FS_EmptySet
<1>. QED BY <1>5

(* setDocumentElement (LibXML.xs) keeps the memory safe, whether it
   replaces a root element or not. *)
LEMMA setDocumentElementSafe ==
  ASSUME Safe(heap), NEW d \in Nodes, NEW e \in Nodes, setDocumentElement(d, e)
  PROVE  Safe(heap')
<1>1. /\ d \in Docs \cap heap.live /\ e \in Elems \cap heap.live
      /\ heap.handles[d] > 0 /\ heap.handles[e] > 0 /\ Cardinality(Kids(heap, d)) <= 1
  BY SafeFacts, HeldFacts DEF setDocumentElement
<1>2. CASE Kids(heap, d) = {}
  <2>1. heap' = PmmFixOwner(AddChild(SetTreeDoc(Unlink(heap, e), e, d), d, e), e, d)
    BY <1>2 DEF setDocumentElement
  <2>. QED BY <1>1, <1>2, <2>1, RootPlaced
<1>3. CASE Kids(heap, d) # {}
  <2>1. PICK old \in Kids(heap, d), f \in Free(heap, Frags) :
          LET got == PmmNodeToSv(heap, old, d)
              out == Reparent(Unlink(got, old), old, f)
          IN  heap' = Drop(PmmFixOwner(AddChild(SetTreeDoc(Unlink(out, e), e, d), d, e), e, d), old)
    BY <1>3 DEF setDocumentElement
  <2>. PICK got : got = PmmNodeToSv(heap, old, d)
    OBVIOUS
  <2>. PICK out : out = Reparent(Unlink(got, old), old, f)
    OBVIOUS
  <2>. PICK set : set = PmmFixOwner(AddChild(SetTreeDoc(Unlink(out, e), e, d), d, e), e, d)
    OBVIOUS
  <2>2. heap' = Drop(set, old)
    BY <2>1
  <2>3. /\ Safe(got) /\ Holding(heap, got, old) /\ old \in Elems \cap got.live
        /\ got.alloc = heap.alloc /\ got.live = heap.live \cup {old} /\ got.parent = heap.parent
        /\ got.doc = heap.doc /\ heap.doc[old] = d /\ heap.parent[old] = d
    BY <1>1, OldRootHeld
  <2>4. f \in Frags \ (heap.alloc \cup heap.live) /\ old \notin Frags
    BY <2>3, FreshFrag, NodesAssumption
  <2>5. Safe(out) /\ Reparented(got, out, old, f)
    <3>1. f \in Frags \ (got.alloc \cup got.live) /\ got.doc[old] \in (Docs \cap got.live) \cup {NULL}
      BY <1>1, <2>3, <2>4
    <3>2. got.handles[old] > 0
      BY <2>3 DEF Holding
    <3>. QED BY <2>3, <3>1, <3>2, ReparentSafely
  <2>6. /\ out.handles = got.handles
        /\ \A x \in out.alloc : out.parent[x] = IF x = old THEN f ELSE heap.parent[x]
    BY <2>3, <2>5 DEF Reparented
  <2>7. out.handles[d] > 0 /\ out.handles[e] > 0 /\ out.handles[old] > 0
    BY <1>1, <2>3, <2>6 DEF Holding
  <2>8. d \in Docs \cap out.live /\ e \in Elems \cap out.live
    <3>1. Sound(out)
      BY <2>5, SafeFacts
    <3>. QED BY <1>1, <2>7, <3>1 DEF Sound, Counted
  <2>9. Kids(out, d) = {}
    <3>1. Kids(heap, d) = {old} /\ Treed(heap) /\ d # f /\ out.alloc \subseteq Nodes /\ d # NULL
      <4>1. heap \in Heaps /\ Stable(heap, {}, {}) /\ out.alloc \subseteq Nodes
        BY <2>5, SafeFacts
      <4>2. Kids(heap, d) = {old}
        BY <1>1, <4>1, NoRoot
      <4>. QED BY <1>1, <2>4, <4>1, <4>2, NodesAssumption, SizeFacts DEF Stable
    <3>2. \A x \in out.alloc : out.parent[x] = d => x # old /\ heap.parent[x] = d /\ x \in heap.alloc
      BY <2>6, <3>1 DEF Treed
    <3>. QED BY <3>1, <3>2 DEF Kids, Below
  <2>10. Safe(set) /\ set.handles = out.handles
    BY <2>5, <2>7, <2>8, <2>9, RootPlaced
  <2>11. old \in Nodes /\ set.handles[old] > 0
    BY <2>3, <2>7, <2>10, KindFacts
  <2>. QED BY <2>2, <2>10, <2>11, DropSafe
<1>. QED BY <1>2, <1>3

-----------------------------------------------------------------------------
(* Replacing a node. *)

(* What can be said of the tree when the nodes M have been placed below s
   and old has not left it yet. *)
LEMMA ReplacingTree ==
  ASSUME NEW h, NEW M, NEW s, NEW old, NEW to, NEW tree, Replacing(h, M, s, old, to, tree)
  PROVE  /\ Pending(tree, {}, {}, M) /\ tree \in Heaps /\ Treed(tree)
         /\ tree.parent \in Pointers /\ Grounded(tree.parent)
         /\ tree.owner \in Pointers /\ Grounded(tree.owner)
         /\ tree.live = h.live /\ tree.owner = h.owner /\ tree.alloc = h.alloc /\ tree.handles = h.handles
         /\ tree.doc[old] \in (Docs \cap h.live) \cup {NULL}
         /\ s \in h.alloc /\ s \in Nodes /\ to \in Nodes
         /\ old \notin Line(tree.parent, s) /\ Line(tree.parent, s) \cap M = {}
         /\ Keeps(tree.parent, tree.owner, to, s)
         /\ \A x \in Nodes : tree.parent[x] = IF x \in M THEN s ELSE h.parent[x]
         /\ \A x \in Nodes : Line(tree.parent, x) \cap M = Line(h.parent, x) \cap M
         /\ \A x \in Nodes : old \notin Line(tree.parent, x) \/ Line(tree.parent, x) \cap M = {}
<1>1. /\ Moving(h, {}, M, s, tree) /\ Pending(h, {}, {}, {}) /\ Placeable(h, M, s) /\ Relinked(h, tree, M, s)
      /\ M \in SUBSET Nodes /\ Stable(h, {}, {}) /\ Sound(tree)
  BY DEF Replacing, Moving, Pending
<1>2. Pending(tree, {} \ M, {}, M \cup {})
  BY <1>1, RelinkSafe
<1>3. Pending(tree, {}, {}, M)
  <2>1. {} \ M = {} /\ M \cup {} = M
    OBVIOUS
  <2>. QED BY <1>2, <2>1
<1>4. /\ h.parent \in Pointers /\ Grounded(h.parent) /\ h.alloc \subseteq Nodes /\ h.live \subseteq Nodes
      /\ h.owner \in Pointers /\ Grounded(h.owner) /\ NULL \notin Nodes /\ Nodes \subseteq Ends
      /\ \A q \in Docs \cup Frags : h.parent[q] = NULL
  BY <1>1, StableFacts
<1>5. /\ tree \in Heaps /\ Treed(tree) /\ tree.parent \in Pointers /\ Grounded(tree.parent)
      /\ tree.owner \in Pointers /\ Grounded(tree.owner)
  <2>1. Stable(tree, {}, {})
    BY <1>3 DEF Pending
  <2>. QED BY <2>1, StableFacts DEF Stable
<1>6. /\ s \in h.alloc /\ s \in Nodes /\ to \in Nodes /\ old \in Nodes /\ s \in Ends
      /\ h.parent[old] = s /\ old \notin M /\ old \notin Frags
  BY <1>1, <1>4, NodesAssumption DEF Placeable, Replacing
<1>7. /\ tree.live = h.live /\ tree.owner = h.owner /\ tree.alloc = h.alloc /\ tree.handles = h.handles
      /\ IsMove(h.parent, M, s, tree.parent)
  BY <1>1 DEF Relinked
<1>8. Apart(h.parent, M) /\ Line(h.parent, s) \cap M = {}
  BY <1>1 DEF Placeable
<1>9. /\ \A x \in Ends : Line(h.parent, x) \cap M = {} => Line(tree.parent, x) = Line(h.parent, x)
      /\ \A x \in Nodes : \A m \in M : m \in Line(h.parent, x) =>
           Line(tree.parent, x) = {y \in Line(h.parent, x) : m \in Line(h.parent, y)} \cup Line(h.parent, s)
      /\ \A x \in Ends : Line(tree.parent, x) \cap M = Line(h.parent, x) \cap M
  BY <1>1, <1>4, <1>6, <1>7, <1>8, RelinkLines
<1>10. /\ old \notin Line(h.parent, s) /\ Line(h.parent, old) = {old} \cup Line(h.parent, s)
       /\ Line(h.parent, old) \cap M = {}
  <2>1. old \notin Line(h.parent, s) /\ Line(h.parent, old) = {old} \cup Line(h.parent, s)
    BY <1>4, <1>6, LineUnfolds
  <2>. QED BY <1>6, <1>8, <2>1
<1>11. Line(tree.parent, s) = Line(h.parent, s)
  BY <1>6, <1>8, <1>9
<1>12. \A x \in Nodes : old \notin Line(tree.parent, x) \/ Line(tree.parent, x) \cap M = {}
  <2>1. SUFFICES ASSUME NEW x \in Nodes, NEW m \in M, m \in Line(tree.parent, x), old \in Line(tree.parent, x)
                 PROVE  FALSE
    OBVIOUS
  <2>2. m \in Line(h.parent, x)
    BY <1>4, <1>9, <2>1
  <2>3. old \in {y \in Line(h.parent, x) : m \in Line(h.parent, y)} \cup Line(h.parent, s)
    BY <1>9, <2>1, <2>2
  <2>. QED BY <1>10, <2>3
<1>13. tree.doc[old] \in (Docs \cap h.live) \cup {NULL}
  <2>1. tree.doc[old] = h.doc[old]
    BY <1>1, <1>6, <1>10 DEF Relinked
  <2>. QED BY <2>1 DEF Replacing
<1>14. Keeps(tree.parent, tree.owner, to, s)
  BY <1>7, <1>11 DEF Keeps, Replacing
<1>15. \A x \in Nodes : tree.parent[x] = IF x \in M THEN s ELSE h.parent[x]
  BY <1>7 DEF IsMove
<1>16. \A x \in Nodes : Line(tree.parent, x) \cap M = Line(h.parent, x) \cap M
  BY <1>4, <1>9
<1>. QED BY <1>3, <1>5, <1>6, <1>7, <1>8, <1>10, <1>11, <1>12, <1>13, <1>14, <1>15, <1>16

(* The node that is replaced leaves for a fragment of its own, while the
   owners below its successors M are still to be fixed. *)
LEMMA ReplacedOut ==
  ASSUME NEW h, NEW M, NEW s, NEW old, NEW to, NEW tree, Replacing(h, M, s, old, to, tree),
         NEW f \in Frags \ (h.alloc \cup h.live), NEW out, out = Reparent(Unlink(tree, old), old, f),
         to \in out.live
  PROVE  Staying(h, M, s, old, to, tree, out, f)
<1>1. /\ Pending(tree, {}, {}, M) /\ tree \in Heaps /\ Treed(tree)
      /\ tree.parent \in Pointers /\ Grounded(tree.parent)
      /\ tree.owner \in Pointers /\ Grounded(tree.owner)
      /\ tree.live = h.live /\ tree.owner = h.owner /\ tree.alloc = h.alloc /\ tree.handles = h.handles
      /\ tree.doc[old] \in (Docs \cap h.live) \cup {NULL}
      /\ s \in h.alloc /\ s \in Nodes /\ to \in Nodes
      /\ old \notin Line(tree.parent, s) /\ Line(tree.parent, s) \cap M = {}
      /\ Keeps(tree.parent, tree.owner, to, s)
      /\ \A x \in Nodes : tree.parent[x] = IF x \in M THEN s ELSE h.parent[x]
      /\ \A x \in Nodes : old \notin Line(tree.parent, x) \/ Line(tree.parent, x) \cap M = {}
  BY ReplacingTree
<1>2. /\ M \in SUBSET Elems /\ M \in SUBSET Nodes /\ old \in Elems /\ old \in h.live /\ h.handles[old] > 0
      /\ to \in h.live /\ M \subseteq h.alloc
  BY KindFacts DEF Replacing, Moving, Placeable
<1>3. Leaving(tree, old, f, M)
  BY <1>1, <1>2 DEF Leaving
<1>4. Minding(tree, out, old, M)
  BY <1>1, <1>2 DEF Minding
<1>5. Pending(out, {}, {}, M) /\ Reparented(tree, out, old, f)
  BY <1>1, <1>3, <1>4, ReparentSafe
<1>6. /\ out.parent \in Pointers /\ out.owner \in Pointers /\ Grounded(out.owner)
      /\ out.live \subseteq out.alloc /\ out.live \subseteq Nodes
      /\ \A q \in out.live : out.owner[q] \in out.live \cup {NULL}
  <2>1. Stable(out, {}, {})
    BY <1>5 DEF Pending
  <2>. QED BY <2>1, StableFacts
<1>7. to # f
  BY <1>2
<1>8. Line(Passing(out.owner), to) = Line(Passing(tree.owner), to)
  BY <1>5, <1>7 DEF Reparented
<1>9. Line(Passing(out.owner), to) \subseteq out.live
  BY <1>6, PassingWithin
<1>10. PICK q \in Line(tree.parent, s) : q \in Line(Passing(out.owner), to)
  BY <1>1, <1>8 DEF Keeps
<1>11. s \in out.alloc
  <2>1. Line(tree.parent, s) \cap out.alloc # {}
    BY <1>6, <1>9, <1>10
  <2>. QED BY <1>1, <1>5, <2>1 DEF Reparented
<1>12. Line(out.parent, s) = Line(tree.parent, s)
  BY <1>1, <1>5, <1>11 DEF Reparented
<1>13. Keeps(out.parent, out.owner, to, s)
  BY <1>8, <1>10, <1>12 DEF Keeps
<1>14. \A m \in M : out.parent[m] = s
  <2>1. SUFFICES ASSUME NEW m \in M PROVE out.parent[m] = s
    OBVIOUS
  <2>2. tree.parent[m] = s /\ m \in Nodes /\ m \in tree.alloc
    BY <1>1, <1>2
  <2>3. m \in Line(tree.parent, m) /\ Line(tree.parent, s) \subseteq Line(tree.parent, m)
    BY <1>1, <2>2, LineUnfolds
  <2>4. old \notin Line(tree.parent, m)
    BY <1>1, <2>2, <2>3
  <2>5. Line(tree.parent, m) \cap out.alloc # {}
    BY <1>6, <1>9, <1>10, <2>3
  <2>6. m \in out.alloc
    BY <1>5, <2>2, <2>4, <2>5 DEF Reparented
  <2>7. m # old
    BY <2>3, <2>4
  <2>. QED BY <1>5, <2>2, <2>6, <2>7 DEF Reparented
<1>. QED BY <1>1, <1>5, <1>11, <1>12, <1>13, <1>14 DEF Staying, Reparented

(* After the replaced node has left, the owner of what came in can be fixed. *)
LEMMA ReplacedPlacing ==
  ASSUME NEW h, NEW M, NEW s, NEW old, NEW to, NEW tree, Replacing(h, M, s, old, to, tree),
         NEW f \in Frags \ (h.alloc \cup h.live), NEW out, Staying(h, M, s, old, to, tree, out, f),
         NEW n \in h.live, Entering(h, M, n), M \cap Attrs \subseteq {n}, to # n, n # s, to \notin Attrs,
         NEW kept, SameShape(out, kept)
  PROVE  Placing(kept, M, {}, n, to, s)
<1>1. /\ tree.parent \in Pointers /\ Grounded(tree.parent)
      /\ tree.live = h.live /\ tree.owner = h.owner /\ tree.alloc = h.alloc
      /\ s \in h.alloc /\ s \in Nodes /\ old \notin Line(tree.parent, s)
      /\ \A x \in Nodes : tree.parent[x] = IF x \in M THEN s ELSE h.parent[x]
      /\ \A x \in Nodes : Line(tree.parent, x) \cap M = Line(h.parent, x) \cap M
  BY ReplacingTree
<1>2. /\ Pending(out, {}, {}, M) /\ Reparented(tree, out, old, f)
      /\ s \in out.alloc
      /\ out.live \subseteq h.live \cup {f}
      /\ Line(out.parent, s) \cap M = {} /\ Keeps(out.parent, out.owner, to, s)
      /\ \A m \in M : out.parent[m] = s
  BY DEF Staying
<1>3. Stable(out, {}, {}) /\ Stable(h, {}, {}) /\ Placeable(h, M, s)
  BY <1>2 DEF Pending, Replacing, Moving
<1>4. /\ out \in Heaps /\ out.parent \in Pointers /\ out.owner \in Pointers
      /\ out.live \subseteq out.alloc /\ out.alloc \subseteq Nodes /\ NULL \notin Nodes
      /\ \A q \in Docs \cup Frags : q \in Nodes
      /\ Cased(out) /\ Treed(out)
  BY <1>3, StableFacts DEF Stable
<1>5. Treed(h) /\ h.alloc \subseteq Nodes /\ h.live \subseteq h.alloc
  BY <1>3, StableFacts DEF Stable
<1>6. f \notin h.alloc /\ f # n /\ f \in Frags /\ f # s
  BY <1>1, <1>5
<1>7. \A x \in out.alloc : out.parent[x] = IF x = old THEN f ELSE tree.parent[x]
  BY <1>2 DEF Reparented
<1>8. \A x \in out.live \ {f} : out.owner[x] = IF old \in Line(tree.parent, x) THEN f ELSE h.owner[x]
  BY <1>1, <1>2 DEF Reparented
<1>9. n \in M \/ /\ n \in Frags /\ Below(kept, n) = {}
                 /\ \A v \in kept.live : kept.owner[v] = n => Line(kept.parent, v) \cap M # {}
  <2>1. SUFFICES ASSUME n \notin M
                 PROVE  /\ n \in Frags /\ Below(out, n) = {}
                        /\ \A v \in out.live : out.owner[v] = n => Line(out.parent, v) \cap M # {}
    BY DEF SameShape, Below
  <2>2. /\ n \in Frags /\ \A m \in Nodes : h.parent[m] = n => m \in M
        /\ \A v \in h.live : h.owner[v] = n => Line(h.parent, v) \cap M # {}
    BY <2>1 DEF Entering
  <2>3. \A x \in out.alloc : out.parent[x] # n
    BY <1>1, <1>4, <1>6, <1>7, <2>2
  <2>4. ASSUME NEW v \in out.live, out.owner[v] = n PROVE Line(out.parent, v) \cap M # {}
    <3>1. v # f
      <4>1. old \in out.live /\ old \in Nodes
        BY <1>2, <1>4 DEF Reparented
      <4>2. out.parent[old] = f
        BY <1>4, <1>7, <4>1
      <4>3. out.owner[f] = out.doc[f]
        BY <1>4, <1>6, <4>1, <4>2 DEF Cased
      <4>4. out.doc[f] \in Docs \cup {NULL}
        BY <1>4, <1>6 DEF Heaps
      <4>. QED BY <1>4, <2>2, <2>4, <4>3, <4>4, NodesAssumption
    <3>2. h.owner[v] = n /\ old \notin Line(tree.parent, v)
      BY <1>6, <1>8, <2>4, <3>1
    <3>3. v \in h.live /\ v \in out.alloc /\ v \in Nodes
      BY <1>2, <1>4, <3>1
    <3>4. Line(tree.parent, v) \cap M # {}
      BY <1>1, <2>2, <3>2, <3>3
    <3>5. Line(out.parent, v) = Line(tree.parent, v)
      BY <1>2, <3>2, <3>3 DEF Reparented
    <3>. QED BY <3>4, <3>5
  <2>. QED BY <2>2, <2>3, <2>4 DEF Below
<1>10. s \in Frags => out.owner[s] \in Docs \cup {NULL}
  <2>1. SUFFICES ASSUME s \in Frags, out.owner[s] # NULL PROVE out.owner[s] \in Docs \cup {NULL}
    OBVIOUS
  <2>2. s \in out.live
    BY <1>1, <1>4, <2>1 DEF Cased
  <2>3. out.owner[s] = h.owner[s]
    BY <1>1, <1>6, <1>8, <2>2
  <2>4. h.owner[s] = h.doc[s]
    BY <1>3, <2>1 DEF Placeable
  <2>5. h.doc[s] \in Docs \cup {NULL}
    <3>1. h \in Heaps
      BY <1>3, StableFacts
    <3>. QED BY <1>1, <3>1 DEF Heaps
  <2>. QED BY <2>3, <2>4, <2>5
<1>11. s \notin Attrs
  BY <1>3 DEF Placeable
<1>12. kept.parent = out.parent /\ kept.owner = out.owner
  BY DEF SameShape
<1>13. Line(out.parent, s) \cap (M \cup {}) = {} /\ {} \cap Attrs = {}
       /\ \A x \in Nodes : Line(out.parent, x) \cap {} = {}
  BY <1>2
<1>. QED BY <1>2, <1>9, <1>10, <1>11, <1>12, <1>13 DEF Placing

(* What the replacement carries along is what was moved below s. *)
LEMMA ReplacedCarried ==
  ASSUME NEW M, NEW s, NEW old, NEW to, NEW tree, Replacing(heap, M, s, old, to, tree),
         NEW f \in Frags \ (heap.alloc \cup heap.live), NEW out, Staying(heap, M, s, old, to, tree, out, f),
         NEW n \in heap.live, NEW kept, SameShape(out, kept)
  PROVE  Carried(heap, kept, M, n, to, s)
<1>. DEFINE F == tree.parent
            G == out.parent
<1>1. /\ F \in Pointers /\ Grounded(F) /\ tree.live = heap.live /\ tree.owner = heap.owner
      /\ tree.alloc = heap.alloc /\ s \in heap.alloc /\ s \in Nodes /\ old \notin Line(F, s)
      /\ \A x \in Nodes : Line(F, x) \cap M = Line(heap.parent, x) \cap M
      /\ \A x \in Nodes : old \notin Line(F, x) \/ Line(F, x) \cap M = {}
      /\ Pending(tree, {}, {}, M)
  BY ReplacingTree
<1>2. /\ Reparented(tree, out, old, f) /\ s \in out.alloc /\ out.live \subseteq heap.live \cup {f}
      /\ Stable(out, {}, {})
  BY DEF Staying, Pending
<1>3. /\ G \in Pointers /\ Grounded(G) /\ out.live \subseteq out.alloc /\ out.alloc \subseteq Nodes
      /\ Treed(out) /\ NULL \notin Nodes /\ \A q \in Frags : G[q] = NULL /\ q \in Nodes
  BY <1>2, StableFacts DEF Stable
<1>4. /\ Moving(heap, {}, M, s, tree) /\ M \in SUBSET Elems /\ M \cap Frags = {}
      /\ heap.alloc \subseteq Nodes /\ heap.live \subseteq heap.alloc /\ heap.live \subseteq Nodes
  <2>1. Stable(heap, {}, {}) /\ Moving(heap, {}, M, s, tree) /\ M \in SUBSET Elems
    BY DEF Replacing, Moving, Pending
  <2>. QED BY <2>1, StableFacts, NodesAssumption
<1>5. Carried(heap, tree, M, n, to, s)
  <2>1. \A x \in tree.live : x \in heap.live /\ tree.owner[x] = heap.owner[x]
    BY <1>1
  <2>2. tree.live \subseteq Nodes
    BY <1>1, <1>4
  <2>. QED BY <1>4, <2>1, <2>2, CarriedMoved
<1>6. /\ \A x \in out.alloc : G[x] = IF x = old THEN f ELSE F[x]
      /\ \A x \in out.alloc : old \notin Line(F, x) => Line(G, x) = Line(F, x)
      /\ \A x \in out.live \ {f} : out.owner[x] = IF old \in Line(F, x) THEN f ELSE heap.owner[x]
  BY <1>1, <1>2 DEF Reparented
<1>7. ASSUME NEW x \in out.alloc PROVE Line(G, x) \subseteq Line(F, x) \cup {f}
  <2>. PICK X : X = Line(F, x) \cup {f}
    OBVIOUS
  <2>1. x \in Nodes /\ x \in X /\ X \in SUBSET Nodes /\ \A y \in Line(F, x) : F[y] \in X \cup {NULL}
    <3>1. x \in Nodes /\ f \in Nodes
      BY <1>3
    <3>2. /\ Line(F, x) \in SUBSET Nodes /\ x \in Line(F, x)
          /\ \A y \in Line(F, x) : F[y] \in Line(F, x) \cup {NULL}
      BY <1>1, <3>1, LineFacts
    <3>. HIDE DEF F, G
    <3>. QED BY <3>1, <3>2
  <2>2. \A y \in X : G[y] \in X \cup {NULL}
    <3>1. ASSUME NEW y \in X, y \in out.alloc PROVE G[y] \in X \cup {NULL}
      BY <1>3, <1>6, <2>1, <3>1
    <3>2. ASSUME NEW y \in X, y \notin out.alloc PROVE G[y] = NULL
      BY <1>3, <2>1, <3>2 DEF Treed
    <3>. QED BY <3>1, <3>2
  <2>. QED BY <1>3, <2>1, <2>2, LineWithin
<1>8. /\ Line(kept.parent, s) = Line(heap.parent, s)
      /\ kept.parent = G /\ kept.live = out.live /\ kept.owner = out.owner
  BY <1>1, <1>2, <1>5, <1>6 DEF Carried, SameShape
<1>9. ASSUME NEW x \in out.live, NEW m \in M
      PROVE  /\ m \in Line(heap.parent, x) <=> m \in Line(G, x)
             /\ m \in Line(G, x) =>
                  /\ Line(G, x) \subseteq Line(heap.parent, x) \cup Line(heap.parent, s)
                  /\ x \in heap.live /\ out.owner[x] = heap.owner[x]
  <2>1. x \in Nodes /\ x \in out.alloc /\ m \in Nodes /\ m # f
    BY <1>3, <1>4, KindFacts
  <2>2. CASE m \in Line(F, x)
    <3>1. old \notin Line(F, x) /\ Line(G, x) = Line(F, x)
      BY <1>1, <1>6, <2>1, <2>2
    <3>2. x # f
      <4>1. Line(F, f) = {f}
        <5>1. F[f] = NULL /\ Line(F, NULL) = {} /\ f \in Nodes
          BY <1>1, <1>3, StableFacts DEF Pending
        <5>. QED BY <1>1, <5>1, LineUnfolds
      <4>. QED BY <2>1, <2>2, <4>1
    <3>3. x \in heap.live /\ out.owner[x] = heap.owner[x]
      BY <1>2, <1>6, <3>1, <3>2
    <3>4. /\ m \in Line(heap.parent, x)
          /\ Line(F, x) \subseteq Line(heap.parent, x) \cup Line(heap.parent, s)
      BY <1>1, <1>5, <2>2, <3>3 DEF Carried
    <3>. QED BY <2>2, <3>1, <3>3, <3>4
  <2>3. CASE m \notin Line(F, x)
    <3>1. m \notin Line(G, x)
      BY <1>7, <2>1, <2>3
    <3>2. m \notin Line(heap.parent, x)
      BY <1>1, <2>1, <2>3
    <3>. QED BY <3>1, <3>2
  <2>. QED BY <2>2, <2>3
<1>. QED BY <1>8, <1>9 DEF Carried

(* domReplaceNode with the fragment for the old node and PmmFixOwner of
   the new ones keeps the memory safe; the owner given to the new ones is
   that of the place they take. *)
LEMMA ReplaceSafe ==
  ASSUME Safe(heap), Uses = {}, NEW s \in Nodes, NEW n \in Nodes, NEW old \in Nodes, NEW to,
         Held(n), Held(old), to \in heap.live \ Attrs, to # n, Keeps(heap.parent, heap.owner, to, s),
         Replace(s, n, old, to)
  PROVE  Safe(heap')
<1>. PICK M : M = Moved(heap, n)
  OBVIOUS
<1>. PICK tree : tree = Graft(heap, s, n)
  OBVIOUS
<1>1. PICK f \in Free(heap, Frags) :
        LET out  == Reparent(Unlink(tree, old), old, f)
            kept == PmmNodeToSv(out, old, PmmOWNERPO(out, old))
        IN  Return(PmmFixOwner(kept, n, to), old)
  BY DEF Replace
<1>. PICK out : out = Reparent(Unlink(tree, old), old, f)
  OBVIOUS
<1>. PICK kept : kept = PmmNodeToSv(out, old, PmmOWNERPO(out, old))
  OBVIOUS
<1>. PICK done : done = PmmFixOwner(kept, n, to)
  OBVIOUS
<1>2. to \in out.live /\ Return(done, old) /\ OwnersFollow(M, n, to, s)
  <2>1. Sound(heap)
    BY SafeFacts
  <2>2. to \in out.live
    BY <2>1, ReplaceKeeps
  <2>3. OwnersFollow(M, n, to, s)
    BY DEF Replace
  <2>. QED BY <1>1, <2>2, <2>3
<1>3. /\ HierarchyOK(heap, s, n) /\ FragmentOK(n)
      /\ s \in Frags => heap.owner[s] = heap.doc[s]
      /\ old \in Kids(heap, s) /\ old # n /\ n # s
  BY DEF Replace, FragmentOK, HierarchyOK
<1>4. /\ Sound(heap) /\ Pending(heap, {}, {}, {}) /\ Stable(heap, {}, {}) /\ heap \in Heaps /\ Treed(heap)
      /\ n \in heap.live /\ n \in heap.alloc /\ heap.handles[n] > 0 /\ {} \in SUBSET Attrs
      /\ old \in heap.live /\ heap.handles[old] > 0
      /\ heap.doc[old] \in (Docs \cap heap.live) \cup {NULL}
      /\ \A q \in Docs \cup Frags : heap.parent[q] = NULL
  <2>1. Sound(heap) /\ Stable(heap, {}, {}) /\ Pending(heap, {}, {}, {})
    BY SafeFacts
  <2>. QED BY <2>1, StableFacts, HeldFacts DEF Stable
<1>5. heap.parent[old] = s /\ old \in Elems /\ s \in heap.alloc
  <2>1. heap.parent[old] = s /\ old \notin Attrs /\ s # NULL
    BY <1>3, NodesAssumption DEF Kids, Below
  <2>2. old \in Elems
    BY <1>4, <2>1 DEF Nodes
  <2>. QED BY <1>4, <2>1, <2>2 DEF Treed
<1>6. /\ tree \in Heaps /\ Relinked(heap, tree, M, s) /\ Placeable(heap, M, s)
      /\ M \in SUBSET Elems
      /\ n \in Frags => \A m \in M : heap.parent[m] = n
  BY <1>3, <1>4, <1>5, GraftRelinks
<1>7. Moving(heap, {}, M, s, tree)
  BY <1>4, <1>6, RelinkSound, KindFacts DEF Moving
<1>8. Replacing(heap, M, s, old, to, tree)
  <2>1. old \notin M
    BY <1>3, <1>5, <1>6 DEF Moved
  <2>. QED BY <1>4, <1>5, <1>6, <1>7, <2>1 DEF Replacing
<1>9. Staying(heap, M, s, old, to, tree, out, f)
  BY <1>2, <1>8, FreshFrag, ReplacedOut
<1>10. /\ Pending(out, {}, {}, M) /\ Sound(out) /\ old \in out.live /\ out.handles = heap.handles
       /\ PmmOWNERPO(out, old) \in out.live /\ PmmOWNERPO(out, old) \in Nodes \cup {NULL}
  <2>1. Pending(out, {}, {}, M) /\ old \in out.live /\ out.handles = heap.handles
    BY <1>9 DEF Staying, Reparented
  <2>2. Sound(out) /\ Stable(out, {}, {})
    BY <2>1 DEF Pending, Stable
  <2>3. PmmOWNERPO(out, old) \in out.live
    BY <2>1, <2>2, OwnerLive
  <2>4. out.live \subseteq Nodes
    BY <2>2, StableFacts
  <2>. QED BY <2>1, <2>2, <2>3, <2>4
<1>11. Sound(kept)
  BY <1>10, NodeToSvSound
<1>12. Pending(kept, {}, {}, M) /\ SameShape(out, kept) /\ Holding(out, kept, old)
  <2>1. Pending(kept, {}, {} \ {old}, M) /\ SameShape(out, kept) /\ Holding(out, kept, old)
    BY <1>10, <1>11, NodeToSvAgain
  <2>2. {} \ {old} = {}
    OBVIOUS
  <2>. QED BY <2>1, <2>2
<1>13. Entering(heap, M, n) /\ M \cap Attrs \subseteq {n}
  BY <1>3, <1>4, <1>6, EnteringMoved, NodesAssumption
<1>14. Placing(kept, M, {}, n, to, s)
  BY <1>3, <1>4, <1>8, <1>9, <1>12, <1>13, FreshFrag, ReplacedPlacing
<1>15. FixedBelow(kept, done, M, n, to)
  <2>1. n \in kept.live /\ to \in kept.live /\ kept.handles[n] > 0
    <3>1. kept.handles[n] > 0
      BY <1>4, <1>10, <1>12 DEF Holding
    <3>. QED BY <1>2, <1>11, <1>12, <3>1 DEF SameShape, Sound, Counted
  <2>2. Carried(heap, kept, M, n, to, s)
    BY <1>4, <1>8, <1>9, <1>12, FreshFrag, ReplacedCarried
  <2>3. M \cup {} = M /\ M \in SUBSET Nodes /\ s \in Nodes \cap heap.alloc
    BY <1>5, <1>6, KindFacts DEF Sound, Counted, Heaps
  <2>. QED BY <1>2, <1>4, <1>12, <1>14, <2>1, <2>2, <2>3, FollowFixed
<1>. PICK W : W = {}
  OBVIOUS
<1>. PICK E : E = {}
  OBVIOUS
<1>16. kept.handles[n] > 0 /\ n \in kept.live /\ to \in kept.live /\ M \in SUBSET Nodes /\ W \in SUBSET Nodes
  <2>1. kept.handles[n] > 0
    BY <1>4, <1>10, <1>12 DEF Holding
  <2>. QED BY <1>2, <1>6, <1>11, <1>12, <2>1, KindFacts DEF SameShape, Sound, Counted
<1>17. Pending(kept, {}, E, M \cup W) /\ Placing(kept, M, W, n, to, s) /\ Watched(kept, done, W)
  <2>1. M \cup W = M
    OBVIOUS
  <2>. QED BY <1>12, <1>14, <2>1 DEF Watched
<1>18. Pending(done, {}, E \ {to}, W) /\ Placed(kept, M, n, done)
  BY Zenon, <1>4, <1>15, <1>16, <1>17, FixOwnerPending
<1>19. Safe(done)
  <2>1. E \ {to} = {}
    OBVIOUS
  <2>. QED BY <1>18, <2>1, SafeIsPending
<1>20. done.handles[old] > 0
  BY <1>12, <1>18 DEF Placed, Holding
<1>. QED BY <1>2, <1>19, <1>20, ReturnSafe

(* The owner of what lies elsewhere is not n. *)
LEMMA NotItsOwner ==
  ASSUME Safe(heap), Uses = {}, NEW v \in heap.live, NEW n \in Elems \cup Frags, FragmentOK(n),
         n \notin Line(heap.parent, v), Keeps(heap.parent, heap.owner, PmmOWNERPO(heap, v), v)
  PROVE  PmmOWNERPO(heap, v) # n
<1>1. /\ heap \in Heaps /\ Grounded(heap.parent) /\ heap.parent \in Pointers
      /\ heap.owner \in Pointers /\ Grounded(heap.owner) /\ v \in Nodes /\ n \in Nodes
  BY SafeFacts, StableFacts, KindFacts
<1>2. n # v
  BY <1>1, LineUnfolds
<1>. SUFFICES ASSUME PmmOWNERPO(heap, v) = n PROVE FALSE
  OBVIOUS
<1>3. heap.owner[v] = n
  BY <1>2 DEF PmmOWNERPO
<1>4. CASE n \in Frags
  <2>1. v \in Subtree(heap, n)
    BY <1>3, <1>4 DEF FragmentOK, Ownees
  <2>. QED BY <1>1, <2>1, SubtreeLines
<1>5. CASE n \notin Frags
  <2>1. Line(Passing(heap.owner), n) = {n}
    BY <1>1, <1>5, PassingFacts
  <2>. QED BY <2>1 DEF Keeps
<1>. QED BY <1>4, <1>5

(* replaceChild (LibXML.xs) keeps the memory safe. *)
LEMMA replaceChildSafe ==
  ASSUME Safe(heap), Uses = {}, NEW s \in Nodes, NEW n \in Nodes, NEW old \in Nodes, replaceChild(s, n, old)
  PROVE  Safe(heap')
<1>1. Held(s) /\ Held(n) /\ Held(old) /\ Sound(heap) /\ Stable(heap, {}, {})
  BY SafeFacts DEF replaceChild
<1>2. CASE s \notin Docs /\ KeepsTree(s) /\ Replace(s, n, old, PmmOWNERPO(heap, s))
  <2>. PICK to : to = PmmOWNERPO(heap, s)
    OBVIOUS
  <2>1. s \in heap.live /\ n # s /\ s \notin Attrs /\ (s \notin Frags \/ heap.owner[s] = NULL)
    BY <1>1, <1>2, HeldFacts DEF KeepsTree, Replace, HierarchyOK
  <2>2. to \in heap.live \ Attrs /\ Keeps(heap.parent, heap.owner, to, s)
    BY <2>1, KeepsOwner
  <2>3. to # n
    <3>1. n \in Elems \cup Frags /\ FragmentOK(n) /\ n \notin Ancestors(heap, s)
      BY <1>2 DEF Replace, HierarchyOK
    <3>2. n \notin Line(heap.parent, s)
      BY <1>1, <2>1, <3>1, StableFacts, SubtreeLines
    <3>. QED BY <2>1, <2>2, <3>1, <3>2, NotItsOwner
  <2>. QED BY <1>1, <1>2, <2>2, <2>3, ReplaceSafe
<1>3. CASE Return(PmmNodeToSv(heap, n, PmmOWNERPO(heap, n)), n)
  <2>. PICK r : r = PmmNodeToSv(heap, n, PmmOWNERPO(heap, n))
    OBVIOUS
  <2>1. n \in heap.live /\ PmmOWNERPO(heap, n) \in heap.live \cup {NULL}
    BY <1>1, HeldFacts, OwnerLive
  <2>2. Safe(r) /\ Holding(heap, r, n)
    BY <2>1, AgainSafe
  <2>. QED BY <1>3, <2>2, ReturnSafe DEF Holding
<1>. QED BY <1>2, <1>3 DEF replaceChild

(* replaceNode (LibXML.xs) keeps the memory safe. *)
LEMMA replaceNodeSafe ==
  ASSUME Safe(heap), Uses = {}, NEW old \in Nodes, NEW n \in Nodes, replaceNode(old, n)
  PROVE  Safe(heap')
<1>. PICK s : s = heap.parent[old]
  OBVIOUS
<1>. PICK to : to = PmmOWNERPO(heap, old)
  OBVIOUS
<1>1. /\ Held(n) /\ Held(old) /\ Sound(heap) /\ Stable(heap, {}, {}) /\ Replace(s, n, old, to)
      /\ old \notin Attrs /\ s # NULL /\ n \notin Ancestors(heap, old)
  BY SafeFacts DEF replaceNode
<1>2. /\ old \in heap.live /\ heap \in Heaps /\ Grounded(heap.parent) /\ heap.parent \in Pointers
      /\ s \in Nodes /\ old \notin Frags
  BY <1>1, StableFacts, HeldFacts DEF Ends
<1>3. to \in heap.live \ Attrs /\ Keeps(heap.parent, heap.owner, to, s) /\ Keeps(heap.parent, heap.owner, to, old)
  BY <1>1, <1>2, KeepsOwner
<1>4. to # n
  <2>1. n \in Elems \cup Frags /\ FragmentOK(n) /\ old # n
    BY <1>1 DEF Replace, HierarchyOK
  <2>2. n \notin Line(heap.parent, old)
    BY <1>1, <1>2, <2>1, SubtreeLines
  <2>. QED BY <1>2, <1>3, <2>1, <2>2, NotItsOwner
<1>. QED BY <1>1, <1>2, <1>3, <1>4, ReplaceSafe

-----------------------------------------------------------------------------
(* New trees and copies. *)

(* A tree that was just made is safe in a fragment of its own. *)
LEMMA FreshInFragment ==
  ASSUME NEW h, NEW n, NEW d, NewRoot(h, n, d), Pending(h, {n}, {}, {}),
         NEW f \in Frags \ (h.alloc \cup h.live),
         NEW r, r = PmmNodeToSv(AddChild(PmmNewFragment(h, f, d), f, n), n, f)
  PROVE  Safe(r) /\ r.handles[n] > 0
<1>. PICK b : b = PmmNewFragment(h, f, d)
  OBVIOUS
<1>. PICK put : put = AddChild(b, f, n)
  OBVIOUS
<1>. PICK W : W = {}
  OBVIOUS
<1>. PICK L : L = {n}
  OBVIOUS
<1>. PICK E : E = {f}
  OBVIOUS
<1>. PICK M : M = {n}
  OBVIOUS
<1>1. /\ n \in Elems /\ n \in Nodes /\ f \in Nodes /\ f # n /\ f \in Frags /\ n \in h.alloc
      /\ n \notin Attrs /\ n \notin Docs /\ n \notin Frags /\ f \notin Attrs
      /\ L \in SUBSET Nodes /\ W \in SUBSET Elems /\ W \in SUBSET Nodes /\ M \in SUBSET Nodes /\ f \notin L
      /\ d \in (Docs \cap h.live) \cup {NULL}
  BY KindFacts, NodesAssumption DEF NewRoot
<1>2. /\ h.parent \in Pointers /\ Grounded(h.parent) /\ h.live \subseteq h.alloc /\ h.live \subseteq Nodes
      /\ Line(h.parent, NULL) = {} /\ \A q \in Frags : h.parent[q] = NULL
  <2>1. Stable(h, {n}, {})
    BY DEF Pending
  <2>. QED BY <2>1, StableFacts
<1>3. Pending(b, L, {f}, W) /\ FreshFragment(h, b, f, d)
  BY <1>1, FragmentFresh
<1>4. /\ b \in Heaps /\ Treed(b) /\ b.parent = h.parent /\ b.doc[f] = d /\ b.doc[n] = d
      /\ b.owner \in Pointers /\ Grounded(b.owner) /\ Sound(b)
      /\ b.alloc = h.alloc \cup {f} /\ b.live = h.live \cup {f} /\ b.owner[f] = d
  <2>1. Stable(b, L, {f})
    BY <1>3 DEF Pending
  <2>. QED BY <1>1, <1>3, <2>1, StableFacts DEF FreshFragment, Stable, NewRoot
<1>5. /\ put \in Heaps /\ SameProxies(b, put) /\ put.alloc = b.alloc /\ put.doc = b.doc
      /\ \A x \in Nodes : put.parent[x] = IF x = n THEN f ELSE h.parent[x]
  <2>1. [b.parent EXCEPT ![n] = f] \in [Nodes -> Nodes \cup {NULL}]
    BY <1>1, <1>4 DEF Heaps
  <2>2. put = [b EXCEPT !.parent = [b.parent EXCEPT ![n] = f]]
    BY <1>4 DEF AddChild, Heaps
  <2>3. put \in Heaps
    BY <1>4, <2>1, <2>2 DEF Heaps
  <2>4. SameProxies(b, put) /\ put.alloc = b.alloc /\ put.doc = b.doc
    BY <1>4, <2>2 DEF Heaps, SameProxies
  <2>5. \A x \in Nodes : put.parent[x] = IF x = n THEN f ELSE h.parent[x]
    BY <1>4, <2>1, <2>2 DEF Heaps
  <2>. QED BY <2>3, <2>4, <2>5
<1>6. Relinked(b, put, {n}, f)
  <2>1. IsMove(b.parent, {n}, f, put.parent)
    BY <1>4, <1>5 DEF IsMove, Heaps, Pointers, Ends
  <2>. QED BY <1>1, <1>4, <1>5, <2>1, RelinkHere
<1>7. Line(h.parent, f) = {f} /\ Apart(h.parent, M)
  BY <1>1, <1>2, LineUnfolds DEF Apart, NewRoot
<1>8. Placeable(b, M, f) /\ Relinked(b, put, M, f)
  BY <1>1, <1>4, <1>6, <1>7 DEF Placeable
<1>9. Sound(put)
  BY <1>4, <1>5, <1>8, RelinkSound
<1>10. Pending(put, L \ M, E, M \cup W)
  <2>1. L \cap b.live \subseteq Attrs
    BY <1>1, <1>4 DEF NewRoot
  <2>2. Line(b.parent, f) \cap W = {}
    OBVIOUS
  <2>3. \A x \in Nodes : Line(b.parent, x) \cap M = {} \/ Line(b.parent, x) \cap W = {}
    OBVIOUS
  <2>. QED BY <1>1, <1>3, <1>8, <1>9, <2>1, <2>2, <2>3, RelinkPending
<1>11. /\ put.parent \in Pointers /\ Grounded(put.parent) /\ put.live = h.live \cup {f}
       /\ put.owner = b.owner /\ put.alloc = h.alloc \cup {f}
       /\ \A x \in Ends : Line(put.parent, x) \cap M = Line(h.parent, x) \cap M
  <2>1. IsMove(h.parent, M, f, put.parent)
    BY <1>4, <1>8 DEF Relinked
  <2>2. f \in Ends /\ Line(h.parent, f) \cap M = {}
    BY <1>1, <1>7 DEF Ends
  <2>3. /\ put.parent \in Pointers /\ Grounded(put.parent)
        /\ \A x \in Ends : Line(put.parent, x) \cap M = Line(h.parent, x) \cap M
    BY <1>1, <1>2, <1>7, <2>1, <2>2, RelinkLines
  <2>. QED BY <1>4, <1>5, <2>3 DEF SameProxies
<1>12. Pending(put, L \ M, E, W)
  <2>1. \A x \in put.live : Line(put.parent, x) \cap M = {}
    <3>1. \A x \in put.live : x \in Ends /\ n \notin Line(h.parent, x)
      BY <1>1, <1>2, <1>7, <1>11 DEF NewRoot, Ends
    <3>. QED BY <1>11, <3>1
  <2>. QED BY <1>10, <2>1, NothingBelow
<1>13. Ownable(put, W, n, f)
  <2>1. Keeps(put.parent, put.owner, f, put.parent[n])
    BY SMTT(30), <1>1, <1>4, <1>5, <1>11, LineFacts, PassingFacts DEF Keeps
  <2>2. put.parent[n] = f /\ f # NULL
    BY <1>1, <1>5, NodesAssumption
  <2>. QED BY <1>1, <1>11, <2>1, <2>2 DEF Ownable
<1>14. WithMemory(put, put, n)
  BY <1>1, <1>5, <1>11 DEF WithMemory, SameProxies
<1>15. Sound(r) /\ n \in Nodes \ put.live
  BY <1>1, <1>9, <1>11, NodeToSvSound DEF NewRoot
<1>16. Pending(r, (L \ M) \ {n}, E \ {n, f}, W) /\ Holding(put, r, n)
  BY <1>1, <1>12, <1>13, <1>14, <1>15, NodeToSvNew
<1>17. (L \ M) \ {n} = {} /\ E \ {n, f} = {}
  OBVIOUS
<1>. QED BY <1>16, <1>17, SafeIsPending DEF Holding

(* createElement, and XML::LibXML::Element->new (LibXML.xs), keep the
   memory safe: the element starts in a fragment. *)
LEMMA createElementSafe ==
  ASSUME Safe(heap), NEW d \in Docs \cup {NULL}, createElement(d)
  PROVE  Safe(heap')
<1>1. PICK e \in Free(heap, Elems), f \in Free(heap, Frags) :
        Return(PmmNodeToSv(AddChild(PmmNewFragment(Making(heap, e, d), f, d), f, e), e, f), e)
  BY Zenon DEF createElement, InNewFragment, Making
<1>. PICK made : made = Making(heap, e, d)
  OBVIOUS
<1>. PICK r : r = PmmNodeToSv(AddChild(PmmNewFragment(made, f, d), f, e), e, f)
  OBVIOUS
<1>2. /\ e \in Elems \ (heap.alloc \cup heap.live) /\ f \in Frags \ (heap.alloc \cup heap.live)
      /\ e # f /\ e \in Nodes /\ d \in (Docs \cap heap.live) \cup {NULL}
  BY SafeFacts, HeldFacts, NodesAssumption, KindFacts DEF Free, createElement
<1>3. /\ heap \in Heaps /\ Treed(heap) /\ heap.live \subseteq heap.alloc /\ heap.alloc \subseteq Nodes
      /\ Pending(heap, {}, {}, {})
  BY SafeFacts DEF Stable
<1>4. Pending(made, {} \cup {e}, {}, {}) /\ WithMemory(heap, made, e) /\ made.doc[e] = d
  <2>. PICK L : L = {}
    OBVIOUS
  <2>1. e \in (Elems \cup Attrs) \ (heap.alloc \cup heap.live) /\ d \in Docs \cup {NULL}
    BY <1>2
  <2>2. Pending(heap, L, L, L)
    BY <1>3
  <2>3. Pending(made, L \cup {e}, L, L) /\ WithMemory(heap, made, e) /\ made.doc[e] = d
    BY <2>1, <2>2, MadePending
  <2>. QED BY <2>3
<1>5. /\ Pending(made, {e}, {}, {}) /\ made.parent = heap.parent /\ made.live = heap.live
      /\ made.alloc = heap.alloc \cup {e}
  <2>1. {} \cup {e} = {e}
    OBVIOUS
  <2>. QED BY <1>4, <2>1 DEF WithMemory, SameProxies
<1>6. NewRoot(made, e, d)
  <2>1. \A x \in heap.live : e \notin Line(heap.parent, x)
    BY <1>2, <1>3, LinesInMemory
  <2>2. heap.parent[e] = NULL
    BY <1>2, <1>3 DEF Treed
  <2>. QED BY <1>2, <1>4, <1>5, <2>1, <2>2 DEF NewRoot
<1>7. f \in Frags \ (made.alloc \cup made.live)
  BY <1>2, <1>5
<1>8. Safe(r) /\ r.handles[e] > 0
  BY <1>5, <1>6, <1>7, FreshInFragment
<1>. QED BY <1>1, <1>2, <1>8, ReturnSafe

(* What a copy of the nodes S is: a new node for each, with the links of
   the originals. *)
LEMMA CopyFields ==
  ASSUME NEW h, Sound(h), NEW n, NEW S, NEW g, NEW d, NEW c, Copying(h, n, S, g, d, c)
  PROVE  Sound(c) /\ CopyIs(h, n, S, g, d, c)
<1>. DEFINE new     == {g[m] : m \in S}
            orig(x) == CHOOSE m \in S : g[m] = x
            up(x)   == h.parent[orig(x)]
            doc     == [x \in Nodes |-> IF x \in new THEN d ELSE h.doc[x]]
            parent  == [x \in Nodes |-> IF x \notin new THEN h.parent[x]
                                        ELSE IF x # g[n] /\ up(x) \in S THEN g[up(x)]
                                        ELSE NULL]
<1>1. /\ h \in Heaps /\ S \in SUBSET Nodes /\ n \in S /\ d \in Docs \cup {NULL} /\ g \in CopyMaps(h, S)
      /\ c = Copied(h, n, S, g, d) /\ \A m \in S : m # n => h.parent[m] \in S
  BY DEF Copying, Sound, Counted, Heaps
<1>2. Sound(c) /\ SameProxies(h, c)
  BY <1>1, CopiedSound
<1>3. \A m \in S : g[m] \in Nodes /\ g[m] \notin h.alloc /\ g[m] \notin h.live
                   /\ g[m] \in Elems \cup Attrs /\ (m \in Attrs <=> g[m] \in Attrs)
  BY <1>1, KindFacts DEF CopyMaps, Free
<1>4. \A m1, m2 \in S : g[m1] = g[m2] => m1 = m2
  BY <1>1 DEF CopyMaps
<1>5. c.alloc = h.alloc \cup new /\ c.doc = doc /\ c.parent = parent
  <2>1. c = [h EXCEPT !.alloc = h.alloc \cup new, !.doc = doc, !.parent = parent]
    BY <1>1 DEF Copied, Heaps
  <2>. HIDE DEF doc, parent, new
  <2>. QED BY <1>1, <2>1 DEF Heaps
<1>6. \A m \in S : orig(g[m]) = m
  BY <1>4
<1>7. \A x \in Nodes : x \notin new => c.parent[x] = h.parent[x] /\ c.doc[x] = h.doc[x]
  BY <1>5
<1>8. \A m \in S : c.doc[g[m]] = d
  BY <1>3, <1>5
<1>9. \A m \in S : c.parent[g[m]] = IF m = n THEN NULL ELSE g[h.parent[m]]
  <2>1. SUFFICES ASSUME NEW m \in S PROVE parent[g[m]] = IF m = n THEN NULL ELSE g[h.parent[m]]
    BY <1>5
  <2>2. g[m] \in new /\ g[m] \in Nodes /\ up(g[m]) = h.parent[m]
    BY <1>3, <1>6
  <2>3. g[m] = g[n] <=> m = n
    BY <1>1, <1>4
  <2>. HIDE DEF up, new
  <2>. QED BY <1>1, <2>2, <2>3
<1>10. c \in Heaps
  BY <1>2 DEF Sound, Counted
<1>. HIDE DEF doc, parent, up, orig
<1>. QED BY <1>2, <1>3, <1>4, <1>5, <1>7, <1>8, <1>9, <1>10 DEF CopyIs

(* A copy of a tree is a tree: following parents ends from every copied
   node. *)
LEMMA CopyGrounded ==
  ASSUME NEW h, Stable(h, {}, {}), NEW n, NEW S, NEW g, NEW d, NEW c, Copying(h, n, S, g, d, c),
         CopyIs(h, n, S, g, d, c)
  PROVE  c.parent \in Pointers /\ Grounded(c.parent)
<1>. PICK new : new = {g[m] : m \in S}
  OBVIOUS
<1>1. /\ h.parent \in Pointers /\ Grounded(h.parent) /\ Treed(h) /\ h.alloc \subseteq Nodes /\ NULL \notin Nodes
      /\ S \subseteq Nodes /\ S \subseteq h.alloc
  BY StableFacts DEF Stable, Copying
<1>2. c.parent \in Pointers
  BY DEF CopyIs, Heaps, Pointers, Ends
<1>3. /\ \A x \in Nodes : x \notin new => c.parent[x] = h.parent[x]
      /\ \A m \in S : c.parent[g[m]] = IF m = n THEN NULL ELSE g[h.parent[m]]
      /\ \A x \in new : x \in Nodes /\ x \notin h.alloc
      /\ \A m1, m2 \in S : g[m1] = g[m2] => m1 = m2
  BY DEF CopyIs
<1>4. \A m \in S : m # n => h.parent[m] \in S
  BY DEF Copying
<1>5. ASSUME NEW X \in SUBSET Nodes, X # {} PROVE \E x \in X : c.parent[x] \notin X
  <2>1. CASE X \subseteq new
    <3>. PICK Y : Y = {m \in S : g[m] \in X}
      OBVIOUS
    <3>1. Y \in SUBSET Nodes /\ Y # {}
      BY <1>1, <1>5, <2>1
    <3>2. PICK m \in Y : h.parent[m] \notin Y
      BY <1>1, <3>1 DEF Grounded, Rooted
    <3>3. m \in S /\ g[m] \in X
      OBVIOUS
    <3>4. c.parent[g[m]] \notin X
      <4>1. CASE m = n
        BY <1>1, <1>3, <3>3, <4>1
      <4>2. CASE m # n
        BY <1>3, <1>4, <3>2, <3>3, <4>2
      <4>. QED BY <4>1, <4>2
    <3>. QED BY <3>3, <3>4
  <2>2. CASE ~(X \subseteq new)
    <3>. PICK Z : Z = X \ new
      OBVIOUS
    <3>1. Z \in SUBSET Nodes /\ Z # {}
      BY <2>2
    <3>2. PICK x \in Z : h.parent[x] \notin Z
      BY <1>1, <3>1 DEF Grounded, Rooted
    <3>3. x \in Nodes /\ x \in X /\ c.parent[x] = h.parent[x]
      BY <1>3, <3>1
    <3>4. h.parent[x] \notin new
      BY <1>1, <1>3, <3>3 DEF Treed
    <3>. QED BY <3>2, <3>3, <3>4
  <2>. QED BY <2>1, <2>2
<1>. QED BY <1>2, <1>5 DEF Grounded, Rooted

(* The copy is a tree of its own, whose root alone is not in a fragment yet. *)
LEMMA CopyStable ==
  ASSUME NEW h, Safe(h), NEW n, NEW S, NEW g, NEW d, NEW c, Copying(h, n, S, g, d, c)
  PROVE  Pending(c, {g[n]}, {}, {}) /\ NewRoot(c, g[n], d) /\ c.handles = h.handles
<1>. PICK new : new = {g[m] : m \in S}
  OBVIOUS
<1>. PICK W : W = {}
  OBVIOUS
<1>1. /\ Sound(h) /\ Stable(h, {}, {}) /\ h \in Heaps /\ Treed(h) /\ Cased(h) /\ Homed(h, {}) /\ Wanted(h, {})
      /\ h.parent \in Pointers /\ Grounded(h.parent) /\ h.owner \in Pointers /\ Grounded(h.owner)
      /\ h.live \subseteq h.alloc /\ h.alloc \subseteq Nodes /\ NULL \notin Nodes
      /\ \A q \in Docs \cup Frags : h.parent[q] = NULL /\ q \in Nodes
  BY SafeFacts, StableFacts DEF Stable
<1>2. Sound(c) /\ CopyIs(h, n, S, g, d, c)
  BY <1>1, CopyFields
<1>3. c.parent \in Pointers /\ Grounded(c.parent)
  BY <1>1, <1>2, CopyGrounded
<1>4. /\ c \in Heaps /\ c.alloc = h.alloc \cup new
      /\ c.live = h.live /\ c.owner = h.owner /\ c.count = h.count /\ c.handles = h.handles
      /\ \A x \in Nodes : x \notin new => c.parent[x] = h.parent[x] /\ c.doc[x] = h.doc[x]
      /\ \A m \in S : c.doc[g[m]] = d
      /\ \A m \in S : c.parent[g[m]] = IF m = n THEN NULL ELSE g[h.parent[m]]
      /\ \A x \in new : x \in Nodes /\ x \notin h.alloc /\ x \notin h.live /\ x \in Elems \cup Attrs
      /\ \A m \in S : m \in Attrs <=> g[m] \in Attrs
  BY <1>2 DEF CopyIs, SameProxies
<1>5. /\ S \subseteq h.alloc /\ n \in S /\ n \in Elems /\ d \in (Docs \cap h.live) \cup {NULL}
      /\ \A m \in S : m # n => h.parent[m] \in S
  BY DEF Copying
<1>6. /\ \A x \in new : x \notin Docs /\ x \notin Frags
      /\ n \notin Attrs /\ n \notin Frags
  BY <1>4, <1>5, NodesAssumption
<1>7. \A m \in S : g[m] \in new
  OBVIOUS
<1>8. \A x \in new : \E m \in S : g[m] = x
  OBVIOUS
<1>9. Treed(c)
  <2>1. ASSUME NEW x \in Nodes, c.parent[x] # NULL
        PROVE  x \in c.alloc /\ c.parent[x] \in c.alloc /\ c.doc[x] = c.doc[c.parent[x]]
    <3>1. CASE x \in new
      <4>1. PICK m \in S : g[m] = x
        BY <1>8, <3>1
      <4>2. c.parent[x] = g[h.parent[m]] /\ h.parent[m] \in S
        BY <1>4, <1>5, <2>1, <4>1
      <4>3. c.parent[x] \in new /\ c.doc[x] = d /\ c.doc[c.parent[x]] = d
        BY <1>4, <1>7, <4>1, <4>2
      <4>. QED BY <1>4, <3>1, <4>3
    <3>2. CASE x \notin new
      <4>1. c.parent[x] = h.parent[x] /\ c.doc[x] = h.doc[x] /\ h.parent[x] # NULL
        BY <1>4, <2>1, <3>2
      <4>2. x \in h.alloc /\ h.parent[x] \in h.alloc /\ h.doc[x] = h.doc[h.parent[x]]
        BY <1>1, <4>1 DEF Treed
      <4>3. h.parent[x] \in Nodes /\ h.parent[x] \notin new
        BY <1>1, <1>4, <4>2
      <4>. QED BY <1>4, <4>1, <4>2, <4>3
    <3>. QED BY <3>1, <3>2
  <2>2. \A f \in Frags : c.parent[f] = NULL
    BY <1>1, <1>4, <1>6
  <2>3. ASSUME NEW a \in Attrs PROVE c.parent[a] \in Elems \cup {NULL}
    <3>1. CASE a \in new
      <4>1. PICK m \in S : g[m] = a
        BY <1>8, <3>1
      <4>2. m \in Attrs /\ m # n
        BY <1>4, <1>6, <4>1
      <4>3. h.parent[m] \in S /\ h.parent[m] \in Elems
        BY <1>1, <1>5, <4>2 DEF Treed
      <4>4. g[h.parent[m]] \notin Attrs /\ g[h.parent[m]] \in Elems \cup Attrs
        BY <1>4, <1>7, <4>3, NodesAssumption
      <4>. QED BY <1>4, <4>1, <4>2, <4>4
    <3>2. CASE a \notin new
      <4>1. c.parent[a] = h.parent[a]
        BY <1>4, <3>2, KindFacts
      <4>. QED BY <1>1, <4>1 DEF Treed
    <3>. QED BY <3>1, <3>2
  <2>4. \A q \in Docs \cap c.alloc : c.doc[q] = q
    <3>1. \A q \in Docs \cap c.alloc : q \in h.alloc /\ c.doc[q] = h.doc[q]
      BY <1>1, <1>4, <1>6
    <3>. QED BY <1>1, <3>1 DEF Treed
  <2>. QED BY <1>3, <2>1, <2>2, <2>3, <2>4 DEF Treed
<1>10. Homed(c, {g[n]})
  <2>. SUFFICES ASSUME NEW x \in c.alloc, x # g[n], c.parent[x] = NULL
                PROVE  x \in c.live /\ x \notin Elems
    BY DEF Homed
  <2>1. x \notin new
    <3>. SUFFICES ASSUME x \in new PROVE FALSE
      OBVIOUS
    <3>1. PICK m \in S : g[m] = x
      BY <1>8
    <3>2. c.parent[x] = g[h.parent[m]] /\ h.parent[m] \in S
      BY <1>4, <1>5, <3>1
    <3>3. g[h.parent[m]] \in Nodes
      BY <1>4, <1>7, <3>2
    <3>. QED BY <1>1, <3>2, <3>3
  <2>2. x \in h.alloc /\ h.parent[x] = NULL /\ x \notin {}
    BY <1>1, <1>4, <2>1
  <2>. QED BY <1>1, <1>4, <2>2 DEF Homed
<1>11. Cased(c)
  <2>1. ASSUME NEW x \in Nodes, c.parent[x] \in Frags PROVE c.owner[c.parent[x]] = c.doc[c.parent[x]]
    <3>1. x \notin new
      <4>. SUFFICES ASSUME x \in new PROVE FALSE
        OBVIOUS
      <4>1. PICK m \in S : g[m] = x
        BY <1>8
      <4>2. m # n => c.parent[x] \in new
        BY <1>4, <1>5, <1>7, <4>1
      <4>3. m = n => c.parent[x] = NULL
        BY <1>4, <4>1
      <4>. QED BY <1>1, <1>6, <2>1, <4>2, <4>3
    <3>2. c.parent[x] = h.parent[x] /\ c.doc[h.parent[x]] = h.doc[h.parent[x]]
      BY <1>1, <1>4, <1>6, <2>1, <3>1
    <3>3. h.owner[h.parent[x]] = h.doc[h.parent[x]]
      BY <1>1, <2>1, <3>2 DEF Cased
    <3>. QED BY <1>4, <3>2, <3>3
  <2>2. \A q \in Nodes : c.owner[q] # NULL => q \in c.live \ Docs /\ c.owner[q] \notin Attrs
    BY <1>1, <1>4 DEF Cased
  <2>. QED BY <1>1, <1>4, <2>1, <2>2 DEF Cased
<1>12. Wanted(c, {})
  BY <1>1, <1>4 DEF Wanted
<1>13. Stable(c, {g[n]}, {})
  BY <1>2, <1>9, <1>10, <1>11, <1>12 DEF Stable
<1>14. ASSUME NEW x \in h.alloc PROVE Line(c.parent, x) = Line(h.parent, x)
  <2>1. Line(h.parent, x) \subseteq h.alloc
    BY <1>1, LinesInMemory
  <2>2. \A y \in Line(h.parent, x) : c.parent[y] = h.parent[y]
    BY <1>1, <1>4, <2>1
  <2>. QED BY <1>1, <1>3, <2>2, LineAgrees
<1>15. OwnedBut(c, W)
  <2>. SUFFICES ASSUME NEW x \in h.live, c.parent[x] # NULL PROVE Anchored(c.parent, c.owner, x)
    BY <1>4 DEF OwnedBut
  <2>1. c.parent[x] = h.parent[x] /\ x \in Nodes
    BY <1>1, <1>4
  <2>2. h.parent[x] \in h.alloc
    BY <1>1, <2>1 DEF Treed
  <2>3. Anchored(h.parent, h.owner, x)
    BY <2>1 DEF Safe, Owned
  <2>4. Line(c.parent, h.parent[x]) = Line(h.parent, h.parent[x])
    BY <1>14, <2>2
  <2>. QED BY <1>4, <2>1, <2>3, <2>4 DEF Anchored, Keeps
<1>16. Loose(c, W)
  BY DEF Loose
<1>17. Pending(c, {g[n]}, {}, {})
  BY <1>13, <1>15, <1>16 DEF Pending
<1>18. NewRoot(c, g[n], d)
  <2>1. g[n] \in (Elems \cap c.alloc) \ c.live /\ c.parent[g[n]] = NULL /\ c.doc[g[n]] = d
    BY <1>4, <1>5, <1>6, <1>7
  <2>2. \A x \in c.live : g[n] \notin Line(c.parent, x)
    <3>1. \A x \in h.live : Line(h.parent, x) \subseteq h.alloc /\ Line(c.parent, x) = Line(h.parent, x)
      BY <1>1, <1>14, LinesInMemory
    <3>2. g[n] \notin h.alloc
      BY <1>4, <1>5, <1>7
    <3>. QED BY <1>4, <3>1, <3>2
  <2>. QED BY <1>4, <1>5, <2>1, <2>2 DEF NewRoot
<1>. QED BY <1>4, <1>17, <1>18

(* A handler that copies a tree into a new fragment and returns the copy
   keeps the memory safe. *)
LEMMA CopyInFragmentSafe ==
  ASSUME Safe(heap), NEW S \in SUBSET heap.alloc, NEW n \in S \cap Elems,
         NEW d \in (Docs \cap heap.live) \cup {NULL}, \A m \in S : m # n => heap.parent[m] \in S,
         CopyInFragment(n, S, d)
  PROVE  Safe(heap')
<1>1. PICK g \in CopyMaps(heap, S) :
        \E f \in Free(Copied(heap, n, S, g, d), Frags) :
          LET frag == PmmNewFragment(Copied(heap, n, S, g, d), f, d)
          IN  Return(PmmNodeToSv(AddChild(frag, f, g[n]), g[n], f), g[n])
  BY DEF CopyInFragment
<1>. PICK copy : copy = Copied(heap, n, S, g, d)
  OBVIOUS
<1>2. PICK f \in Free(copy, Frags) :
        Return(PmmNodeToSv(AddChild(PmmNewFragment(copy, f, d), f, g[n]), g[n], f), g[n])
  BY <1>1
<1>. PICK e : e = g[n]
  OBVIOUS
<1>. PICK r : r = PmmNodeToSv(AddChild(PmmNewFragment(copy, f, d), f, e), e, f)
  OBVIOUS
<1>3. Copying(heap, n, S, g, d, copy)
  BY DEF Copying
<1>4. Pending(copy, {e}, {}, {}) /\ NewRoot(copy, e, d)
  BY <1>3, CopyStable
<1>5. f \in Frags \ (copy.alloc \cup copy.live)
  BY DEF Free
<1>6. Safe(r) /\ r.handles[e] > 0 /\ e \in Nodes
  BY <1>4, <1>5, FreshInFragment, KindFacts DEF NewRoot
<1>. QED BY <1>2, <1>6, ReturnSafe

(* The nodes of a subtree are in memory, and only its top has its parent
   outside of it. *)
LEMMA SubtreeCopied ==
  ASSUME Safe(heap), NEW n \in heap.alloc
  PROVE  /\ Subtree(heap, n) \in SUBSET heap.alloc /\ n \in Subtree(heap, n)
         /\ \A m \in Subtree(heap, n) : m # n => heap.parent[m] \in Subtree(heap, n)
<1>1. /\ heap \in Heaps /\ Treed(heap) /\ heap.parent \in Pointers /\ Grounded(heap.parent)
      /\ heap.alloc \subseteq Nodes /\ n \in Nodes /\ NULL \notin Nodes
  BY SafeFacts, StableFacts DEF Stable
<1>2. Subtree(heap, n) = {m \in heap.alloc : n \in Line(heap.parent, m)}
  BY <1>1, SubtreeLines
<1>3. \A m \in Nodes : Line(heap.parent, m) = {m} \cup Line(heap.parent, heap.parent[m])
  BY <1>1, LineUnfolds
<1>4. Line(heap.parent, NULL) = {}
  BY <1>1, LineUnfolds
<1>5. n \in Line(heap.parent, n)
  BY <1>1, <1>3
<1>6. ASSUME NEW m \in heap.alloc, n \in Line(heap.parent, m), m # n
      PROVE  heap.parent[m] \in heap.alloc /\ n \in Line(heap.parent, heap.parent[m])
  <2>1. n \in Line(heap.parent, heap.parent[m])
    BY <1>1, <1>3, <1>6
  <2>2. heap.parent[m] # NULL
    BY <1>4, <2>1
  <2>. QED BY <1>1, <2>1, <2>2 DEF Treed
<1>. QED BY <1>2, <1>5, <1>6

(* cloneNode (LibXML.xs), deep or not, keeps the memory safe. *)
LEMMA cloneNodeSafe ==
  ASSUME Safe(heap), NEW n \in Nodes, NEW deep \in BOOLEAN, cloneNode(n, deep)
  PROVE  Safe(heap')
<1>. PICK S : S = IF deep THEN Subtree(heap, n) ELSE {n} \cup Props(heap, n)
  OBVIOUS
<1>1. /\ n \in Elems /\ n \in heap.alloc /\ heap.doc[n] \in (Docs \cap heap.live) \cup {NULL}
      /\ CopyInFragment(n, S, heap.doc[n])
  BY SafeFacts, HeldFacts DEF cloneNode
<1>2. S \in SUBSET heap.alloc /\ n \in S /\ \A m \in S : m # n => heap.parent[m] \in S
  <2>1. CASE deep
    BY <1>1, <2>1, SubtreeCopied
  <2>2. CASE ~deep
    BY <1>1, <2>2 DEF Props, Below
  <2>. QED BY <2>1, <2>2
<1>. QED BY <1>1, <1>2, CopyInFragmentSafe

(* importNode (LibXML.xs) keeps the memory safe: the copy belongs to the
   importing document. *)
LEMMA importNodeSafe ==
  ASSUME Safe(heap), NEW d \in Nodes, NEW n \in Nodes, importNode(d, n)
  PROVE  Safe(heap')
<1>. PICK S : S = Subtree(heap, n)
  OBVIOUS
<1>1. /\ n \in Elems /\ n \in heap.alloc /\ d \in Docs \cap heap.live
      /\ CopyInFragment(n, S, d)
  BY SafeFacts, HeldFacts DEF importNode
<1>2. S \in SUBSET heap.alloc /\ n \in S /\ \A m \in S : m # n => heap.parent[m] \in S
  BY <1>1, SubtreeCopied
<1>. QED BY <1>1, <1>2, CopyInFragmentSafe

(* No step that makes nodes makes the memory unsafe. *)
LEMMA CreateSafe ==
  ASSUME Safe(heap), Create
  PROVE  Safe(heap')
<1>1. CASE createDocument \/ \E d \in Docs : createDocumentFragment(d) \/ createAttribute(d)
  BY <1>1, createDocumentSafe, createDocumentFragmentSafe, createAttributeSafe
<1>2. CASE \E d \in Docs \cup {NULL} : createElement(d)
  BY <1>2, createElementSafe
<1>3. CASE \E e \in Elems : setAttribute(e) \/ cloneNode(e, TRUE) \/ cloneNode(e, FALSE)
  BY <1>3, setAttributeSafe, cloneNodeSafe, KindFacts
<1>4. CASE \E d \in Docs, n \in Kept : importNode(d, n)
  <2>1. Kept \subseteq Nodes
    BY SafeFacts DEF Kept
  <2>. QED BY <1>4, <2>1, importNodeSafe, KindFacts
<1>. QED BY <1>1, <1>2, <1>3, <1>4 DEF Create

-----------------------------------------------------------------------------
(* Emptying a node. *)

(* removeChildNodes moves the children of s below a new fragment, in which
   no proxy below them is owned by the fragment yet. *)
LEMMA EmptyingMoves ==
  ASSUME NEW h, NEW s, NEW f, NEW b, NEW moved, Emptying(h, s, f, b, moved)
  PROVE  Emptied(h, s, f, b, moved)
<1>. PICK d : d = h.doc[s]
  OBVIOUS
<1>. PICK K : K = Kids(h, s)
  OBVIOUS
<1>. PICK L : L = {}
  OBVIOUS
<1>. PICK E : E = {f}
  OBVIOUS
<1>1. /\ Sound(h) /\ Pending(h, L, {}, L) /\ h \in Heaps /\ Treed(h)
      /\ h.parent \in Pointers /\ Grounded(h.parent) /\ h.alloc \subseteq Nodes /\ NULL \notin Nodes
      /\ s \in Nodes /\ s \in h.alloc /\ s \in h.live /\ Nodes \subseteq Ends /\ Line(h.parent, NULL) = {}
      /\ \A q \in Docs \cup Frags : h.parent[q] = NULL /\ q \in Nodes
      /\ d \in (Docs \cap h.live) \cup {NULL} /\ f \in Frags \ (h.alloc \cup h.live) /\ f \in Nodes
      /\ b = PmmNewFragment(h, f, d)
  <2>1. Safe(h) /\ s \in h.live
    BY DEF Emptying
  <2>2. Sound(h) /\ Stable(h, {}, {}) /\ Pending(h, L, {}, L)
    BY <2>1, SafeFacts
  <2>. QED BY <2>1, <2>2, StableFacts, KindFacts DEF Stable, Emptying
<1>2. Pending(b, L, {f}, L) /\ FreshFragment(h, b, f, d)
  BY <1>1, FragmentFresh
<1>3. /\ b \in Heaps /\ Treed(b) /\ Sound(b) /\ b.parent = h.parent /\ b.doc[f] = d
      /\ b.alloc = h.alloc \cup {f} /\ b.live = h.live \cup {f} /\ b.owner[f] = d
      /\ b.handles = h.handles /\ \A x \in h.alloc : b.doc[x] = h.doc[x]
      /\ Stable(b, L, E)
  BY <1>1, <1>2, StableFacts DEF Pending, Stable, FreshFragment
<1>4. /\ K \subseteq Elems /\ K \subseteq h.alloc /\ K \subseteq Nodes /\ K \cap Attrs = {}
      /\ \A m \in K : h.parent[m] = s
  <2>1. K \subseteq h.alloc /\ K \cap Attrs = {} /\ \A m \in K : h.parent[m] = s
    BY DEF Kids, Below
  <2>2. \A m \in K : m \notin Docs \cup Frags
    BY <1>1, <2>1
  <2>. QED BY <1>1, <2>1, <2>2 DEF Nodes
<1>5. /\ moved \in Heaps /\ SameProxies(b, moved) /\ moved.alloc = b.alloc /\ moved.doc = b.doc
      /\ \A x \in Nodes : moved.parent[x] = IF x \in K THEN f ELSE h.parent[x]
  <2>. PICK over : over = [n \in Nodes |-> IF n \in K THEN f ELSE b.parent[n]]
    OBVIOUS
  <2>1. over \in [Nodes -> Nodes \cup {NULL}]
    BY <1>1, <1>3 DEF Heaps
  <2>2. moved = [b EXCEPT !.parent = over]
    BY <1>3 DEF Emptying, Heaps
  <2>3. moved \in Heaps
    BY <1>3, <2>1, <2>2 DEF Heaps
  <2>. QED BY <1>3, <2>2, <2>3 DEF Heaps, SameProxies
<1>6. IsMove(h.parent, K, f, moved.parent)
  BY <1>5 DEF IsMove, Heaps, Pointers, Ends
<1>7. /\ Line(h.parent, f) = {f} /\ Line(h.parent, f) \cap K = {} /\ Apart(h.parent, K) /\ f \in Ends
  <2>1. Line(h.parent, f) = {f}
    BY <1>1, LineUnfolds
  <2>2. f \notin K
    BY <1>1, <1>4
  <2>3. Line(h.parent, s) \cap K = {}
    BY <1>1, <1>4, LineUnfolds
  <2>. QED BY <1>1, <1>4, <2>1, <2>2, <2>3 DEF Apart
<1>8. Placeable(b, K, f)
  BY <1>1, <1>3, <1>4, <1>7, NodesAssumption DEF Placeable
<1>9. Relinked(b, moved, K, f)
  <2>1. ASSUME NEW x \in Nodes, Line(b.parent, x) \cap K # {} PROVE moved.doc[x] = b.doc[f]
    <3>1. PICK m \in K : m \in Line(b.parent, x)
      BY <2>1
    <3>2. m \in h.alloc /\ m \in Nodes
      BY <1>4
    <3>3. b.doc[m] = b.doc[x]
      BY <1>3, <3>1, SameDocs
    <3>4. b.doc[m] = h.doc[m] /\ h.doc[m] = h.doc[s]
      BY <1>1, <1>3, <1>4, <3>2 DEF Treed
    <3>. QED BY <1>3, <1>5, <3>3, <3>4
  <2>. QED BY <1>3, <1>5, <1>6, <2>1 DEF Relinked, SameProxies
<1>10. Sound(moved)
  BY <1>3, <1>5, <1>8, <1>9, RelinkSound
<1>11. Stable(moved, L \ K, E)
  BY <1>3, <1>8, <1>9, <1>10, RelinkStable
<1>12. L \ K = {}
  OBVIOUS
<1>13. /\ \A x \in Ends : Line(h.parent, x) \cap K = {} => Line(moved.parent, x) = Line(h.parent, x)
       /\ \A x \in Ends : Line(moved.parent, x) \cap K = Line(h.parent, x) \cap K
  BY <1>1, <1>4, <1>6, <1>7, RelinkLines
<1>14. /\ moved.live = h.live \cup {f} /\ moved.owner = b.owner /\ moved.handles = h.handles
       /\ moved.alloc = h.alloc \cup {f}
  BY <1>3, <1>5 DEF SameProxies
<1>15. Pending(b, {}, {f}, {}) /\ FreshFragment(h, b, f, h.doc[s])
  BY <1>2
<1>. QED BY <1>1, <1>4, <1>5, <1>11, <1>12, <1>13, <1>14, <1>15 DEF Emptied

(* PmmFixOwnerNodes reaches exactly the proxies below the children that
   were moved. *)
LEMMA EmptiedReached ==
  ASSUME NEW h, NEW s, NEW f, NEW b, NEW moved, Emptying(h, s, f, b, moved),
         NEW S, S = Reached(moved, EmptiedRoots(moved, Kids(h, s)), f)
  PROVE  /\ \A x \in S : x \in moved.live /\ x \notin Docs /\ Line(h.parent, x) \cap Kids(h, s) # {}
         /\ \A x \in h.live : Line(h.parent, x) \cap Kids(h, s) # {} => x \in S
<1>. PICK K : K = Kids(h, s)
  OBVIOUS
<1>. PICK roots : roots = EmptiedRoots(moved, K)
  OBVIOUS
<1>1. Emptied(h, s, f, b, moved)
  BY EmptyingMoves
<1>2. /\ FreshFragment(h, b, f, h.doc[s]) /\ Stable(moved, {}, {f}) /\ K \in SUBSET Elems
      /\ moved.live = h.live \cup {f} /\ moved.owner = b.owner /\ moved.alloc = h.alloc \cup {f}
      /\ \A x \in Nodes : moved.parent[x] = IF x \in K THEN f ELSE h.parent[x]
      /\ \A x \in Nodes : Line(moved.parent, x) \cap K = Line(h.parent, x) \cap K
      /\ f \in Frags \ (h.alloc \cup h.live)
  BY <1>1 DEF Emptied, Emptying
<1>3. /\ moved \in Heaps /\ moved.parent \in Pointers /\ Grounded(moved.parent)
      /\ moved.live \subseteq moved.alloc /\ moved.alloc \subseteq Nodes /\ NULL \notin Nodes
      /\ \A q \in Docs \cup Frags : moved.parent[q] = NULL
      /\ \A q \in Nodes : moved.parent[q] \notin Attrs
  BY <1>2, StableFacts
<1>4. h \in Heaps /\ h.live \subseteq h.alloc /\ h.alloc \subseteq Nodes
  BY SafeFacts DEF Emptying
<1>5. K \subseteq Nodes /\ K \subseteq h.alloc
  BY <1>2, KindFacts DEF Kids, Below
<1>6. \A r \in roots : r \in Nodes /\ (r \in K \/ moved.parent[r] \in K)
  BY <1>3, <1>5 DEF EmptiedRoots, Kids, Below
<1>7. \A r \in roots : Line(moved.parent, r) \cap K # {}
  <2>. SUFFICES ASSUME NEW r \in roots PROVE Line(moved.parent, r) \cap K # {}
    OBVIOUS
  <2>1. r \in Line(moved.parent, r) /\ (moved.parent[r] # NULL => moved.parent[r] \in Line(moved.parent, r))
    BY <1>3, <1>6, LineFacts
  <2>. QED BY <1>3, <1>5, <1>6, <2>1
<1>8. ASSUME NEW x \in S PROVE x \in moved.live /\ x \notin Docs /\ Line(h.parent, x) \cap K # {}
  <2>1. PICK r \in roots : x \in Subtree(moved, r)
    BY DEF Reached
  <2>2. x \in moved.live /\ x \notin Docs /\ x \in Nodes
    BY <1>3 DEF Reached
  <2>3. r \in Line(moved.parent, x)
    BY <1>3, <1>6, <2>1, SubtreeLines
  <2>4. Line(moved.parent, r) \subseteq Line(moved.parent, x)
    BY <1>3, <2>2, <2>3, LineFacts
  <2>5. Line(moved.parent, x) \cap K # {}
    BY <1>7, <2>4
  <2>. QED BY <1>2, <2>2, <2>5
<1>9. ASSUME NEW x \in h.live, Line(h.parent, x) \cap K # {} PROVE x \in S
  <2>1. x \in moved.live /\ x \in Nodes /\ x \in moved.alloc
    BY <1>2, <1>3
  <2>2. PICK m \in K : m \in Line(moved.parent, x)
    BY <1>2, <1>9, <2>1
  <2>3. \A q \in Nodes : moved.owner[q] # f
    BY <1>2 DEF FreshFragment
  <2>4. x \notin Docs
    <3>. SUFFICES ASSUME x \in Docs PROVE FALSE
      OBVIOUS
    <3>1. moved.parent[x] = NULL
      BY <1>3
    <3>2. Line(moved.parent, x) = {x}
      BY <1>3, <2>1, <3>1, LineUnfolds
    <3>. QED BY <1>2, <2>2, <3>2, NodesAssumption
  <2>5. \E r \in roots : x \in Subtree(moved, r)
    <3>1. CASE m \in moved.live
      <4>1. m \in roots
        BY <3>1 DEF EmptiedRoots
      <4>2. x \in Subtree(moved, m)
        BY <1>3, <1>5, <2>1, <2>2, SubtreeLines
      <4>. QED BY <4>1, <4>2
    <3>2. CASE m \notin moved.live
      <4>1. m # x /\ m \in Nodes
        BY <1>5, <2>1, <3>2
      <4>2. PICK y \in Line(moved.parent, x) : moved.parent[y] = m
        BY <1>3, <2>1, <2>2, <4>1, LineChild
      <4>3. y \in Nodes
        BY <1>3, <2>1, LineFacts
      <4>4. y \in moved.alloc
        BY <1>2, <1>3, <4>1, <4>2, <4>3 DEF Stable, Treed
      <4>5. y \notin Attrs
        <5>. SUFFICES ASSUME y \in Attrs PROVE FALSE
          OBVIOUS
        <5>1. x = y
          BY <1>3, <2>1, <4>2, AttributeAlone DEF Ends
        <5>2. h.parent[x] = m
          <6>1. x \notin K
            BY <1>2, <5>1, NodesAssumption
          <6>. QED BY <1>2, <2>1, <4>2, <5>1, <6>1
        <5>3. x \in Props(h, m)
          BY <1>4, <5>1, <5>2 DEF Props, Below
        <5>4. m \in Kids(h, s) \ h.live
          BY <1>2, <3>2
        <5>. QED BY <5>3, <5>4 DEF Emptying
      <4>6. y \in Kids(moved, m)
        BY <4>2, <4>4, <4>5 DEF Kids, Below
      <4>7. y \in roots
        BY <3>2, <4>6 DEF EmptiedRoots
      <4>8. x \in Subtree(moved, y)
        BY <1>3, <2>1, <4>2, <4>3, SubtreeLines
      <4>. QED BY <4>7, <4>8
    <3>. QED BY <3>1, <3>2
  <2>6. PICK r \in roots : x \in Subtree(moved, r)
    BY <2>5
  <2>7. \A a \in Ancestors(moved, x) \cap Subtree(moved, r) \cap moved.live : moved.owner[a] # f
    BY <1>3, <2>3
  <2>. QED BY <2>1, <2>3, <2>4, <2>6, <2>7 DEF Reached
<1>. QED BY <1>8, <1>9

(* The fragment may own all that is below the children. *)
LEMMA EmptiedReowning ==
  ASSUME NEW h, NEW s, NEW f, NEW b, NEW moved, Emptying(h, s, f, b, moved),
         NEW S, S = Reached(moved, EmptiedRoots(moved, Kids(h, s)), f)
  PROVE  Reowning(moved, S, f)
<1>. PICK K : K = Kids(h, s)
  OBVIOUS
<1>. PICK F : F = h.parent
  OBVIOUS
<1>. PICK H : H = moved.parent
  OBVIOUS
<1>. PICK O : O = moved.owner
  OBVIOUS
<1>. PICK G : G = Given(moved, S, f)
  OBVIOUS
<1>1. /\ \A x \in S : x \in moved.live /\ x \notin Docs /\ Line(F, x) \cap K # {}
      /\ \A x \in h.live : Line(F, x) \cap K # {} => x \in S
  BY EmptiedReached
<1>2. Emptied(h, s, f, b, moved)
  BY EmptyingMoves
<1>3. /\ FreshFragment(h, b, f, h.doc[s]) /\ Stable(moved, {}, {f}) /\ K \in SUBSET Elems
      /\ moved.live = h.live \cup {f} /\ moved.owner = b.owner /\ moved.alloc = h.alloc \cup {f}
      /\ \A x \in Nodes : H[x] = IF x \in K THEN f ELSE F[x]
      /\ \A x \in Nodes : Line(F, x) \cap K = {} => Line(H, x) = Line(F, x)
      /\ \A x \in Nodes : Line(H, x) \cap K = Line(F, x) \cap K
      /\ f \in Frags \ (h.alloc \cup h.live) /\ Safe(h) /\ h.doc[s] \in (Docs \cap h.live) \cup {NULL}
  BY <1>2 DEF Emptied, Emptying
<1>4. /\ moved \in Heaps /\ H \in Pointers /\ Grounded(H) /\ O \in Pointers /\ Grounded(O)
      /\ moved.live \subseteq Nodes /\ NULL \notin Nodes /\ Line(O, NULL) = {}
      /\ \A q \in Docs \cup Frags : H[q] = NULL /\ q \in Nodes
      /\ \A q \in Docs : O[q] = NULL
  BY <1>3, StableFacts
<1>5. /\ h \in Heaps /\ F \in Pointers /\ Grounded(F) /\ h.live \subseteq Nodes /\ Treed(h) /\ h.alloc \subseteq Nodes
      /\ Line(F, NULL) = {} /\ h.owner \in Pointers /\ Grounded(h.owner)
      /\ \A q \in Docs \cup Frags : F[q] = NULL
      /\ \A q \in h.live : h.owner[q] \in h.live \cup {NULL}
  BY <1>3, SafeFacts, StableFacts DEF Stable
<1>6. f \in Nodes /\ f \notin Attrs /\ f \notin Docs /\ f \notin K /\ K \subseteq Nodes
      /\ \A x \in Docs \cup Frags : x \notin K
  BY <1>3, NodesAssumption, KindFacts
<1>7. /\ O[f] = h.doc[s] /\ \A q \in h.live : O[q] = h.owner[q]
  <2>1. IsMove(h.owner, {f}, h.doc[s], b.owner) /\ b.owner[f] = h.doc[s]
    BY <1>3 DEF FreshFragment
  <2>. QED BY <1>3, <1>5, <2>1 DEF IsMove
<1>8. \A x \in S : x \notin Frags
  <2>. SUFFICES ASSUME NEW x \in S, x \in Frags PROVE FALSE
    OBVIOUS
  <2>1. Line(F, x) = {x}
    BY <1>4, <1>5, LineUnfolds
  <2>. QED BY <1>1, <1>6, <2>1
<1>9. S \in SUBSET (moved.live \ Docs) /\ f \in moved.live
  BY <1>1, <1>3
<1>10. Line(O, f) \cap S = {}
  <2>1. Line(O, f) = {f} \cup Line(O, O[f])
    BY <1>4, <1>6, LineUnfolds
  <2>2. Line(O, O[f]) \subseteq {O[f]} /\ (O[f] = NULL \/ O[f] \in Docs)
    <3>1. CASE O[f] = NULL
      BY <1>4, <3>1
    <3>2. CASE O[f] \in Docs
      <4>1. O[O[f]] = NULL /\ O[f] \in Nodes
        BY <1>4, <3>2
      <4>2. Line(O, O[f]) = {O[f]} \cup Line(O, O[O[f]])
        BY <1>4, <4>1, LineUnfolds
      <4>. QED BY <1>4, <3>2, <4>1, <4>2
    <3>. QED BY <1>3, <1>7, <3>1, <3>2
  <2>. QED BY <1>1, <1>3, <1>4, <1>8, <2>1, <2>2
<1>11. G \in Pointers /\ Grounded(G)
  BY <1>4, <1>6, <1>10, GivenGrounded DEF Ends
<1>12. \A x \in Nodes : G[x] = IF x \in S THEN f ELSE O[x]
  BY DEF Given
<1>13. \A m \in Nodes : H[m] \notin Frags \cap S
  BY <1>8
<1>14. ASSUME NEW x \in moved.live, H[x] # NULL PROVE Anchored(H, G, x)
  <2>1. x \in h.live /\ x \in Nodes /\ x # f
    BY <1>3, <1>4, <1>14
  <2>2. CASE Line(F, x) \cap K # {}
    <3>1. x \in S /\ G[x] = f
      BY <1>1, <1>12, <2>1, <2>2
    <3>2. PICK m \in K : m \in Line(H, x)
      BY <1>3, <2>1, <2>2
    <3>3. H[m] = f
      BY <1>3, <1>6
    <3>4. f \in Line(H, H[x])
      <4>1. f \in Line(H, x)
        BY SMTT(30), <1>4, <1>6, <2>1, <3>2, <3>3, LineFacts
      <4>. QED BY <1>4, <2>1, <4>1, LineUnfolds
    <3>5. f \in Line(Passing(G), f)
      BY <1>6, <1>11, PassingFacts
    <3>. QED BY <3>1, <3>4, <3>5 DEF Anchored, Keeps
  <2>3. CASE Line(F, x) \cap K = {}
    <3>1. x \notin S /\ x \notin K /\ H[x] = F[x] /\ F[x] # NULL
      <4>1. x \in Line(F, x)
        BY <1>5, <2>1, LineFacts
      <4>. QED BY <1>1, <1>3, <1>14, <2>1, <2>3, <4>1
    <3>2. G[x] = h.owner[x]
      BY <1>7, <1>12, <2>1, <3>1
    <3>3. Anchored(F, h.owner, x)
      BY <1>3, <2>1, <3>1 DEF Safe, Owned
    <3>4. h.owner[x] # NULL
      BY <1>5, <3>3, AnchoredOwned
    <3>5. h.owner[x] \in h.live /\ h.owner[x] \in Nodes
      BY <1>5, <2>1, <3>4
    <3>6. Line(Passing(h.owner), h.owner[x]) \subseteq h.live
      BY <1>5, <3>5, PassingWithin
    <3>7. \A v \in Line(Passing(h.owner), h.owner[x]) \cap Frags : G[v] = h.owner[v]
      BY <1>5, <1>7, <1>8, <1>12, <3>6
    <3>8. Line(Passing(G), h.owner[x]) = Line(Passing(h.owner), h.owner[x])
      BY <1>5, <1>11, <3>5, <3>7, PassingAgrees
    <3>9. Line(H, H[x]) = Line(F, F[x])
      <4>1. F[x] \in Nodes /\ Line(F, F[x]) \cap K = {}
        <5>1. F[x] \in Nodes
          BY <1>5, <2>1, <3>1 DEF Pointers, Ends
        <5>2. Line(F, F[x]) \subseteq Line(F, x)
          BY <1>5, <2>1, LineUnfolds
        <5>. QED BY <2>3, <5>1, <5>2
      <4>. QED BY <1>3, <3>1, <4>1
    <3>. QED BY <3>2, <3>3, <3>8, <3>9 DEF Anchored, Keeps
  <2>. QED BY <2>2, <2>3
<1>. QED BY <1>3, <1>6, <1>9, <1>10, <1>13, <1>14 DEF Reowning

(* When removeChildNodes gives up a fragment that owns nothing, the
   fragment is freed with everything in it, and nothing that has a proxy. *)
LEMMA FragmentGivenUp ==
  ASSUME NEW h, NEW f \in Nodes, Stable(h, {}, {f}), Owned(h), ~(h.count[f] > 0)
  PROVE  Safe(PmmREFCNT_dec(GivenUp(h, f), OneOf(f)))
<1>. PICK mid, drops : mid = GivenUp(h, f) /\ drops = OneOf(f)
  OBVIOUS
<1>. PICK r : r = PmmREFCNT_dec(mid, drops)
  OBVIOUS
<1>. PICK L, E : L = {} /\ E = {f}
  OBVIOUS
<1>1. Sound(h) /\ Counted(h) /\ h \in Heaps /\ Stable(h, L, E)
  BY DEF Stable, Sound, Counted
<1>2. /\ mid \in Heaps /\ drops \in Ledgers /\ Owed(mid, drops) /\ Planted(mid)
      /\ mid.live = h.live /\ mid.owner = h.owner /\ mid.handles = h.handles
      /\ mid.parent = h.parent /\ mid.alloc = h.alloc /\ mid.doc = h.doc
      /\ \A q \in Nodes : mid.count[q] = IF q = f THEN h.count[q] + 1 ELSE h.count[q]
      /\ \A q \in Nodes : drops[q] = IF q = f THEN 1 ELSE 0
      /\ \A q \in Nodes : mid.handles[q] > 0 => q \in mid.live
      /\ \A q \in mid.live : mid.owner[q] \in mid.live \cup {NULL}
  BY <1>1, GivenUpFacts
<1>3. Treed(mid) /\ Homed(mid, L) /\ Cased(mid) /\ Wanted(mid, E) /\ Owned(mid)
  <2>1. Treed(mid) /\ Homed(mid, L)
    BY <1>1, <1>2 DEF Stable, Treed, Homed
  <2>2. Cased(mid)
    BY <1>1, <1>2 DEF Stable, Cased
  <2>3. Wanted(mid, E)
    <3>1. \A q \in h.live \ E : h.count[q] > 0 /\ q \in Nodes /\ q # f
      BY <1>1 DEF Stable, Wanted, Heaps
    <3>. QED BY <1>2, <3>1 DEF Wanted
  <2>4. Owned(mid)
    BY <1>2 DEF Owned
  <2>. QED BY <2>1, <2>2, <2>3, <2>4
<1>4. Stable(r, L, E) /\ Owned(r)
  BY <1>2, <1>3, DecOwned
<1>5. f \notin r.live
  <2>0. r.live = mid.live \ Expired(mid, drops)
    BY ZenonT(60), <1>2, DecFields
  <2>. SUFFICES ASSUME f \in h.live PROVE f \in Expired(mid, drops)
    BY <1>2, <2>0
  <2>1. h.count[f] = 0
    BY <1>1, CountsNatural
  <2>. PICK D : D = Expired(mid, drops)
    OBVIOUS
  <2>2. Cardinality(Ownees(mid, D, f)) \in Nat
    <3>1. D \in SUBSET Nodes
      BY <1>2 DEF Expired, Losable, Heaps
    <3>. QED BY <1>2, <3>1, OwneesFinite
  <2>3. Remaining(mid, drops, D, f) <= 0 /\ drops[f] > 0
    BY <1>2, <2>1, <2>2 DEF Remaining
  <2>4. Expires(mid, drops, D, f)
    BY <2>3 DEF Expires
  <2>5. CascadeClosed(mid, drops, D)
    BY <1>2, ExpiredClosed
  <2>. QED BY <1>2, <2>4, <2>5 DEF CascadeClosed
<1>6. Stable(r, {}, {})
  BY <1>4, <1>5 DEF Stable, Wanted
<1>. QED BY <1>4, <1>6 DEF Safe

(* removeChildNodes (LibXML.xs) keeps the memory safe: the children with
   proxies below them keep the fragment alive, and if there are none it is
   freed. *)
LEMMA removeChildNodesSafe ==
  ASSUME Safe(heap), Uses = {}, NEW s \in Nodes, removeChildNodes(s)
  PROVE  Safe(heap')
<1>a. PICK K : K = Kids(heap, s)
  OBVIOUS
<1>1. PICK f \in Free(heap, Frags) :
        LET frag  == PmmNewFragment(heap, f, heap.doc[s])
            moved == [frag EXCEPT !.parent = [n \in Nodes |-> IF n \in K THEN f ELSE @[n]]]
            fixed == PmmFixOwnerNodes(moved, K, f)
        IN  /\ \A n \in K \ heap.live : Props(heap, n) \cap heap.live = {}
            /\ heap' = IF fixed.count[f] > 0 THEN fixed
                       ELSE PmmREFCNT_dec([fixed EXCEPT !.count[f] = @ + 1],
                                          [q \in Nodes |-> IF q = f THEN 1 ELSE 0])
  BY Zenon, <1>a DEF removeChildNodes
<1>b. PICK b : b = PmmNewFragment(heap, f, heap.doc[s])
  OBVIOUS
<1>c. PICK moved : moved = [b EXCEPT !.parent = [n \in Nodes |-> IF n \in K THEN f ELSE @[n]]]
  OBVIOUS
<1>d. PICK S : S = Reached(moved, EmptiedRoots(moved, K), f)
  OBVIOUS
<1>e. PICK fixed : fixed = Reown(moved, S, f)
  OBVIOUS
<1>2. PmmFixOwnerNodes(moved, K, f) = fixed
  BY <1>d, <1>e DEF PmmFixOwnerNodes, EmptiedRoots
<1>3. /\ \A n \in K \ heap.live : Props(heap, n) \cap heap.live = {}
      /\ heap' = IF fixed.count[f] > 0 THEN fixed ELSE PmmREFCNT_dec(GivenUp(fixed, f), OneOf(f))
  BY Zenon, <1>a, <1>b, <1>c, <1>e, <1>1, <1>2 DEF GivenUp, OneOf
<1>4. Emptying(heap, s, f, b, moved)
  <2>1. s \in heap.live /\ heap.doc[s] \in (Docs \cap heap.live) \cup {NULL}
    BY Zenon, SafeFacts, HeldFacts DEF removeChildNodes
  <2>. QED BY <1>a, <1>b, <1>c, <1>3, <2>1, FreshFrag DEF Emptying
<1>5. Reowning(moved, S, f)
  BY <1>a, <1>d, <1>4, EmptiedReowning
<1>f. PICK L, E : L = {} /\ E = {f}
  OBVIOUS
<1>6. Stable(moved, L, E)
  BY <1>f, <1>4, EmptyingMoves DEF Emptied
<1>7. Stable(fixed, L, IF S = {} THEN E ELSE E \ {f}) /\ Owned(fixed)
  BY <1>e, <1>5, <1>6, ReownOwned
<1>8. Stable(fixed, {}, {f}) /\ Owned(fixed) /\ f \in Nodes
  <2>. PICK T : T = IF S = {} THEN E ELSE E \ {f}
    OBVIOUS
  <2>1. T \subseteq {f}
    BY <1>f
  <2>2. Stable(fixed, L, T) /\ Owned(fixed)
    BY <1>7
  <2>. QED BY Zenon, <1>f, <2>1, <2>2, KindFacts DEF Stable, Wanted, Free
<1>9. CASE fixed.count[f] > 0
  <2>1. Wanted(fixed, {})
    BY Zenon, <1>8, <1>9 DEF Stable, Wanted
  <2>2. Safe(fixed)
    BY Zenon, <1>8, <2>1 DEF Stable, Safe
  <2>. QED BY Zenon, <1>3, <1>9, <2>2
<1>10. CASE ~(fixed.count[f] > 0)
  BY Zenon, <1>3, <1>8, <1>10, FragmentGivenUp
<1>. QED BY Zenon, <1>9, <1>10

-----------------------------------------------------------------------------
(* Every step keeps the memory safe. *)

(* Before the first call there is no node, and the memory is safe. *)
LEMMA InitSafe == Init => Safe(heap)
<1>. SUFFICES ASSUME Init PROVE Safe(heap)
  OBVIOUS
<1>1. Sound(heap)
  BY InitSound
<1>2. /\ heap.live = {} /\ heap.alloc = {} /\ NULL \notin Nodes /\ NULL \notin Attrs /\ NULL \notin Frags
      /\ \A q \in Nodes : heap.parent[q] = NULL /\ heap.owner[q] = NULL
  BY NodesAssumption DEF Init, Nodes
<1>3. Grounded(heap.parent) /\ Grounded(heap.owner)
  BY <1>2 DEF Grounded, Rooted
<1>4. Treed(heap)
  BY <1>2, <1>3, KindFacts DEF Treed
<1>5. Homed(heap, {}) /\ Cased(heap) /\ Wanted(heap, {}) /\ Owned(heap)
  BY <1>2, <1>3 DEF Homed, Cased, Wanted, Owned
<1>. QED BY <1>1, <1>4, <1>5 DEF Safe, Stable

(* The handlers that place a node. *)
LEMMA PlaceKeepsSafe ==
  ASSUME Safe(heap), Uses = {}, Place
  PROVE  Safe(heap')
<1>. PICK s \in Kept, n \in Kept :
       \/ appendChild(s, n) \/ addChild(s, n) \/ setDocumentElement(s, n) \/ adoptNode(s, n)
       \/ \E r \in Kids(heap, s) \cup {NULL}, first \in Nodes : insertBefore(s, n, r, first)
       \/ insertBeforeItself(s, n)
       \/ replaceNode(s, n) \/ \E old \in Kept : replaceChild(s, n, old)
       \/ \E old \in Props(heap, s) \cup {NULL} :
            setAttributeNode(s, n, old) \/ addChildAttribute(s, n, old)
  BY DEF Place
<1>1. Kept \subseteq Nodes
  BY SafeFacts DEF Kept
<1>2. CASE appendChild(s, n) \/ addChild(s, n)
  BY <1>1, <1>2, appendChildSafe, addChildSafe
<1>3. CASE setDocumentElement(s, n) \/ adoptNode(s, n)
  BY <1>1, <1>3, setDocumentElementSafe, adoptNodeSafe
<1>4. CASE \E r \in Kids(heap, s) \cup {NULL}, first \in Nodes : insertBefore(s, n, r, first)
  BY <1>1, <1>4, insertBeforeSafe
<1>5. CASE insertBeforeItself(s, n)
  BY <1>1, <1>5, insertBeforeItselfSafe
<1>6. CASE replaceNode(s, n) \/ \E old \in Kept : replaceChild(s, n, old)
  BY <1>1, <1>6, replaceNodeSafe, replaceChildSafe
<1>7. CASE \E old \in Props(heap, s) \cup {NULL} :
             setAttributeNode(s, n, old) \/ addChildAttribute(s, n, old)
  BY <1>1, <1>7, setAttributeNodeSafe, addChildAttributeSafe
<1>. QED BY <1>2, <1>3, <1>4, <1>5, <1>6, <1>7

(* The handlers that remove nodes. *)
LEMMA DetachSafe ==
  ASSUME Safe(heap), Uses = {}, Detach
  PROVE  Safe(heap')
<1>1. PICK s \in Kept :
        \/ unbindNode(s) \/ removeChildNodes(s)
        \/ \E n \in Below(heap, s) :
             removeChild(s, n) \/ removeAttribute(s, n) \/ removeAttributeNode(s, n)
  BY DEF Detach
<1>2. s \in Nodes /\ Below(heap, s) \subseteq Nodes
  BY SafeFacts DEF Kept, Below
<1>3. ASSUME NEW n \in Below(heap, s),
             removeChild(s, n) \/ removeAttribute(s, n) \/ removeAttributeNode(s, n)
      PROVE  Safe(heap')
  BY <1>2, <1>3, removeChildSafe, removeAttributeSafe, removeAttributeNodeSafe
<1>. QED BY <1>1, <1>2, <1>3, unbindNodeSafe, removeChildNodesSafe

(* No handler makes the memory unsafe, as long as the uses that Uses names
   are left out. *)
LEMMA NextSafe ==
  ASSUME Uses = {}, Safe(heap), [Next]_vars
  PROVE  Safe(heap')
<1>1. CASE Next
  BY <1>1, CreateSafe, VisitSafe, PlaceKeepsSafe, DetachSafe DEF Next
<1>2. CASE UNCHANGED vars
  BY <1>2 DEF vars
<1>. QED BY <1>1, <1>2

(* A tree is of a document or of a fragment that its document owns. *)
LEMMA SafeLinks ==
  ASSUME Safe(heap)
  PROVE  LinksAlive
<1>1. /\ heap \in Heaps /\ heap.parent \in Pointers /\ Grounded(heap.parent) /\ Treed(heap)
      /\ Homed(heap, {}) /\ Cased(heap) /\ heap.alloc \subseteq Nodes /\ NULL \notin Nodes
      /\ heap.live \subseteq heap.alloc
      /\ \A q \in heap.live : heap.owner[q] \in heap.live \cup {NULL}
      /\ \A q \in Nodes : heap.parent[q] \notin Attrs
  BY SafeFacts, StableFacts DEF Stable
<1>. SUFFICES ASSUME NEW n \in heap.alloc
              PROVE  /\ heap.parent[n] \in heap.alloc \cup {NULL}
                     /\ heap.parent[n] # NULL => heap.doc[n] \in heap.alloc \cup {NULL}
  BY DEF LinksAlive
<1>2. n \in Nodes
  BY <1>1
<1>3. heap.parent[n] \in heap.alloc \cup {NULL}
  BY <1>1, <1>2 DEF Treed
<1>4. ASSUME heap.parent[n] # NULL PROVE heap.doc[n] \in heap.alloc \cup {NULL}
  <2>1. PICK r \in Line(heap.parent, n) : heap.parent[r] = NULL
    BY <1>1, <1>2, LineFacts
  <2>2. r \in heap.alloc /\ r \in Nodes /\ r \notin {} /\ r # n
    BY <1>1, <1>4, <2>1, LinesInMemory
  <2>3. r \in heap.live /\ r \notin Elems
    BY <1>1, <2>1, <2>2 DEF Homed
  <2>4. heap.doc[n] = heap.doc[r]
    BY <1>1, <1>2, <2>1, SameDocs
  <2>5. PICK y \in Line(heap.parent, n) : heap.parent[y] = r
    BY <1>1, <1>2, <2>1, <2>2, LineChild
  <2>6. y \in Nodes /\ r \notin Attrs
    BY <1>1, <1>2, <2>5, LineFacts
  <2>7. CASE r \in Docs
    <3>1. heap.doc[r] = r
      BY <1>1, <2>2, <2>7 DEF Treed
    <3>. QED BY <2>2, <2>4, <3>1
  <2>8. CASE r \in Frags
    <3>1. heap.owner[r] = heap.doc[r]
      BY <1>1, <2>5, <2>6, <2>8 DEF Cased
    <3>. QED BY <1>1, <2>3, <2>4, <3>1
  <2>. QED BY <2>2, <2>3, <2>6, <2>7, <2>8 DEF Nodes
<1>. QED BY <1>3, <1>4

(* Along its owners a proxy reaches the root of its tree: its owner, or
   the document that a fragment passes it on to, is above it, and so on. *)
LEMMA SafeRoots ==
  ASSUME Safe(heap)
  PROVE  RootOwned
<1>. PICK F : F = heap.parent
  OBVIOUS
<1>. PICK O : O = heap.owner
  OBVIOUS
<1>1. /\ F \in Pointers /\ Grounded(F) /\ O \in Pointers /\ Grounded(O) /\ NULL \notin Nodes
      /\ heap.live \subseteq Nodes /\ \A q \in heap.live : O[q] \in heap.live \cup {NULL}
      /\ \A q \in Nodes : F[q] \in Ends
  BY SafeFacts, StableFacts
<1>2. \A n : Ancestors(heap, n) = Line(F, F[n]) /\ Owners(heap, n) = Line(O, O[n])
  BY LinesAre
<1>. DEFINE AtRoot(n) == \E r \in Line(F, F[n]) : F[r] = NULL /\ r \in Line(O, O[n])
            Bad == {n \in heap.live : F[n] # NULL /\ ~AtRoot(n)}
            Over == {x \in Nodes : Line(F, x) \cap Bad # {}}
<1>3. SUFFICES ASSUME Bad # {} PROVE FALSE
  BY <1>2 DEF RootOwned
<1>4. Over \in SUBSET Nodes /\ Over # {}
  <2>1. \A n \in Bad : n \in Nodes /\ n \in Line(F, n)
    BY <1>1, LineFacts
  <2>. HIDE DEF Bad
  <2>. QED BY <1>3, <2>1
<1>5. PICK x \in Over : F[x] \notin Over
  <2>. HIDE DEF Over
  <2>. QED BY <1>1, <1>4 DEF Grounded, Rooted
<1>6. Line(F, F[x]) \cap Bad = {} /\ x \in Nodes
  <2>1. Line(F, NULL) = {}
    BY <1>1, LineUnfolds
  <2>2. x \in Nodes
    BY <1>5
  <2>3. F[x] \in Nodes \/ F[x] = NULL
    BY <1>1, <2>2 DEF Ends
  <2>. HIDE DEF Bad
  <2>. QED BY <1>5, <2>1, <2>2, <2>3
<1>7. x \in Bad
  <2>1. Line(F, x) = {x} \cup Line(F, F[x])
    BY <1>1, <1>6, LineUnfolds
  <2>. HIDE DEF Bad
  <2>. QED BY <1>5, <1>6, <2>1
<1>8. Keeps(F, O, O[x], F[x]) /\ x \in heap.live /\ F[x] # NULL /\ F[x] \in Nodes
  BY <1>1, <1>7 DEF Safe, Owned, Anchored, Ends
<1>9. O[x] \in heap.live /\ O[x] \in Nodes
  <2>1. O[x] # NULL
    BY <1>1, <1>8, AnchoredOwned DEF Anchored
  <2>. QED BY <1>1, <1>8, <2>1
<1>10. PICK q \in Line(F, F[x]) : q \in Line(Passing(O), O[x])
  BY <1>8 DEF Keeps
<1>11. q \in Line(O, O[x]) /\ q \in heap.live /\ q \in Nodes
  <2>1. Line(Passing(O), O[x]) \subseteq Line(O, O[x])
    BY <1>1, <1>9, PassingFacts
  <2>2. Line(Passing(O), O[x]) \subseteq heap.live
    BY <1>1, <1>9, PassingWithin
  <2>. QED BY <1>1, <1>10, <2>1, <2>2
<1>12. CASE F[q] = NULL
  BY <1>7, <1>10, <1>11, <1>12
<1>13. CASE F[q] # NULL
  <2>1. q \notin Bad
    BY <1>6, <1>10
  <2>2. PICK r \in Line(F, F[q]) : F[r] = NULL /\ r \in Line(O, O[q])
    BY <1>11, <1>13, <2>1
  <2>3. Line(F, F[q]) \subseteq Line(F, q) /\ Line(F, q) \subseteq Line(F, F[x])
    BY <1>1, <1>8, <1>10, <1>11, LineUnfolds, LineFacts
  <2>4. Line(O, O[q]) \subseteq Line(O, q) /\ Line(O, q) \subseteq Line(O, O[x])
    BY <1>1, <1>9, <1>11, LineUnfolds, LineFacts
  <2>. QED BY <1>7, <2>2, <2>3, <2>4
<1>. QED BY <1>12, <1>13

(* Proxies that are referred to are referred to from Perl: from a proxy
   that nothing holds the ownees lead on for ever. *)
LEMMA SafeKept ==
  ASSUME Safe(heap)
  PROVE  NothingLeaks
<1>. PICK O : O = heap.owner
  OBVIOUS
<1>1. /\ heap \in Heaps /\ O \in Pointers /\ Grounded(O) /\ NULL \notin Nodes /\ Counted(heap)
      /\ heap.live \subseteq Nodes /\ Homed(heap, {}) /\ Wanted(heap, {}) /\ heap.live \in SUBSET Nodes
  BY SafeFacts, StableFacts DEF Stable, Sound
<1>2. \A r : Owners(heap, r) = Line(O, O[r])
  BY LinesAre
<1>3. \A r \in Nodes : Line(O, r) = {r} \cup Line(O, O[r]) /\ r \notin Line(O, O[r]) /\ Line(O, r) \in SUBSET Nodes
  BY <1>1, LineUnfolds DEF Ends
<1>. DEFINE Reachable(q) == \E r \in heap.live : heap.handles[r] > 0 /\ q \in Line(O, r)
            Bad == {q \in heap.live : ~Reachable(q)}
<1>4. ASSUME NEW q \in Bad PROVE \E v \in Bad : O[v] = q
  <2>1. heap.count[q] > 0 /\ q \in Nodes /\ heap.handles[q] \in Nat
    BY <1>1 DEF Wanted, Heaps
  <2>2. ~(heap.handles[q] > 0)
    BY <1>3, <2>1
  <2>3. heap.count[q] = heap.handles[q] + Cardinality(Ownees(heap, heap.live, q))
    BY <1>1, <2>1 DEF Counted
  <2>4. Cardinality(Ownees(heap, heap.live, q)) # 0
    BY <2>1, <2>2, <2>3
  <2>5. Ownees(heap, heap.live, q) # {}
    BY <2>4, FS_EmptySet
  <2>6. PICK v \in heap.live : O[v] = q
    BY <2>5 DEF Ownees
  <2>7. ~Reachable(v)
    <3>. SUFFICES ASSUME NEW r \in heap.live, heap.handles[r] > 0, v \in Line(O, r) PROVE FALSE
      OBVIOUS
    <3>1. q \in Line(O, r)
      BY <1>1, <2>1, <2>6, LineFacts
    <3>. QED BY <3>1
  <2>. QED BY <2>6, <2>7
<1>5. Bad = {}
  <2>. SUFFICES ASSUME Bad # {} PROVE FALSE
    OBVIOUS
  <2>. DEFINE Rest(q) == Nodes \ Line(O, q)
              Rests == {Rest(q) : q \in Bad}
  <2>1. Rests \in SUBSET SUBSET Nodes /\ Rests # {}
    OBVIOUS
  <2>2. PICK x \in Rests : \A y \in Rests : y \subseteq x => y = x
    <3>. HIDE DEF Rests
    <3>. QED BY <2>1, SizeFacts, Minimal
  <2>3. PICK q \in Bad : x = Rest(q)
    OBVIOUS
  <2>4. PICK v \in Bad : O[v] = q
    BY <1>4
  <2>5. v \in Nodes /\ Line(O, v) = {v} \cup Line(O, q) /\ v \notin Line(O, q)
    BY <1>1, <1>3, <2>4
  <2>6. Rest(v) \in Rests /\ Rest(v) \subseteq x /\ Rest(v) # x
    BY <2>3, <2>5
  <2>. QED BY <2>2, <2>6
<1>6. \A q \in heap.live : \E r \in heap.live : heap.handles[r] > 0 /\ q \in Owners(heap, r) \cup {r}
  BY <1>1, <1>2, <1>3, <1>5
<1>7. \A n \in heap.alloc : heap.parent[n] = NULL => n \in heap.live
  BY <1>1 DEF Homed
<1>. QED BY <1>6, <1>7 DEF NothingLeaks

(* The inductive invariant holds in every state of every sequence of
   calls, for any number of nodes, if the calls of RiskyUses are not made:
   the counts are exact, the links make trees in memory, and every proxy
   is owned by the root of its tree or through it. *)
THEOREM AlwaysSafe ==
  ASSUME Uses = {}
  PROVE  Spec => []Safe(heap)
<1>1. Safe(heap) /\ [Next]_vars => Safe(heap)'
  BY NextSafe
<1>. QED BY <1>1, InitSafe, PTL DEF Spec

(* A node with a handle is never freed: as long as Perl holds a node, its
   memory is there (perl-libxml-mm.h:52-57), unless a call of RiskyUses is
   made. *)
THEOREM NothingDangles ==
  ASSUME Uses = {}
  PROVE  Spec => []NoDangling
<1>1. Safe(heap) => NoDangling
  BY SafeFacts DEF NoDangling
<1>. QED BY <1>1, AlwaysSafe, PTL

(* Nodes in memory are linked to nodes in memory only: PmmREFCNT_dec and
   PmmFreeNode free a tree as a whole, or leave it, unless a call of
   RiskyUses is made. *)
THEOREM LinksAlwaysAlive ==
  ASSUME Uses = {}
  PROVE  Spec => []LinksAlive
<1>1. Safe(heap) => LinksAlive
  BY SafeLinks
<1>. QED BY <1>1, AlwaysSafe, PTL

(* The owner of a proxy stands at the root of its tree, or the tree is its
   own: the reference PmmFixOwner takes is to the node whose release frees
   the tree (perl-libxml-mm.c:698-701), unless a call of RiskyUses is
   made. *)
THEOREM RootsAlwaysOwned ==
  ASSUME Uses = {}
  PROVE  Spec => []RootOwned
<1>1. Safe(heap) => RootOwned
  BY SafeRoots
<1>. QED BY <1>1, AlwaysSafe, PTL

(* Whatever is in memory can be reached from a handle: every tree is freed
   with the last handle to a node of it (perl-libxml-mm.c:427-429), unless
   a call of RiskyUses is made. *)
THEOREM NothingEverLeaks ==
  ASSUME Uses = {}
  PROVE  Spec => []NothingLeaks
<1>1. Safe(heap) => NothingLeaks
  BY SafeKept
<1>. QED BY <1>1, AlwaysSafe, PTL

=============================================================================
