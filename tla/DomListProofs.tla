--------------------------- MODULE DomListProofs ---------------------------
(***************************************************************************)
(* Proofs about DomList: the pointers keep their types, the lists of       *)
(* children stay well linked, no node comes above itself and the pointers  *)
(* implement the lists of the DOM (NodeLists), whatever the calls and      *)
(* whatever the number of nodes.                                           *)
(***************************************************************************)
EXTENDS DomList, InductionLemmas

-----------------------------------------------------------------------------
(* The invariant.                                                          *)

(* A walk along the pointer F ends: in every set of nodes there is one     *)
(* that F takes out of the set.                                            *)
Grounded(F) == \A S \in SUBSET Nodes : S # {} => \E n \in S : F[n] \notin S

(* What each pointer says of the others. *)
Shaped(parent, children, last, next, prev) ==
  \A n \in Nodes :
    /\ n \in Frags => parent[n] = NULL
    /\ parent[n] = NULL => next[n] = NULL /\ prev[n] = NULL
    /\ next[n] # NULL => parent[next[n]] = parent[n] /\ prev[next[n]] = n
    /\ prev[n] # NULL => parent[prev[n]] = parent[n] /\ next[prev[n]] = n
    /\ children[n] # NULL => parent[children[n]] = n /\ prev[children[n]] = NULL
    /\ last[n] # NULL => parent[last[n]] = n /\ next[last[n]] = NULL
    /\ parent[n] # NULL /\ prev[n] = NULL => children[parent[n]] = n
    /\ parent[n] # NULL /\ next[n] = NULL => last[parent[n]] = n

Good(l) ==
  /\ l \in Links
  /\ Shaped(l.parent, l.children, l.last, l.next, l.prev)
  /\ Grounded(l.next)
  /\ Grounded(l.parent)

-----------------------------------------------------------------------------
(* Walks.                                                                  *)

N == Cardinality(Nodes)
Ends == Nodes \cup {NULL}

(* at is the walk from n along F. *)
Walks(at, F, n) ==
  /\ at \in [0..N -> Ends]
  /\ at[0] = n
  /\ \A k \in 1..N : at[k] = IF at[k - 1] = NULL THEN NULL ELSE F[at[k - 1]]

(* The number of nodes *)
LEMMA NodesCounted == N \in Nat /\ IsFiniteSet(Nodes) /\ NULL \notin Nodes
BY KindsAssumption, FS_CardinalityType DEF N

(* The recursion in Walk defines a walk. *)
LEMMA WalkWalks ==
  ASSUME NEW F \in Pointers, NEW n \in Ends
  PROVE  Walks(Walk(F, n), F, n)
<1>. DEFINE ahead(c) == IF c = NULL THEN NULL ELSE F[c]
            step == [a \in Nat \X Ends |-> ahead(a[2])]
            Rec(w) == w = [k \in 0..N |-> IF k = 0 THEN n
                                          ELSE IF w[k - 1] = NULL THEN NULL ELSE F[w[k - 1]]]
            at == CHOOSE w : Rec(w)
<1>1. Walk(F, n) = at
  BY DEF Walk, N
<1>2. step \in [Nat \X Ends -> Ends]
  BY DEF Ends, Pointers
<1>3. PICK g \in [0..N -> Ends] : Iterates(g, N, n, step)
  <2>. HIDE DEF step
  <2>. QED BY <1>2, NodesCounted, IterationExists
<1>4. g[0] = n
  BY <1>3 DEF Iterates
<1>5. ASSUME NEW k \in 1..N
      PROVE  g[k] = IF g[k - 1] = NULL THEN NULL ELSE F[g[k - 1]]
  <2>1. k - 1 \in 0..N /\ k \in Nat
    BY NodesCounted
  <2>2. g[k] = step[<<k, g[k - 1]>>]
    BY <1>3 DEF Iterates
  <2>3. g[k - 1] \in Ends
    BY <2>1
  <2>4. step[<<k, g[k - 1]>>] = ahead(g[k - 1])
    BY <2>1, <2>3
  <2>. QED BY <2>2, <2>4
<1>6. Rec(g)
  BY <1>4, <1>5, NodesCounted
<1>7. Rec(at)
  <2>. HIDE DEF Rec
  <2>. QED BY <1>6
<1>. HIDE DEF at
<1>8. DOMAIN at = 0..N
  BY <1>7
<1>9. at[0] = n
  BY <1>7, NodesCounted
<1>10. ASSUME NEW k \in 1..N
       PROVE  at[k] = IF at[k - 1] = NULL THEN NULL ELSE F[at[k - 1]]
  BY <1>7, NodesCounted
<1>11. \A k \in 0..N : at[k] \in Ends
  <2>. DEFINE T == {k \in Nat : k \in 0..N => at[k] \in Ends}
  <2>1. 0 \in T
    BY <1>9
  <2>2. ASSUME NEW k \in T
        PROVE  k + 1 \in T
    <3>. SUFFICES ASSUME k + 1 \in 0..N PROVE at[k + 1] \in Ends
      OBVIOUS
    <3>1. k + 1 \in 1..N /\ k \in 0..N /\ (k + 1) - 1 = k
      BY NodesCounted
    <3>2. at[k] \in Ends
      BY <3>1
    <3>3. at[k + 1] = IF at[k] = NULL THEN NULL ELSE F[at[k]]
      BY <3>1, <1>10
    <3>. QED BY <3>2, <3>3 DEF Ends, Pointers
  <2>. HIDE DEF T
  <2>3. T \in SUBSET Nat
    BY DEF T
  <2>4. T = Nat
    BY <2>1, <2>2, <2>3, Induction
  <2>. QED BY <2>4, NodesCounted DEF T
<1>12. at \in [0..N -> Ends]
  BY <1>7, <1>11
<1>. QED BY <1>1, <1>9, <1>10, <1>12 DEF Walks

(* A walk along a grounded pointer meets no node twice. *)
LEMMA WalkMeetsOnce ==
  ASSUME NEW F \in Pointers, Grounded(F), NEW n, NEW at, Walks(at, F, n),
         NEW i \in 0..N, NEW j \in 0..N, i < j, at[j] # NULL
  PROVE  at[i] # at[j]
<1>. SUFFICES ASSUME at[i] = at[j] PROVE FALSE
  OBVIOUS
<1>. DEFINE S == {at[k] : k \in i..(j - 1)}
<1>1. \A k \in 0..N : at[k] \in Ends
  BY DEF Walks
<1>2. \A k \in 1..N : at[k] = IF at[k - 1] = NULL THEN NULL ELSE F[at[k - 1]]
  BY DEF Walks
<1>3. \A k \in 0..j : at[k] # NULL
  <2>. DEFINE T == {k \in Nat : k <= j => at[j - k] # NULL}
  <2>1. 0 \in T
    OBVIOUS
  <2>2. ASSUME NEW k \in T
        PROVE  k + 1 \in T
    <3>. SUFFICES ASSUME k + 1 <= j PROVE at[j - (k + 1)] # NULL
      OBVIOUS
    <3>1. at[j - k] # NULL /\ j - k \in 1..N /\ (j - k) - 1 = j - (k + 1)
      BY NodesCounted
    <3>. QED BY <3>1, <1>2
  <2>. HIDE DEF T
  <2>3. T \in SUBSET Nat
    BY DEF T
  <2>4. T = Nat
    BY <2>1, <2>2, <2>3, Induction
  <2>5. ASSUME NEW k \in 0..j
        PROVE  at[k] # NULL
    <3>1. j - k \in T
      BY <2>4, NodesCounted
    <3>2. j - k <= j /\ j - (j - k) = k
      BY NodesCounted
    <3>. QED BY <3>1, <3>2 DEF T
  <2>. QED BY <2>5
<1>4. S \in SUBSET Nodes
  BY <1>1, <1>3, NodesCounted DEF Ends
<1>5. S # {}
  <2>1. i \in i..(j - 1)
    BY NodesCounted
  <2>. QED BY <2>1
<1>6. ASSUME NEW x \in S
      PROVE  F[x] \in S
  <2>1. PICK k \in i..(j - 1) : x = at[k]
    OBVIOUS
  <2>2. k + 1 \in 1..N /\ (k + 1) - 1 = k /\ k \in 0..j
    BY NodesCounted
  <2>3. at[k + 1] = F[x]
    BY <2>1, <2>2, <1>2, <1>3
  <2>4. CASE k + 1 = j
    <3>1. F[x] = at[i]
      BY <2>3, <2>4
    <3>2. i \in i..(j - 1)
      BY NodesCounted
    <3>. QED BY <3>1, <3>2
  <2>5. CASE k + 1 # j
    <3>1. k + 1 \in i..(j - 1)
      BY <2>5, NodesCounted
    <3>. QED BY <2>3, <3>1
  <2>. QED BY <2>4, <2>5
<1>. HIDE DEF S
<1>. QED BY <1>4, <1>5, <1>6 DEF Grounded

(* It ends within as many steps as there are nodes. *)
LEMMA WalkEnds ==
  ASSUME NEW F \in Pointers, Grounded(F), NEW n, NEW at, Walks(at, F, n)
  PROVE  \E m \in 0..N : at[m] = NULL /\ \A k \in 0..N : at[k] # NULL <=> k < m
<1>1. \A k \in 0..N : at[k] \in Ends
  BY DEF Walks
<1>2. \A k \in 1..N : at[k] = IF at[k - 1] = NULL THEN NULL ELSE F[at[k - 1]]
  BY DEF Walks
<1>3. \E m \in 0..N : at[m] = NULL
  <2>. SUFFICES ASSUME \A m \in 0..N : at[m] # NULL PROVE FALSE
    OBVIOUS
  <2>1. at \in [0..N -> Nodes]
    BY <1>1 DEF Walks, Ends
  <2>2. IsFiniteSet(0..N) /\ Cardinality(0..N) = N + 1
    BY NodesCounted, FS_Interval
  <2>3. PICK i, j \in 0..N : i # j /\ at[i] = at[j]
    <3>1. Cardinality(Nodes) < Cardinality(0..N) /\ IsFiniteSet(Nodes)
      BY <2>2, NodesCounted DEF N
    <3>. QED BY <2>1, <2>2, <3>1, FS_PigeonHole
  <2>4. i < j \/ j < i
    BY <2>3, NodesCounted
  <2>. QED BY <2>3, <2>4, WalkMeetsOnce
<1>. DEFINE T == {k \in 0..N : at[k] = NULL}
<1>4. PICK m \in T : \A k \in T : m <= k
  <2>1. T \in SUBSET Nat /\ T # {}
    BY <1>3
  <2>. HIDE DEF T
  <2>. QED BY <2>1, Smallest
<1>5. ASSUME NEW k \in 0..N, m <= k
      PROVE  at[k] = NULL
  <2>. DEFINE U == {d \in Nat : m + d <= N => at[m + d] = NULL}
  <2>1. 0 \in U
    BY NodesCounted
  <2>2. ASSUME NEW d \in U
        PROVE  d + 1 \in U
    <3>. SUFFICES ASSUME m + (d + 1) <= N PROVE at[m + (d + 1)] = NULL
      OBVIOUS
    <3>1. at[m + d] = NULL /\ m + (d + 1) \in 1..N /\ (m + (d + 1)) - 1 = m + d
      BY NodesCounted
    <3>. QED BY <3>1, <1>2
  <2>. HIDE DEF U
  <2>3. U \in SUBSET Nat
    BY DEF U
  <2>4. U = Nat
    BY <2>1, <2>2, <2>3, Induction
  <2>5. k - m \in U /\ m + (k - m) <= N /\ m + (k - m) = k
    BY <1>5, <2>4, NodesCounted
  <2>. QED BY <2>5 DEF U
<1>6. ASSUME NEW k \in 0..N
      PROVE  at[k] # NULL <=> k < m
  BY <1>4, <1>5, NodesCounted
<1>. QED BY <1>4, <1>6

(* The list of children is the walk up to its end. *)
LEMMA ListIsWalk ==
  ASSUME NEW l, l.next \in Pointers, l.children \in Pointers, Grounded(l.next), NEW p \in Nodes
  PROVE  \E at : \E m \in 0..N :
           /\ Walks(at, l.next, l.children[p])
           /\ at[m] = NULL
           /\ \A k \in 0..N : at[k] # NULL <=> k < m
           /\ Listed(l, p) = [i \in 1..m |-> at[i - 1]]
<1>. DEFINE at == Walk(l.next, l.children[p])
<1>1. Walks(at, l.next, l.children[p])
  <2>1. l.children[p] \in Ends
    BY DEF Pointers, Ends
  <2>. QED BY <2>1, WalkWalks
<1>2. Listed(l, p) = [i \in 1..Cardinality({k \in DOMAIN at : at[k] # NULL}) |-> at[i - 1]]
  BY DEF Listed
<1>. HIDE DEF at
<1>3. PICK m \in 0..N : at[m] = NULL /\ \A k \in 0..N : at[k] # NULL <=> k < m
  BY <1>1, WalkEnds
<1>4. {k \in DOMAIN at : at[k] # NULL} = 0..(m - 1)
  <2>1. DOMAIN at = 0..N
    BY <1>1 DEF Walks
  <2>. QED BY <1>3, <2>1, NodesCounted
<1>5. Cardinality(0..(m - 1)) = m
  <2>1. 0 \in Int /\ m - 1 \in Int /\ m \in Nat
    BY NodesCounted
  <2>2. Cardinality(0..(m - 1)) = IF 0 > m - 1 THEN 0 ELSE (m - 1) - 0 + 1
    BY <2>1, FS_Interval
  <2>. QED BY <2>1, <2>2
<1>6. PICK c : c = Cardinality({k \in DOMAIN at : at[k] # NULL})
  OBVIOUS
<1>7. c = m
  BY <1>4, <1>5, <1>6
<1>8. Listed(l, p) = [i \in 1..c |-> at[i - 1]]
  BY <1>2, <1>6
<1>. QED BY <1>1, <1>3, <1>7, <1>8

-----------------------------------------------------------------------------
(* What a good set of links says.                                          *)

(* What the invariant says, one fact a line *)
LEMMA GoodFacts ==
  ASSUME NEW l, Good(l)
  PROVE  /\ l.parent \in Pointers /\ l.children \in Pointers /\ l.last \in Pointers
         /\ l.next \in Pointers /\ l.prev \in Pointers
         /\ \A n \in Nodes : l.parent[n] \in Ends /\ l.children[n] \in Ends /\ l.last[n] \in Ends
         /\ \A n \in Nodes : l.next[n] \in Ends /\ l.prev[n] \in Ends
         /\ Shaped(l.parent, l.children, l.last, l.next, l.prev)
         /\ Grounded(l.next) /\ Grounded(l.parent)
         /\ NULL \notin Nodes
BY NodesCounted DEF Good, Links, Pointers, Ends

(* Walks along prev end too: prev undoes next. *)
LEMMA PrevGrounded ==
  ASSUME NEW l, Good(l)
  PROVE  Grounded(l.prev)
<1>. SUFFICES ASSUME NEW S \in SUBSET Nodes, S # {}, \A n \in S : l.prev[n] \in S
              PROVE  FALSE
  BY DEF Grounded
<1>. DEFINE f == [n \in S |-> l.prev[n]]
<1>1. \A n \in S : l.prev[n] # NULL /\ l.next[l.prev[n]] = n
  BY GoodFacts DEF Shaped
<1>2. f \in Injection(S, S)
  BY <1>1 DEF Injection, IsInjective
<1>3. IsFiniteSet(S)
  BY NodesCounted, FS_Subset
<1>4. f \in Surjection(S, S)
  <2>. HIDE DEF f
  <2>. QED BY <1>2, <1>3, FS_Injection
<1>5. \A y \in S : \E x \in S : f[x] = y
  <2>. HIDE DEF f
  <2>. QED BY <1>4 DEF Surjection
<1>6. \A y \in S : l.next[y] \in S
  BY <1>1, <1>5
<1>. QED BY <1>6, GoodFacts DEF Grounded

(* A node without a first child, or without a last one, has no children. *)
LEMMA NoChildren ==
  ASSUME NEW l, Good(l), NEW p \in Nodes, l.children[p] = NULL \/ l.last[p] = NULL
  PROVE  /\ \A z \in Nodes : l.parent[z] # p
         /\ l.children[p] = NULL /\ l.last[p] = NULL
<1>. DEFINE S == {z \in Nodes : l.parent[z] = p}
<1>1. ASSUME S # {} PROVE FALSE
  <2>1. PICK y \in S : l.prev[y] \notin S
    BY <1>1, PrevGrounded DEF Grounded
  <2>2. PICK x \in S : l.next[x] \notin S
    BY <1>1, GoodFacts DEF Grounded
  <2>3. l.prev[y] = NULL
    BY <2>1, GoodFacts DEF Shaped, Ends
  <2>4. l.next[x] = NULL
    BY <2>2, GoodFacts DEF Shaped, Ends
  <2>. QED BY <2>1, <2>2, <2>3, <2>4, GoodFacts DEF Shaped
<1>2. \A z \in Nodes : l.parent[z] # p
  BY <1>1
<1>. QED BY <1>2, GoodFacts DEF Shaped, Ends

(* The list of children of p is well linked. *)
ListLinked(l, p, list) ==
  /\ ToSet(list) = {n \in Nodes : l.parent[n] = p}
  /\ Cardinality(ToSet(list)) = Len(list)
  /\ l.last[p] = IF list = <<>> THEN NULL ELSE Last(list)
  /\ \A i \in DOMAIN list : l.prev[list[i]] = IF i = 1 THEN NULL ELSE list[i - 1]

(* In good links every list is well linked, and it has a node once. *)
LEMMA GoodLists ==
  ASSUME NEW l, Good(l), NEW p \in Nodes
  PROVE  /\ ListLinked(l, p, Listed(l, p))
         /\ Listed(l, p) \in Seq(Nodes)
         /\ \A i, j \in 1..Len(Listed(l, p)) : Listed(l, p)[i] = Listed(l, p)[j] => i = j
<1>1. PICK at : \E m \in 0..N :
           /\ Walks(at, l.next, l.children[p])
           /\ at[m] = NULL
           /\ \A k \in 0..N : at[k] # NULL <=> k < m
           /\ Listed(l, p) = [i \in 1..m |-> at[i - 1]]
  BY GoodFacts, ListIsWalk
<1>2. PICK m \in 0..N :
           /\ Walks(at, l.next, l.children[p])
           /\ at[m] = NULL
           /\ \A k \in 0..N : at[k] # NULL <=> k < m
           /\ Listed(l, p) = [i \in 1..m |-> at[i - 1]]
  BY <1>1
<1>. DEFINE list == [i \in 1..m |-> at[i - 1]]
<1>3. \A k \in 0..N : at[k] \in Ends
  BY <1>2 DEF Walks
<1>4. \A k \in 1..N : at[k] = IF at[k - 1] = NULL THEN NULL ELSE l.next[at[k - 1]]
  BY <1>2 DEF Walks
<1>5. m \in Nat /\ \A i \in 1..m : i - 1 \in 0..N /\ i \in 0..N /\ i - 1 < m /\ at[i - 1] \in Nodes
  BY <1>2, <1>3, NodesCounted DEF Ends
<1>6. list \in Seq(Nodes) /\ Len(list) = m /\ DOMAIN list = 1..m
  <2>1. list \in [1..m -> Nodes]
    BY <1>5
  <2>. QED BY <1>5, <2>1 DEF Seq
<1>7. at[0] = l.children[p]
  BY <1>2 DEF Walks
<1>8. \A i \in 1..m : l.parent[at[i - 1]] = p
  <2>. DEFINE T == {k \in Nat : k + 1 <= m => l.parent[at[k]] = p}
  <2>1. 0 \in T
    <3>. SUFFICES ASSUME 0 + 1 <= m PROVE l.parent[at[0]] = p
      OBVIOUS
    <3>1. at[0] # NULL
      BY <1>2, <1>5, NodesCounted
    <3>. QED BY <1>7, <3>1, GoodFacts DEF Shaped
  <2>2. ASSUME NEW k \in T PROVE k + 1 \in T
    <3>. SUFFICES ASSUME (k + 1) + 1 <= m PROVE l.parent[at[k + 1]] = p
      OBVIOUS
    <3>1. k + 1 \in 1..N /\ k \in 0..N /\ (k + 1) - 1 = k /\ k + 1 \in 0..N /\ k < m /\ k + 1 < m
      BY NodesCounted, <1>5
    <3>2. l.parent[at[k]] = p
      BY <1>5, <3>1
    <3>3. at[k] # NULL /\ at[k + 1] # NULL /\ at[k] \in Nodes
      BY <1>2, <1>3, <3>1 DEF Ends
    <3>4. at[k + 1] = l.next[at[k]]
      BY <1>4, <3>1, <3>3
    <3>. QED BY <3>2, <3>3, <3>4, GoodFacts DEF Shaped
  <2>. HIDE DEF T
  <2>3. T \in SUBSET Nat
    BY DEF T
  <2>4. T = Nat
    BY <2>1, <2>2, <2>3, Induction
  <2>5. ASSUME NEW i \in 1..m PROVE l.parent[at[i - 1]] = p
    <3>1. i - 1 \in T /\ (i - 1) + 1 <= m
      BY <2>4, <1>5
    <3>. QED BY <3>1 DEF T
  <2>. QED BY <2>5
<1>9. ASSUME NEW i \in 1..m
      PROVE  /\ i < m => l.next[list[i]] = list[i + 1] /\ i + 1 \in 1..m
             /\ i = m => l.next[list[i]] = NULL
  <2>1. i \in 1..N /\ at[i] = l.next[at[i - 1]]
    BY <1>4, <1>5, NodesCounted
  <2>2. list[i] = at[i - 1]
    OBVIOUS
  <2>3. i < m => i + 1 \in 1..m /\ (i + 1) - 1 = i
    BY <1>5
  <2>. QED BY <1>2, <2>1, <2>2, <2>3
<1>10. ASSUME NEW i \in 1..m, NEW j \in 1..m, list[i] = list[j]
       PROVE  i = j
  <2>. SUFFICES ASSUME i # j PROVE FALSE
    OBVIOUS
  <2>1. i - 1 < j - 1 \/ j - 1 < i - 1
    BY <1>5
  <2>2. at[i - 1] = at[j - 1] /\ at[i - 1] # NULL /\ i - 1 \in 0..N /\ j - 1 \in 0..N
    BY <1>5, <1>10, NodesCounted
  <2>. QED BY <1>2, <2>1, <2>2, GoodFacts, WalkMeetsOnce
<1>11. ToSet(list) = {list[i] : i \in 1..m}
  BY <1>6 DEF ToSet
<1>12. m > 0 => list[1] = l.children[p]
  BY <1>5, <1>7
<1>13. m = 0 => l.children[p] = NULL
  BY <1>2, <1>7
<1>14. \A i \in 1..m : list[i] \in Nodes /\ l.parent[list[i]] = p
  BY <1>5, <1>8
<1>15. Listed(l, p) = list
  BY <1>2
<1>. HIDE DEF list
<1>16. ToSet(list) = {n \in Nodes : l.parent[n] = p}
  <2>1. ASSUME NEW x \in ToSet(list) PROVE x \in Nodes /\ l.parent[x] = p
    BY <1>11, <1>14
  <2>. DEFINE S == {z \in Nodes : l.parent[z] = p /\ z \notin ToSet(list)}
  <2>2. ASSUME S # {} PROVE FALSE
    <3>1. PICK y \in S : l.prev[y] \notin S
      BY <2>2, PrevGrounded DEF Grounded
    <3>2. CASE l.prev[y] = NULL
      <4>1. l.children[p] = y
        BY <3>1, <3>2, GoodFacts DEF Shaped
      <4>2. m > 0 /\ 1 \in 1..m
        BY <4>1, <1>5, <1>13, NodesCounted
      <4>. QED BY <3>1, <4>1, <4>2, <1>11, <1>12
    <3>3. CASE l.prev[y] # NULL
      <4>1. l.prev[y] \in Nodes /\ l.parent[l.prev[y]] = p /\ l.next[l.prev[y]] = y
        BY <3>1, <3>3, GoodFacts DEF Shaped, Ends
      <4>2. PICK i \in 1..m : l.prev[y] = list[i]
        BY <3>1, <4>1, <1>11
      <4>3. y \in Nodes /\ l.next[list[i]] = y /\ y # NULL
        BY <4>1, <4>2, NodesCounted
      <4>4. i < m
        BY <4>3, <1>9, <1>5
      <4>. QED BY <3>1, <4>3, <4>4, <1>9, <1>11
    <3>. QED BY <3>2, <3>3
  <2>. QED BY <2>1, <2>2
<1>17. Cardinality(ToSet(list)) = Len(list)
  <2>1. list \in Surjection(1..m, ToSet(list))
    <3>1. list \in [1..m -> ToSet(list)]
      BY <1>6, <1>11
    <3>. QED BY <3>1, <1>11 DEF Surjection
  <2>2. list \in Injection(1..m, ToSet(list))
    BY <2>1, <1>10 DEF Surjection, Injection, IsInjective
  <2>3. IsFiniteSet(1..m) /\ Cardinality(1..m) = m
    <3>1. IsFiniteSet(1..m) /\ Cardinality(1..m) = IF 1 > m THEN 0 ELSE m - 1 + 1
      BY <1>5, FS_Interval
    <3>. QED BY <3>1, <1>5
  <2>. QED BY <2>1, <2>2, <2>3, <1>6, FS_Surjection
<1>18. l.last[p] = IF list = <<>> THEN NULL ELSE Last(list)
  <2>1. CASE m = 0
    <3>1. list = <<>>
      BY <2>1, <1>6, EmptySeq
    <3>2. l.last[p] = NULL
      BY <2>1, <1>13, NoChildren
    <3>. QED BY <3>1, <3>2
  <2>2. CASE m # 0
    <3>1. m \in 1..m
      BY <2>2, <1>5
    <3>2. list # <<>> /\ Last(list) = list[m]
      BY <2>2, <1>6 DEF Last
    <3>3. l.next[list[m]] = NULL /\ l.parent[list[m]] = p /\ list[m] \in Nodes
      BY <3>1, <1>9, <1>14
    <3>4. l.last[p] = list[m]
      BY <3>3, GoodFacts DEF Shaped
    <3>. QED BY <3>2, <3>4
  <2>. QED BY <2>1, <2>2
<1>19. ASSUME NEW i \in 1..m
       PROVE  l.prev[list[i]] = IF i = 1 THEN NULL ELSE list[i - 1]
  <2>1. CASE i = 1
    <3>1. m > 0
      BY <1>5, <2>1
    <3>2. l.children[p] = list[i] /\ list[i] \in Nodes /\ list[i] # NULL
      BY <1>12, <1>14, <2>1, <3>1, NodesCounted
    <3>. QED BY <2>1, <3>2, GoodFacts DEF Shaped
  <2>2. CASE i # 1
    <3>1. i - 1 \in 1..m /\ i - 1 < m /\ (i - 1) + 1 = i
      BY <2>2, <1>5
    <3>2. l.next[list[i - 1]] = list[i] /\ list[i] \in Nodes /\ list[i - 1] \in Nodes
      BY <3>1, <1>9, <1>14
    <3>. QED BY <2>2, <3>2, GoodFacts DEF Shaped
  <2>. QED BY <2>1, <2>2
<1>20. ListLinked(l, p, list)
  BY <1>6, <1>16, <1>17, <1>18, <1>19 DEF ListLinked
<1>. QED BY <1>6, <1>10, <1>15, <1>20

(* The ancestors of a node are above it, and what is above one of them is  *)
(* one of them.                                                            *)
LEMMA GoodAncestors ==
  ASSUME NEW l, Good(l), NEW n \in Nodes
  PROVE  /\ Ancestors(l, n) \subseteq Nodes
         /\ l.parent[n] # NULL => l.parent[n] \in Ancestors(l, n)
         /\ \A x \in Ancestors(l, n) : l.parent[x] # NULL => l.parent[x] \in Ancestors(l, n)
         /\ n \notin Ancestors(l, n)
<1>. DEFINE at == Walk(l.parent, l.parent[n])
<1>1. Walks(at, l.parent, l.parent[n])
  BY GoodFacts, WalkWalks
<1>2. Ancestors(l, n) = Range(at) \ {NULL}
  BY DEF Ancestors
<1>. HIDE DEF at
<1>3. PICK m \in 0..N : at[m] = NULL /\ \A k \in 0..N : at[k] # NULL <=> k < m
  BY <1>1, GoodFacts, WalkEnds
<1>4. \A x : x \in Ancestors(l, n) <=> \E k \in 0..N : x = at[k] /\ x # NULL
  BY <1>1, <1>2 DEF Walks, Range
<1>5. \A k \in 0..N : at[k] \in Ends
  BY <1>1 DEF Walks
<1>6. \A k \in 1..N : at[k] = IF at[k - 1] = NULL THEN NULL ELSE l.parent[at[k - 1]]
  BY <1>1 DEF Walks
<1>7. at[0] = l.parent[n] /\ 0 \in 0..N
  BY <1>1, NodesCounted DEF Walks
<1>8. Ancestors(l, n) \subseteq Nodes
  BY <1>4, <1>5 DEF Ends
<1>9. ASSUME NEW k \in 0..N, at[k] # NULL
      PROVE  k + 1 \in 0..N /\ at[k + 1] = l.parent[at[k]]
  <2>1. k < m
    BY <1>3, <1>9
  <2>2. k + 1 \in 1..N /\ k + 1 \in 0..N /\ (k + 1) - 1 = k
    BY <2>1, NodesCounted
  <2>. QED BY <2>2, <1>6, <1>9
<1>10. \A x \in Ancestors(l, n) : l.parent[x] # NULL => l.parent[x] \in Ancestors(l, n)
  BY <1>4, <1>9
<1>11. ASSUME n \in Ancestors(l, n) PROVE FALSE
  <2>1. PICK i \in 0..N : at[i] = n /\ n # NULL
    BY <1>4, <1>11
  <2>. DEFINE S == {at[k] : k \in 0..i}
  <2>2. \A k \in 0..i : k \in 0..N /\ k < m
    BY <1>3, <2>1, NodesCounted
  <2>3. S \in SUBSET Nodes /\ S # {}
    <3>1. \A k \in 0..i : at[k] \in Nodes
      BY <2>2, <1>3, <1>5 DEF Ends
    <3>2. 0 \in 0..i
      BY NodesCounted
    <3>. QED BY <3>1, <3>2
  <2>4. ASSUME NEW k \in 0..i PROVE l.parent[at[k]] \in S
    <3>1. CASE k = i
      <4>1. 0 \in 0..i
        BY NodesCounted
      <4>. QED BY <3>1, <4>1, <1>7, <2>1
    <3>2. CASE k # i
      <4>1. k + 1 \in 0..i
        BY <3>2, NodesCounted
      <4>2. at[k + 1] = l.parent[at[k]]
        BY <1>3, <1>9, <2>2
      <4>. QED BY <4>1, <4>2
    <3>. QED BY <3>1, <3>2
  <2>5. \A x \in S : l.parent[x] \in S
    BY <2>4
  <2>. HIDE DEF S
  <2>. QED BY <2>3, <2>5, GoodFacts DEF Grounded
<1>. QED BY <1>4, <1>7, <1>8, <1>10, <1>11

-----------------------------------------------------------------------------
(* A node leaves its list.                                                 *)

(* c is l without the node n in its list. *)
IsCut(l, n, c) ==
  /\ c \in Links
  /\ \A z \in Nodes : c.next[z] = IF z = n THEN NULL
                                  ELSE IF z = l.prev[n] THEN l.next[n] ELSE l.next[z]
  /\ \A z \in Nodes : c.prev[z] = IF z = n THEN NULL
                                  ELSE IF z = l.next[n] THEN l.prev[n] ELSE l.prev[z]
  /\ \A z \in Nodes : c.last[z] = IF z = l.parent[n] /\ l.last[z] = n THEN l.prev[n] ELSE l.last[z]
  /\ \A z \in Nodes : c.children[z] = IF z = l.parent[n] /\ l.children[z] = n THEN l.next[n]
                                      ELSE l.children[z]
  /\ \A z \in Nodes : c.parent[z] = IF z = n THEN NULL ELSE l.parent[z]

(* G is F with v written at n. *)
IsSet(G, F, n, v) == G \in Pointers /\ \A z \in Nodes : G[z] = IF z = n THEN v ELSE F[z]

(* Set writes a pointer, *)
LEMMA SetPointer ==
  ASSUME NEW F \in Pointers, NEW n \in Ends, NEW v \in Ends
  PROVE  IsSet(Set(F, n, v), F, n, v)
BY NodesCounted DEF Set, Pointers, Ends, IsSet

(* and so does EXCEPT. *)
LEMMA PointerSet ==
  ASSUME NEW F \in Pointers, NEW n \in Nodes, NEW v \in Ends
  PROVE  IsSet([F EXCEPT ![n] = v], F, n, v)
BY DEF Pointers, Ends, IsSet

(* domUnlinkNode cuts. *)
LEMMA UnlinkCuts ==
  ASSUME NEW l, Good(l), NEW n \in Nodes
  PROVE  IsCut(l, n, domUnlinkNode(l, n))
<1>. DEFINE p  == l.parent[n]
            nx == Set(l.next, l.prev[n], l.next[n])
            pv == Set(l.prev, l.next[n], l.prev[n])
            c  == domUnlinkNode(l, n)
<1>1. /\ p \in Ends /\ l.prev[n] \in Ends /\ l.next[n] \in Ends /\ NULL \in Ends /\ l \in Links
      /\ l.parent \in Pointers /\ l.children \in Pointers /\ l.last \in Pointers
      /\ l.next \in Pointers /\ l.prev \in Pointers
  BY GoodFacts DEF Ends, Good
<1>2. /\ c.next = [nx EXCEPT ![n] = NULL]
      /\ c.prev = [pv EXCEPT ![n] = NULL]
      /\ c.last = IF p # NULL /\ l.last[p] = n THEN Set(l.last, p, l.prev[n]) ELSE l.last
      /\ c.children = IF p # NULL /\ l.children[p] = n THEN Set(l.children, p, l.next[n])
                      ELSE l.children
      /\ c.parent = [l.parent EXCEPT ![n] = NULL]
  BY <1>1 DEF domUnlinkNode, Links
<1>3. IsSet(nx, l.next, l.prev[n], l.next[n]) /\ IsSet(pv, l.prev, l.next[n], l.prev[n])
  BY <1>1, SetPointer
<1>. HIDE DEF c, nx, pv
<1>4. IsSet(c.next, nx, n, NULL)
  BY <1>1, <1>2, <1>3, PointerSet DEF IsSet
<1>5. IsSet(c.prev, pv, n, NULL)
  BY <1>1, <1>2, <1>3, PointerSet DEF IsSet
<1>6. IsSet(c.parent, l.parent, n, NULL)
  BY <1>1, <1>2, PointerSet
<1>7. /\ c.last \in Pointers
      /\ \A z \in Nodes : c.last[z] = IF z = p /\ l.last[z] = n THEN l.prev[n] ELSE l.last[z]
  <2>1. CASE p # NULL /\ l.last[p] = n
    <3>1. IsSet(c.last, l.last, p, l.prev[n])
      BY <1>1, <1>2, <2>1, SetPointer
    <3>. QED BY <2>1, <3>1 DEF IsSet
  <2>2. CASE ~ (p # NULL /\ l.last[p] = n)
    <3>1. c.last = l.last
      BY <1>2, <2>2
    <3>. QED BY <1>1, <2>2, <3>1, NodesCounted
  <2>. QED BY <2>1, <2>2
<1>8. /\ c.children \in Pointers
      /\ \A z \in Nodes : c.children[z] = IF z = p /\ l.children[z] = n THEN l.next[n]
                                          ELSE l.children[z]
  <2>1. CASE p # NULL /\ l.children[p] = n
    <3>1. IsSet(c.children, l.children, p, l.next[n])
      BY <1>1, <1>2, <2>1, SetPointer
    <3>. QED BY <2>1, <3>1 DEF IsSet
  <2>2. CASE ~ (p # NULL /\ l.children[p] = n)
    <3>1. c.children = l.children
      BY <1>2, <2>2
    <3>. QED BY <1>1, <2>2, <3>1, NodesCounted
  <2>. QED BY <2>1, <2>2
<1>9. c \in Links
  <2>1. /\ c.next \in Pointers /\ c.prev \in Pointers /\ c.parent \in Pointers
        /\ c.last \in Pointers /\ c.children \in Pointers
    BY <1>4, <1>5, <1>6, <1>7, <1>8 DEF IsSet
  <2>. QED BY <1>1, <2>1 DEF c, domUnlinkNode, Links
<1>10. \A z \in Nodes : c.next[z] = IF z = n THEN NULL
                                    ELSE IF z = l.prev[n] THEN l.next[n] ELSE l.next[z]
  BY <1>3, <1>4 DEF IsSet
<1>11. \A z \in Nodes : c.prev[z] = IF z = n THEN NULL
                                    ELSE IF z = l.next[n] THEN l.prev[n] ELSE l.prev[z]
  BY <1>3, <1>5 DEF IsSet
<1>12. \A z \in Nodes : c.parent[z] = IF z = n THEN NULL ELSE l.parent[z]
  BY <1>6 DEF IsSet
<1>13. \A z \in Nodes : c.last[z] = IF z = l.parent[n] /\ l.last[z] = n THEN l.prev[n]
                                    ELSE l.last[z]
  BY <1>7
<1>14. \A z \in Nodes : c.children[z] = IF z = l.parent[n] /\ l.children[z] = n THEN l.next[n]
                                        ELSE l.children[z]
  BY <1>8
<1>15. IsCut(l, n, c)
  BY <1>9, <1>10, <1>11, <1>12, <1>13, <1>14 DEF IsCut
<1>. QED BY <1>15 DEF c

(* The links stay good when a node leaves its list. *)
LEMMA CutGood ==
  ASSUME NEW l, Good(l), NEW n \in Nodes, NEW c, IsCut(l, n, c)
  PROVE  Good(c)
<1>1. /\ c \in Links
      /\ \A z \in Nodes : c.next[z] = IF z = n THEN NULL
                                      ELSE IF z = l.prev[n] THEN l.next[n] ELSE l.next[z]
      /\ \A z \in Nodes : c.prev[z] = IF z = n THEN NULL
                                      ELSE IF z = l.next[n] THEN l.prev[n] ELSE l.prev[z]
      /\ \A z \in Nodes : c.last[z] = IF z = l.parent[n] /\ l.last[z] = n THEN l.prev[n]
                                      ELSE l.last[z]
      /\ \A z \in Nodes : c.children[z] = IF z = l.parent[n] /\ l.children[z] = n THEN l.next[n]
                                          ELSE l.children[z]
      /\ \A z \in Nodes : c.parent[z] = IF z = n THEN NULL ELSE l.parent[z]
  BY DEF IsCut
<1>2. \A z \in Nodes :
        /\ l.parent[z] \in Ends /\ l.children[z] \in Ends /\ l.last[z] \in Ends
        /\ l.next[z] \in Ends /\ l.prev[z] \in Ends
  BY GoodFacts
<1>3. \A z \in Nodes :
        /\ z \in Frags => l.parent[z] = NULL
        /\ l.parent[z] = NULL => l.next[z] = NULL /\ l.prev[z] = NULL
        /\ l.next[z] # NULL => l.parent[l.next[z]] = l.parent[z] /\ l.prev[l.next[z]] = z
        /\ l.prev[z] # NULL => l.parent[l.prev[z]] = l.parent[z] /\ l.next[l.prev[z]] = z
        /\ l.children[z] # NULL => l.parent[l.children[z]] = z /\ l.prev[l.children[z]] = NULL
        /\ l.last[z] # NULL => l.parent[l.last[z]] = z /\ l.next[l.last[z]] = NULL
        /\ l.parent[z] # NULL /\ l.prev[z] = NULL => l.children[l.parent[z]] = z
        /\ l.parent[z] # NULL /\ l.next[z] = NULL => l.last[l.parent[z]] = z
  BY GoodFacts DEF Shaped
<1>. DEFINE a == l.prev[n]
            b == l.next[n]
<1>4. /\ a \in Ends /\ b \in Ends
      /\ a # NULL => l.next[a] = n /\ l.parent[a] = l.parent[n]
      /\ b # NULL => l.prev[b] = n /\ l.parent[b] = l.parent[n]
      /\ \A z \in Nodes : l.next[z] = n => z = a
      /\ \A z \in Nodes : l.prev[z] = n => z = b
      /\ a # n /\ b # n
  <2>1. ASSUME l.next[n] = n PROVE FALSE
    <3>. DEFINE S == {n}
    <3>1. S \in SUBSET Nodes /\ S # {} /\ \A z \in S : l.next[z] \in S
      BY <2>1
    <3>. HIDE DEF S
    <3>. QED BY <3>1, GoodFacts DEF Grounded
  <2>2. a \in Ends /\ b \in Ends /\ b # n
    BY <1>2, <2>1
  <2>3. a # NULL => l.next[a] = n /\ l.parent[a] = l.parent[n]
    BY <1>3
  <2>4. b # NULL => l.prev[b] = n /\ l.parent[b] = l.parent[n]
    BY <1>3
  <2>5. \A z \in Nodes : l.next[z] = n => z = a
    BY <1>3, NodesCounted
  <2>6. \A z \in Nodes : l.prev[z] = n => z = b
    BY <1>3, NodesCounted
  <2>7. a # n
    BY <2>2, <2>6
  <2>. QED BY <2>2, <2>3, <2>4, <2>5, <2>6, <2>7
<1>. HIDE DEF a, b
<1>5. \A z \in Nodes :
        /\ c.next[z] = IF z = n THEN NULL ELSE IF z = a THEN b ELSE l.next[z]
        /\ c.prev[z] = IF z = n THEN NULL ELSE IF z = b THEN a ELSE l.prev[z]
        /\ c.last[z] = IF z = l.parent[n] /\ l.last[z] = n THEN a ELSE l.last[z]
        /\ c.children[z] = IF z = l.parent[n] /\ l.children[z] = n THEN b ELSE l.children[z]
        /\ c.parent[z] = IF z = n THEN NULL ELSE l.parent[z]
  BY <1>1 DEF a, b
<1>6. l.next[n] = b /\ l.prev[n] = a
  BY DEF a, b
<1>7. Shaped(c.parent, c.children, c.last, c.next, c.prev)
  <2>. SUFFICES ASSUME NEW z \in Nodes
                PROVE  /\ z \in Frags => c.parent[z] = NULL
                       /\ c.parent[z] = NULL => c.next[z] = NULL /\ c.prev[z] = NULL
                       /\ c.next[z] # NULL => /\ c.parent[c.next[z]] = c.parent[z]
                                              /\ c.prev[c.next[z]] = z
                       /\ c.prev[z] # NULL => /\ c.parent[c.prev[z]] = c.parent[z]
                                              /\ c.next[c.prev[z]] = z
                       /\ c.children[z] # NULL => /\ c.parent[c.children[z]] = z
                                                  /\ c.prev[c.children[z]] = NULL
                       /\ c.last[z] # NULL => /\ c.parent[c.last[z]] = z
                                              /\ c.next[c.last[z]] = NULL
                       /\ c.parent[z] # NULL /\ c.prev[z] = NULL => c.children[c.parent[z]] = z
                       /\ c.parent[z] # NULL /\ c.next[z] = NULL => c.last[c.parent[z]] = z
    BY DEF Shaped
  <2>1. z \in Frags => c.parent[z] = NULL
    BY <1>3, <1>5
  <2>2. c.parent[z] = NULL => c.next[z] = NULL /\ c.prev[z] = NULL
    BY <1>2, <1>3, <1>4, <1>5, NodesCounted DEF Ends
  <2>3. c.next[z] # NULL => c.parent[c.next[z]] = c.parent[z] /\ c.prev[c.next[z]] = z
    BY <1>2, <1>3, <1>4, <1>5, <1>6, NodesCounted DEF Ends
  <2>4. c.prev[z] # NULL => c.parent[c.prev[z]] = c.parent[z] /\ c.next[c.prev[z]] = z
    BY <1>2, <1>3, <1>4, <1>5, <1>6, NodesCounted DEF Ends
  <2>5. c.children[z] # NULL => c.parent[c.children[z]] = z /\ c.prev[c.children[z]] = NULL
    BY <1>2, <1>3, <1>4, <1>5, <1>6, NodesCounted DEF Ends
  <2>6. c.last[z] # NULL => c.parent[c.last[z]] = z /\ c.next[c.last[z]] = NULL
    BY <1>2, <1>3, <1>4, <1>5, <1>6, NodesCounted DEF Ends
  <2>7. c.parent[z] # NULL /\ c.prev[z] = NULL => c.children[c.parent[z]] = z
    BY <1>2, <1>3, <1>4, <1>5, <1>6, NodesCounted DEF Ends
  <2>8. c.parent[z] # NULL /\ c.next[z] = NULL => c.last[c.parent[z]] = z
    BY <1>2, <1>3, <1>4, <1>5, <1>6, NodesCounted DEF Ends
  <2>. QED BY <2>1, <2>2, <2>3, <2>4, <2>5, <2>6, <2>7, <2>8
<1>8. Grounded(c.next)
  <2>. SUFFICES ASSUME NEW S \in SUBSET Nodes, S # {}, \A z \in S : c.next[z] \in S
                PROVE  FALSE
    BY DEF Grounded
  <2>1. n \notin S
    BY <1>5, NodesCounted
  <2>2. CASE a \in S
    <3>1. PICK x \in S \cup {n} : l.next[x] \notin S \cup {n}
      <4>1. S \cup {n} \in SUBSET Nodes /\ S \cup {n} # {}
        OBVIOUS
      <4>. QED BY <4>1, GoodFacts DEF Grounded
    <3>2. b \in S
      BY <2>1, <2>2, <1>5
    <3>3. x # a /\ x # n
      BY <3>1, <3>2, <2>2, <1>4, <1>6, NodesCounted DEF Ends
    <3>. QED BY <3>1, <3>3, <1>5
  <2>3. CASE a \notin S
    <3>1. PICK x \in S : l.next[x] \notin S
      BY GoodFacts DEF Grounded
    <3>. QED BY <2>1, <2>3, <3>1, <1>5
  <2>. QED BY <2>2, <2>3
<1>9. Grounded(c.parent)
  <2>. SUFFICES ASSUME NEW S \in SUBSET Nodes, S # {}, \A z \in S : c.parent[z] \in S
                PROVE  FALSE
    BY DEF Grounded
  <2>1. PICK x \in S : l.parent[x] \notin S
    BY GoodFacts DEF Grounded
  <2>. QED BY <2>1, <1>5, NodesCounted
<1>. QED BY <1>1, <1>7, <1>8, <1>9 DEF Good

-----------------------------------------------------------------------------
(* Nodes that are in no list, or the children of a fragment, get a place.  *)

(* M are the children of q, from a to b, or a node in no list when q is NULL. *)
IsChain(l, M, a, b, q) ==
  /\ M \in SUBSET Elems /\ a \in M /\ b \in M /\ q \in Frags \cup {NULL}
  /\ l.prev[a] = NULL /\ l.next[b] = NULL
  /\ \A m \in M : l.parent[m] = q
  /\ \A m \in M : m # a => l.prev[m] \in M
  /\ \A m \in M : m # b => l.next[m] \in M
  /\ q # NULL => \A z \in Nodes : l.parent[z] = q => z \in M

(* There is nothing between x and y in the list of p. *)
IsGap(l, p, x, y) ==
  /\ p \in Nodes /\ x \in Ends /\ y \in Ends
  /\ x # NULL => l.parent[x] = p /\ l.next[x] = y
  /\ y # NULL => l.parent[y] = p /\ l.prev[y] = x
  /\ x = NULL => l.children[p] = y
  /\ y = NULL => l.last[p] = x

(* p and all that is above it are not in M. *)
IsOutside(l, p, M) ==
  \E A \in SUBSET Nodes :
    /\ p \in A /\ A \cap M = {}
    /\ \A z \in A : l.parent[z] = NULL \/ l.parent[z] \in A

(* c is l with the nodes of M between x and y in the list of p. *)
IsPlaced(l, M, a, b, q, p, x, y, c) ==
  /\ c \in Links
  /\ \A z \in Nodes : c.next[z] = IF z = b THEN y ELSE IF z = x THEN a ELSE l.next[z]
  /\ \A z \in Nodes : c.prev[z] = IF z = a THEN x ELSE IF z = y THEN b ELSE l.prev[z]
  /\ \A z \in Nodes : c.parent[z] = IF z \in M THEN p ELSE l.parent[z]
  /\ \A z \in Nodes : c.children[z] = IF z = p /\ x = NULL THEN a
                                      ELSE IF z = q THEN NULL ELSE l.children[z]
  /\ \A z \in Nodes : c.last[z] = IF z = p /\ y = NULL THEN b
                                  ELSE IF z = q THEN NULL ELSE l.last[z]

(* The links stay good when the nodes of a chain get a place outside of    *)
(* what is below them.                                                     *)
LEMMA PlaceGood ==
  ASSUME NEW l, Good(l), NEW M, NEW a, NEW b, NEW q, IsChain(l, M, a, b, q),
         NEW p, NEW x, NEW y, IsGap(l, p, x, y), p # q, IsOutside(l, p, M),
         NEW c, IsPlaced(l, M, a, b, q, p, x, y, c)
  PROVE  Good(c)
<1>1. /\ c \in Links
      /\ \A z \in Nodes : c.next[z] = IF z = b THEN y ELSE IF z = x THEN a ELSE l.next[z]
      /\ \A z \in Nodes : c.prev[z] = IF z = a THEN x ELSE IF z = y THEN b ELSE l.prev[z]
      /\ \A z \in Nodes : c.parent[z] = IF z \in M THEN p ELSE l.parent[z]
      /\ \A z \in Nodes : c.children[z] = IF z = p /\ x = NULL THEN a
                                          ELSE IF z = q THEN NULL ELSE l.children[z]
      /\ \A z \in Nodes : c.last[z] = IF z = p /\ y = NULL THEN b
                                      ELSE IF z = q THEN NULL ELSE l.last[z]
  BY DEF IsPlaced
<1>2. \A z \in Nodes :
        /\ l.parent[z] \in Ends /\ l.children[z] \in Ends /\ l.last[z] \in Ends
        /\ l.next[z] \in Ends /\ l.prev[z] \in Ends
  BY GoodFacts
<1>3. \A z \in Nodes :
        /\ z \in Frags => l.parent[z] = NULL
        /\ l.parent[z] = NULL => l.next[z] = NULL /\ l.prev[z] = NULL
        /\ l.next[z] # NULL => l.parent[l.next[z]] = l.parent[z] /\ l.prev[l.next[z]] = z
        /\ l.prev[z] # NULL => l.parent[l.prev[z]] = l.parent[z] /\ l.next[l.prev[z]] = z
        /\ l.children[z] # NULL => l.parent[l.children[z]] = z /\ l.prev[l.children[z]] = NULL
        /\ l.last[z] # NULL => l.parent[l.last[z]] = z /\ l.next[l.last[z]] = NULL
        /\ l.parent[z] # NULL /\ l.prev[z] = NULL => l.children[l.parent[z]] = z
        /\ l.parent[z] # NULL /\ l.next[z] = NULL => l.last[l.parent[z]] = z
  BY GoodFacts DEF Shaped
<1>4. /\ M \in SUBSET Nodes /\ M \cap Frags = {} /\ a \in M /\ b \in M /\ q \in Ends /\ NULL \notin M
      /\ l.prev[a] = NULL /\ l.next[b] = NULL
      /\ \A m \in M : l.parent[m] = q
      /\ \A m \in M : m # a => l.prev[m] \in M
      /\ \A m \in M : m # b => l.next[m] \in M
      /\ q # NULL => \A z \in Nodes : l.parent[z] = q => z \in M
  BY KindsAssumption, NodesCounted DEF IsChain, Nodes, Ends
<1>5. /\ p \in Nodes /\ x \in Ends /\ y \in Ends
      /\ x # NULL => l.parent[x] = p /\ l.next[x] = y
      /\ y # NULL => l.parent[y] = p /\ l.prev[y] = x
      /\ x = NULL => l.children[p] = y
      /\ y = NULL => l.last[p] = x
  BY DEF IsGap
<1>6. PICK A \in SUBSET Nodes :
        /\ p \in A /\ A \cap M = {}
        /\ \A z \in A : l.parent[z] = NULL \/ l.parent[z] \in A
  BY DEF IsOutside
<1>7. x \notin M /\ y \notin M /\ p \notin M /\ p # NULL
  BY <1>4, <1>5, <1>6, NodesCounted DEF Ends
<1>8. /\ \A z \in Nodes \ M : l.next[z] \notin M
      /\ \A z \in Nodes \ M : l.prev[z] \notin M
  BY <1>2, <1>3, <1>4, NodesCounted DEF Ends
<1>9. Shaped(c.parent, c.children, c.last, c.next, c.prev)
  <2>. SUFFICES ASSUME NEW z \in Nodes
                PROVE  /\ z \in Frags => c.parent[z] = NULL
                       /\ c.parent[z] = NULL => c.next[z] = NULL /\ c.prev[z] = NULL
                       /\ c.next[z] # NULL => /\ c.parent[c.next[z]] = c.parent[z]
                                              /\ c.prev[c.next[z]] = z
                       /\ c.prev[z] # NULL => /\ c.parent[c.prev[z]] = c.parent[z]
                                              /\ c.next[c.prev[z]] = z
                       /\ c.children[z] # NULL => /\ c.parent[c.children[z]] = z
                                                  /\ c.prev[c.children[z]] = NULL
                       /\ c.last[z] # NULL => /\ c.parent[c.last[z]] = z
                                              /\ c.next[c.last[z]] = NULL
                       /\ c.parent[z] # NULL /\ c.prev[z] = NULL => c.children[c.parent[z]] = z
                       /\ c.parent[z] # NULL /\ c.next[z] = NULL => c.last[c.parent[z]] = z
    BY DEF Shaped
  <2>1. z \in Frags => c.parent[z] = NULL
    BY <1>1, <1>3, <1>4
  <2>2. c.parent[z] = NULL => c.next[z] = NULL /\ c.prev[z] = NULL
    BY <1>1, <1>2, <1>3, <1>4, <1>5, <1>7, NodesCounted DEF Ends
  <2>3. c.next[z] # NULL => c.parent[c.next[z]] = c.parent[z] /\ c.prev[c.next[z]] = z
    <3>1. CASE z \in M
      BY <1>1, <1>2, <1>3, <1>4, <1>5, <1>7, <3>1, NodesCounted DEF Ends
    <3>2. CASE z \notin M
      BY <1>1, <1>2, <1>3, <1>4, <1>5, <1>7, <1>8, <3>2, NodesCounted DEF Ends
    <3>. QED BY <3>1, <3>2
  <2>4. c.prev[z] # NULL => c.parent[c.prev[z]] = c.parent[z] /\ c.next[c.prev[z]] = z
    <3>1. CASE z \in M
      BY <1>1, <1>2, <1>3, <1>4, <1>5, <1>7, <3>1, NodesCounted DEF Ends
    <3>2. CASE z \notin M
      BY <1>1, <1>2, <1>3, <1>4, <1>5, <1>7, <1>8, <3>2, NodesCounted DEF Ends
    <3>. QED BY <3>1, <3>2
  <2>5. c.children[z] # NULL => c.parent[c.children[z]] = z /\ c.prev[c.children[z]] = NULL
    BY <1>1, <1>2, <1>3, <1>4, <1>5, <1>7, <1>8, NodesCounted DEF Ends
  <2>6. c.last[z] # NULL => c.parent[c.last[z]] = z /\ c.next[c.last[z]] = NULL
    BY <1>1, <1>2, <1>3, <1>4, <1>5, <1>7, <1>8, NodesCounted DEF Ends
  <2>7. c.parent[z] # NULL /\ c.prev[z] = NULL => c.children[c.parent[z]] = z
    BY <1>1, <1>2, <1>3, <1>4, <1>5, <1>7, <1>8, NodesCounted DEF Ends
  <2>8. c.parent[z] # NULL /\ c.next[z] = NULL => c.last[c.parent[z]] = z
    BY <1>1, <1>2, <1>3, <1>4, <1>5, <1>7, <1>8, NodesCounted DEF Ends
  <2>. QED BY <2>1, <2>2, <2>3, <2>4, <2>5, <2>6, <2>7, <2>8
<1>10. Grounded(c.next)
  <2>. SUFFICES ASSUME NEW S \in SUBSET Nodes, S # {}, \A z \in S : c.next[z] \in S
                PROVE  FALSE
    BY DEF Grounded
  <2>1. CASE S \cap M = {}
    <3>1. PICK z \in S : l.next[z] \notin S
      BY GoodFacts DEF Grounded
    <3>. QED BY <1>1, <1>4, <2>1, <3>1
  <2>2. CASE S \cap M # {}
    <3>1. PICK m \in S \cap M : l.next[m] \notin S \cap M
      <4>1. S \cap M \in SUBSET Nodes
        OBVIOUS
      <4>. QED BY <2>2, <4>1, GoodFacts DEF Grounded
    <3>2. m = b
      BY <1>1, <1>4, <1>7, <3>1
    <3>3. y \in S \ M
      BY <1>1, <1>7, <3>1, <3>2
    <3>4. PICK z \in S \ M : l.next[z] \notin S \ M
      <4>1. S \ M \in SUBSET Nodes /\ S \ M # {}
        BY <3>3
      <4>. QED BY <4>1, GoodFacts DEF Grounded
    <3>5. z # x
      BY <1>5, <3>3, <3>4, NodesCounted
    <3>. QED BY <1>1, <1>4, <1>8, <3>4, <3>5
  <2>. QED BY <2>1, <2>2
<1>11. Grounded(c.parent)
  <2>. SUFFICES ASSUME NEW S \in SUBSET Nodes, S # {}, \A z \in S : c.parent[z] \in S
                PROVE  FALSE
    BY DEF Grounded
  <2>1. CASE S \cap A = {}
    <3>1. PICK z \in S : l.parent[z] \notin S
      BY GoodFacts DEF Grounded
    <3>. QED BY <1>1, <1>6, <2>1, <3>1
  <2>2. CASE S \cap A # {}
    <3>1. PICK z \in S \cap A : l.parent[z] \notin S \cap A
      <4>1. S \cap A \in SUBSET Nodes
        OBVIOUS
      <4>. QED BY <2>2, <4>1, GoodFacts DEF Grounded
    <3>2. c.parent[z] = l.parent[z]
      BY <1>1, <1>6, <3>1
    <3>. QED BY <1>6, <3>1, <3>2, NodesCounted
  <2>. QED BY <2>1, <2>2
<1>. QED BY <1>1, <1>9, <1>10, <1>11 DEF Good

-----------------------------------------------------------------------------
(* The operations of dom.c.                                                *)

(* The nodes that an insertion of n moves, and the node they leave *)
Held(l, n) == IF n \in Frags THEN {z \in Nodes : l.parent[z] = n} ELSE {n}
Home(n) == IF n \in Frags THEN n ELSE NULL

(* They are a chain, unless n is in a list or an empty fragment. *)
LEMMA HeldChain ==
  ASSUME NEW l, Good(l), NEW n \in Nodes,
         n \in Frags => l.children[n] # NULL, n \notin Frags => l.parent[n] = NULL
  PROVE  /\ IsChain(l, Held(l, n), Foremost(l, n), Hindmost(l, n), Home(n))
         /\ Foremost(l, n) # NULL /\ Hindmost(l, n) # NULL
<1>1. CASE n \in Frags
  <2>1. l.children[n] \in Nodes /\ l.last[n] \in Nodes /\ l.children[n] # NULL /\ l.last[n] # NULL
    BY <1>1, GoodFacts, NoChildren DEF Ends
  <2>2. \A z \in Nodes : l.parent[z] = n => z \in Elems
    BY <1>1, GoodFacts DEF Shaped, Nodes
  <2>3. \A m \in Nodes : l.parent[m] = n => m = l.children[n] \/ (l.prev[m] \in Nodes /\ l.parent[l.prev[m]] = n)
    BY <1>1, GoodFacts DEF Shaped, Ends
  <2>4. \A m \in Nodes : l.parent[m] = n => m = l.last[n] \/ (l.next[m] \in Nodes /\ l.parent[l.next[m]] = n)
    BY <1>1, GoodFacts DEF Shaped, Ends
  <2>5. l.parent[l.children[n]] = n /\ l.prev[l.children[n]] = NULL
    BY <2>1, GoodFacts DEF Shaped
  <2>6. l.parent[l.last[n]] = n /\ l.next[l.last[n]] = NULL
    BY <2>1, GoodFacts DEF Shaped
  <2>7. Held(l, n) = {z \in Nodes : l.parent[z] = n} /\ Home(n) = n
    BY <1>1 DEF Held, Home
  <2>8. Foremost(l, n) = l.children[n] /\ Hindmost(l, n) = l.last[n]
    BY <1>1 DEF Foremost, Hindmost
  <2>. QED BY <1>1, <2>1, <2>2, <2>3, <2>4, <2>5, <2>6, <2>7, <2>8 DEF IsChain
<1>2. CASE n \notin Frags
  <2>1. Held(l, n) = {n} /\ Home(n) = NULL /\ Foremost(l, n) = n /\ Hindmost(l, n) = n
    BY <1>2 DEF Held, Home, Foremost, Hindmost
  <2>2. l.prev[n] = NULL /\ l.next[n] = NULL /\ n \in Elems /\ n # NULL
    BY <1>2, GoodFacts DEF Shaped, Nodes
  <2>. QED BY <1>2, <2>1, <2>2 DEF IsChain
<1>. QED BY <1>1, <1>2

(* Moved finds the nodes of Held. *)
LEMMA MovedHeld ==
  ASSUME NEW l, Good(l), NEW n \in Nodes
  PROVE  Moved(l, n) = Held(l, n)
<1>1. ListLinked(l, n, Listed(l, n))
  BY GoodLists
<1>2. ToSet(Listed(l, n)) = {z \in Nodes : l.parent[z] = n}
  BY <1>1 DEF ListLinked
<1>. QED BY <1>2 DEF Moved, Held

(* A fragment that was emptied holds nothing. *)
LEMMA EmptiedHome ==
  ASSUME NEW F \in Pointers, NEW n \in Nodes
  PROVE  /\ Emptied(F, n) \in Pointers
         /\ \A z \in Nodes : Emptied(F, n)[z] = IF z = Home(n) THEN NULL ELSE F[z]
<1>1. CASE n \in Frags
  <2>1. IsSet([F EXCEPT ![n] = NULL], F, n, NULL)
    BY PointerSet DEF Ends
  <2>. QED BY <1>1, <2>1 DEF Emptied, Home, IsSet
<1>2. CASE n \notin Frags
  BY <1>2, NodesCounted DEF Emptied, Home
<1>. QED BY <1>1, <1>2

(* domAddNodeToList places what it is given. *)
LEMMA AddPlaces ==
  ASSUME NEW l, Good(l), NEW n \in Nodes, NEW p \in Nodes, p # Home(n),
         NEW x \in Ends, NEW y \in Ends, x # NULL \/ y # NULL,
         x # NULL => l.parent[x] = p, y # NULL => l.parent[y] = p,
         n \in Frags => l.children[n] # NULL, n \notin Frags => l.parent[n] = NULL
  PROVE  IsPlaced(l, Held(l, n), Foremost(l, n), Hindmost(l, n), Home(n), p, x, y,
                  domAddNodeToList(l, n, x, y))
<1>. DEFINE M == Held(l, n)
            a == Foremost(l, n)
            b == Hindmost(l, n)
            q == Home(n)
            c == domAddNodeToList(l, n, x, y)
<1>1. /\ l \in Links
      /\ l.parent \in Pointers /\ l.children \in Pointers /\ l.last \in Pointers
      /\ l.next \in Pointers /\ l.prev \in Pointers /\ NULL \in Ends
  BY GoodFacts DEF Good, Ends
<1>2. IsChain(l, M, a, b, q) /\ a # NULL /\ b # NULL
  BY HeldChain
<1>3. a \in M /\ b \in M /\ M \subseteq Nodes /\ \A m \in M : l.parent[m] = q
  BY <1>2 DEF IsChain, Nodes
<1>4. a \in Ends /\ b \in Ends /\ x # a /\ x # b /\ y # a /\ y # b
  BY <1>2, <1>3 DEF Ends
<1>5. Moved(l, n) = M
  BY MovedHeld
<1>. HIDE DEF M, a, b, q
<1>. DEFINE nx == Set(Set(l.next, x, a), IF y # NULL THEN b ELSE NULL, y)
            pv == Set(Set(l.prev, IF x # NULL THEN a ELSE NULL, x), y, b)
            pr == [m \in Nodes |-> IF m \in M THEN p ELSE l.parent[m]]
            ch == IF x = NULL THEN Set(Emptied(l.children, n), p, a) ELSE Emptied(l.children, n)
            la == IF y = NULL THEN Set(Emptied(l.last, n), p, b) ELSE Emptied(l.last, n)
            here == [l EXCEPT !.parent   = pr,
                              !.children = Emptied(@, n),
                              !.last     = Emptied(@, n)]
<1>6. l.parent[IF x # NULL THEN x ELSE y] = p
  OBVIOUS
<1>7. c = [here EXCEPT
             !.next     = Set(Set(@, x, a), IF y # NULL THEN b ELSE NULL, y),
             !.prev     = Set(Set(@, IF x # NULL THEN a ELSE NULL, x), y, b),
             !.children = IF x = NULL THEN Set(@, p, a) ELSE @,
             !.last     = IF y = NULL THEN Set(@, p, b) ELSE @]
  BY <1>2, <1>4, <1>5, <1>6 DEF domAddNodeToList, a, b
<1>8. /\ here.parent = pr /\ here.children = Emptied(l.children, n)
      /\ here.last = Emptied(l.last, n) /\ here.next = l.next /\ here.prev = l.prev
      /\ DOMAIN here = {"parent", "children", "last", "next", "prev"}
  BY <1>1 DEF Links
<1>. HIDE DEF here
<1>9. c.parent = pr /\ c.children = ch /\ c.last = la /\ c.next = nx /\ c.prev = pv
  BY <1>7, <1>8
<1>. HIDE DEF c
<1>10. pr \in Pointers /\ \A z \in Nodes : pr[z] = IF z \in M THEN p ELSE l.parent[z]
  BY <1>1 DEF Pointers
<1>11. /\ nx \in Pointers
       /\ \A z \in Nodes : nx[z] = IF z = b THEN y ELSE IF z = x THEN a ELSE l.next[z]
  <2>1. IsSet(Set(l.next, x, a), l.next, x, a)
    BY <1>1, <1>4, SetPointer
  <2>2. IsSet(nx, Set(l.next, x, a), IF y # NULL THEN b ELSE NULL, y)
    <3>. DEFINE F == Set(l.next, x, a)
                e == IF y # NULL THEN b ELSE NULL
    <3>1. F \in Pointers /\ e \in Ends
      BY <1>1, <1>4, <2>1 DEF IsSet
    <3>. HIDE DEF F, e
    <3>2. IsSet(Set(F, e, y), F, e, y)
      BY <3>1, SetPointer
    <3>. QED BY <3>2 DEF F, e
  <2>3. l.next[b] = NULL
    BY <1>2 DEF IsChain
  <2>. HIDE DEF nx
  <2>. QED BY <1>4, <2>1, <2>2, <2>3, NodesCounted DEF IsSet
<1>12. /\ pv \in Pointers
       /\ \A z \in Nodes : pv[z] = IF z = a THEN x ELSE IF z = y THEN b ELSE l.prev[z]
  <2>. DEFINE p1 == Set(l.prev, IF x # NULL THEN a ELSE NULL, x)
  <2>1. IsSet(p1, l.prev, IF x # NULL THEN a ELSE NULL, x)
    BY <1>1, <1>4, SetPointer
  <2>2. IsSet(pv, p1, y, b)
    BY <1>1, <1>4, <2>1, SetPointer DEF IsSet
  <2>3. l.prev[a] = NULL
    BY <1>2 DEF IsChain
  <2>. HIDE DEF pv, p1
  <2>. QED BY <1>4, <2>1, <2>2, <2>3, NodesCounted DEF IsSet
<1>13. /\ ch \in Pointers
       /\ \A z \in Nodes : ch[z] = IF z = p /\ x = NULL THEN a
                                   ELSE IF z = q THEN NULL ELSE l.children[z]
  <2>. DEFINE e == Emptied(l.children, n)
  <2>1. e \in Pointers /\ \A z \in Nodes : e[z] = IF z = q THEN NULL ELSE l.children[z]
    BY <1>1, EmptiedHome DEF q
  <2>. HIDE DEF e
  <2>2. IsSet(Set(e, p, a), e, p, a)
    BY <1>4, <2>1, SetPointer DEF Ends
  <2>3. ch = IF x = NULL THEN Set(e, p, a) ELSE e
    BY DEF e
  <2>. HIDE DEF ch
  <2>. QED BY <2>1, <2>2, <2>3 DEF IsSet
<1>14. /\ la \in Pointers
       /\ \A z \in Nodes : la[z] = IF z = p /\ y = NULL THEN b
                                   ELSE IF z = q THEN NULL ELSE l.last[z]
  <2>. DEFINE e == Emptied(l.last, n)
  <2>1. e \in Pointers /\ \A z \in Nodes : e[z] = IF z = q THEN NULL ELSE l.last[z]
    BY <1>1, EmptiedHome DEF q
  <2>. HIDE DEF e
  <2>2. IsSet(Set(e, p, b), e, p, b)
    BY <1>4, <2>1, SetPointer DEF Ends
  <2>3. la = IF y = NULL THEN Set(e, p, b) ELSE e
    BY DEF e
  <2>. HIDE DEF la
  <2>. QED BY <2>1, <2>2, <2>3 DEF IsSet
<1>15. here \in Links
  <2>1. Emptied(l.children, n) \in Pointers /\ Emptied(l.last, n) \in Pointers
    BY <1>1, EmptiedHome
  <2>2. pr \in Pointers
    BY <1>10
  <2>. HIDE DEF pr
  <2>. QED BY <1>1, <2>1, <2>2 DEF here, Links
<1>. HIDE DEF nx, pv, pr, ch, la
<1>16. c \in Links
  <2>1. c = [here EXCEPT !.next = nx, !.prev = pv, !.children = ch, !.last = la]
    BY <1>7, <1>8 DEF nx, pv, ch, la
  <2>. QED BY <1>10, <1>11, <1>12, <1>13, <1>14, <1>15, <2>1 DEF Links
<1>17. IsPlaced(l, M, a, b, q, p, x, y, c)
  BY <1>9, <1>10, <1>11, <1>12, <1>13, <1>14, <1>16 DEF IsPlaced
<1>. QED BY <1>17 DEF M, a, b, q, c

(* s is not n and not below n. *)
NotUnder(l, s, n) ==
  \E A \in SUBSET Nodes :
    /\ s \in A /\ n \notin A
    /\ \A z \in A : l.parent[z] = NULL \/ l.parent[z] \in A

(* This is what domTestHierarchy finds out. *)
LEMMA HierarchyAbove ==
  ASSUME NEW l, Good(l), NEW s \in Nodes, NEW n \in Nodes, ~ domIsParent(l, s, n)
  PROVE  NotUnder(l, s, n)
<1>1. n # s /\ (l.children[n] = NULL \/ l.parent[s] = NULL \/ n \notin Ancestors(l, s))
  BY DEF domIsParent
<1>2. /\ Ancestors(l, s) \subseteq Nodes
      /\ l.parent[s] # NULL => l.parent[s] \in Ancestors(l, s)
      /\ \A x \in Ancestors(l, s) : l.parent[x] # NULL => l.parent[x] \in Ancestors(l, s)
  BY GoodAncestors
<1>3. CASE l.parent[s] = NULL
  <2>. DEFINE A == {s}
  <2>1. A \in SUBSET Nodes /\ s \in A /\ n \notin A
    BY <1>1
  <2>2. \A z \in A : l.parent[z] = NULL \/ l.parent[z] \in A
    BY <1>3
  <2>. HIDE DEF A
  <2>. QED BY <2>1, <2>2 DEF NotUnder
<1>4. CASE n \notin Ancestors(l, s)
  <2>. DEFINE A == {s} \cup Ancestors(l, s)
  <2>1. A \in SUBSET Nodes /\ s \in A /\ n \notin A
    BY <1>1, <1>2, <1>4
  <2>2. \A z \in A : l.parent[z] = NULL \/ l.parent[z] \in A
    BY <1>2
  <2>. HIDE DEF A
  <2>. QED BY <2>1, <2>2 DEF NotUnder
<1>5. CASE l.children[n] = NULL
  <2>. DEFINE A == ({s} \cup Ancestors(l, s)) \ {n}
  <2>1. A \in SUBSET Nodes /\ s \in A /\ n \notin A
    BY <1>1, <1>2
  <2>2. \A z \in A : l.parent[z] = NULL \/ l.parent[z] \in A
    <3>1. \A z \in Nodes : l.parent[z] # n
      BY <1>5, NoChildren
    <3>. QED BY <1>2, <3>1
  <2>. HIDE DEF A
  <2>. QED BY <2>1, <2>2 DEF NotUnder
<1>. QED BY <1>1, <1>3, <1>4, <1>5

(* This is what addChild is asked to observe. *)
LEMMA AddableAbove ==
  ASSUME NEW l, Good(l), NEW s \in Nodes, NEW n \in Nodes, s # n, n \notin Ancestors(l, s)
  PROVE  NotUnder(l, s, n)
<1>1. ~ domIsParent(l, s, n)
  BY DEF domIsParent
<1>. QED BY <1>1, HierarchyAbove

(* It stays so when nodes lose their parents. *)
LEMMA NotUnderKept ==
  ASSUME NEW l, NEW s, NEW n, NotUnder(l, s, n), NEW c,
         \A z \in Nodes : c.parent[z] = l.parent[z] \/ c.parent[z] = NULL
  PROVE  NotUnder(c, s, n)
<1>1. PICK A \in SUBSET Nodes :
        /\ s \in A /\ n \notin A
        /\ \A z \in A : l.parent[z] = NULL \/ l.parent[z] \in A
  BY DEF NotUnder
<1>2. \A z \in A : c.parent[z] = NULL \/ c.parent[z] \in A
  BY <1>1
<1>. QED BY <1>1, <1>2 DEF NotUnder

(* Then s is outside of what an insertion of n moves. *)
LEMMA NotUnderOutside ==
  ASSUME NEW l, NEW s, NEW n \in Nodes, NotUnder(l, s, n)
  PROVE  IsOutside(l, s, Held(l, n)) /\ s # n /\ s # Home(n)
<1>1. PICK A \in SUBSET Nodes :
        /\ s \in A /\ n \notin A
        /\ \A z \in A : l.parent[z] = NULL \/ l.parent[z] \in A
  BY DEF NotUnder
<1>2. A \cap Held(l, n) = {}
  BY <1>1, NodesCounted DEF Held
<1>. QED BY <1>1, <1>2, NodesCounted DEF IsOutside, Home

(* What domUnlinkNode does to the parents *)
LEMMA UnlinkGood ==
  ASSUME NEW l, Good(l), NEW n \in Nodes
  PROVE  /\ Good(domUnlinkNode(l, n))
         /\ domUnlinkNode(l, n).parent[n] = NULL
         /\ \A z \in Nodes : z # n => domUnlinkNode(l, n).parent[z] = l.parent[z]
<1>1. IsCut(l, n, domUnlinkNode(l, n))
  BY UnlinkCuts
<1>2. Good(domUnlinkNode(l, n))
  BY <1>1, CutGood
<1>. QED BY <1>1, <1>2 DEF IsCut

(* Links with the same pointers are as good. *)
LEMMA SameGood ==
  ASSUME NEW l, Good(l), NEW c, c \in Links,
         \A z \in Nodes : c.parent[z] = l.parent[z], \A z \in Nodes : c.children[z] = l.children[z],
         \A z \in Nodes : c.last[z] = l.last[z], \A z \in Nodes : c.next[z] = l.next[z],
         \A z \in Nodes : c.prev[z] = l.prev[z]
  PROVE  Good(c)
<1>1. /\ c.parent \in Pointers /\ c.children \in Pointers /\ c.last \in Pointers
      /\ c.next \in Pointers /\ c.prev \in Pointers
  BY DEF Links
<1>2. /\ c.parent = l.parent /\ c.children = l.children /\ c.last = l.last
      /\ c.next = l.next /\ c.prev = l.prev
  <2>1. /\ l.parent \in Pointers /\ l.children \in Pointers /\ l.last \in Pointers
        /\ l.next \in Pointers /\ l.prev \in Pointers
    BY GoodFacts
  <2>. QED BY <1>1, <2>1 DEF Pointers
<1>. QED BY <1>2 DEF Good

(* The gaps at the end of a list and before a node *)
LEMMA LastGap ==
  ASSUME NEW l, Good(l), NEW s \in Nodes
  PROVE  IsGap(l, s, l.last[s], NULL)
BY GoodFacts, NoChildren DEF IsGap, Shaped, Ends

(* The gap before a node *)
LEMMA GapBefore ==
  ASSUME NEW l, Good(l), NEW r \in Nodes, NEW s \in Nodes, l.parent[r] = s
  PROVE  IsGap(l, s, l.prev[r], r)
BY GoodFacts DEF IsGap, Shaped, Ends

-----------------------------------------------------------------------------
(* Lists and what the DOM does with them.                                  *)

(* Every node once *)
Distinct(s) == \A i, j \in 1..Len(s) : s[i] = s[j] => i = j

(* t is list with items in the place of what stands between i and j. *)
IsSpliced(list, i, items, j, t) ==
  /\ t \in Seq(Nodes)
  /\ Len(t) = i + Len(items) + (Len(list) - j + 1)
  /\ \A k \in 1..Len(t) : t[k] = IF k <= i THEN list[k]
                                 ELSE IF k <= i + Len(items) THEN items[k - i]
                                 ELSE list[k - (i + Len(items)) + j - 1]

(* What Spliced builds *)
LEMMA SplicedIs ==
  ASSUME NEW list \in Seq(Nodes), NEW items \in Seq(Nodes), NEW i \in 0..Len(list),
         NEW j \in (i + 1)..(Len(list) + 1)
  PROVE  IsSpliced(list, i, items, j, DOM!Spliced(list, i, items, j))
<1>. DEFINE a == SubSeq(list, 1, i)
            b == SubSeq(list, j, Len(list))
            t == (a \o items) \o b
<1>1. /\ Len(list) \in Nat /\ i \in Nat /\ i <= Len(list) /\ j \in Nat /\ i < j /\ j <= Len(list) + 1
      /\ Len(items) \in Nat /\ \A k \in 1..Len(list) : list[k] \in Nodes
  BY LenProperties, ElementOfSeq
<1>2. a \in Seq(Nodes) /\ Len(a) = i /\ \A k \in 1..i : a[k] = list[k]
  <2>1. \A k \in 1..i : list[k] \in Nodes
    BY <1>1
  <2>2. /\ a \in Seq(Nodes) /\ Len(a) = (IF 1 <= i THEN i - 1 + 1 ELSE 0)
        /\ \A k \in 1..(i - 1 + 1) : a[k] = list[1 + k - 1]
    BY <1>1, <2>1, SubSeqProperties
  <2>. HIDE DEF a
  <2>. QED BY <1>1, <2>2
<1>3. /\ b \in Seq(Nodes) /\ Len(b) = Len(list) - j + 1
      /\ \A k \in 1..(Len(list) - j + 1) : b[k] = list[j + k - 1]
  <2>1. \A k \in j..Len(list) : list[k] \in Nodes
    BY <1>1
  <2>2. /\ b \in Seq(Nodes) /\ Len(b) = (IF j <= Len(list) THEN Len(list) - j + 1 ELSE 0)
        /\ \A k \in 1..(Len(list) - j + 1) : b[k] = list[j + k - 1]
    BY <1>1, <2>1, SubSeqProperties
  <2>. HIDE DEF b
  <2>. QED BY <1>1, <2>2
<1>6. DOM!Spliced(list, i, items, j) = t
  BY DEF DOM!Spliced
<1>. HIDE DEF a, b
<1>. DEFINE ai == a \o items
<1>4. /\ ai \in Seq(Nodes) /\ Len(ai) = i + Len(items)
      /\ \A k \in 1..(i + Len(items)) : ai[k] = IF k <= i THEN a[k] ELSE items[k - i]
  BY <1>2, ConcatProperties
<1>. HIDE DEF ai
<1>5. /\ t \in Seq(Nodes) /\ Len(t) = Len(ai) + Len(b)
      /\ \A k \in 1..(Len(ai) + Len(b)) : t[k] = IF k <= Len(ai) THEN ai[k] ELSE b[k - Len(ai)]
  <2>1. t = ai \o b
    BY DEF ai
  <2>. HIDE DEF t
  <2>. QED BY <1>3, <1>4, <2>1, ConcatProperties
<1>. HIDE DEF t
<1>7. ASSUME NEW k \in 1..Len(t)
      PROVE  t[k] = IF k <= i THEN list[k]
                    ELSE IF k <= i + Len(items) THEN items[k - i]
                    ELSE list[k - (i + Len(items)) + j - 1]
  <2>1. k \in Nat /\ 1 <= k /\ k <= i + Len(items) + (Len(list) - j + 1)
    BY <1>1, <1>3, <1>4, <1>5
  <2>2. CASE k <= i
    BY <1>1, <1>2, <1>3, <1>4, <1>5, <2>1, <2>2
  <2>3. CASE i < k /\ k <= i + Len(items)
    BY <1>1, <1>3, <1>4, <1>5, <2>1, <2>3
  <2>4. CASE i + Len(items) < k
    <3>. DEFINE m == k - (i + Len(items))
    <3>1. m \in 1..(Len(list) - j + 1) /\ j + m - 1 = m + j - 1
      BY <1>1, <2>1, <2>4
    <3>2. b[m] = list[m + j - 1]
      BY <1>3, <3>1
    <3>3. t[k] = b[m]
      BY <1>1, <1>3, <1>4, <1>5, <2>1, <2>4
    <3>. QED BY <1>1, <2>1, <2>4, <3>2, <3>3
  <2>. QED BY <1>1, <2>1, <2>2, <2>3, <2>4
<1>8. Len(t) = i + Len(items) + (Len(list) - j + 1)
  BY <1>3, <1>4, <1>5
<1>. QED BY <1>5, <1>6, <1>7, <1>8 DEF IsSpliced

(* There is one such list. *)
LEMMA SplicedOnce ==
  ASSUME NEW list, NEW items, NEW i, NEW j, NEW t, NEW u,
         IsSpliced(list, i, items, j, t), IsSpliced(list, i, items, j, u)
  PROVE  t = u
<1>1. t \in Seq(Nodes) /\ u \in Seq(Nodes) /\ Len(t) = Len(u)
  BY DEF IsSpliced
<1>2. \A k \in 1..Len(t) : t[k] = u[k]
  BY <1>1 DEF IsSpliced
<1>. QED BY <1>1, <1>2, SeqEqual

(* The place of a node of a list, and the place after its end *)
LEMMA PlaceIs ==
  ASSUME NEW list \in Seq(Nodes), Distinct(list)
  PROVE  /\ DOM!Place(list, NULL) = Len(list) + 1
         /\ \A i \in 1..Len(list) : DOM!Place(list, list[i]) = i
<1>1. DOMAIN list = 1..Len(list) /\ \A i \in 1..Len(list) : list[i] \in Nodes /\ list[i] # NULL
  BY NodesCounted, LenProperties, ElementOfSeq
<1>2. ASSUME NEW i \in 1..Len(list) PROVE DOM!Place(list, list[i]) = i
  <2>1. DOM!Place(list, list[i]) = CHOOSE k \in DOMAIN list : list[k] = list[i]
    BY <1>1 DEF DOM!Place
  <2>2. \A k \in DOMAIN list : list[k] = list[i] => k = i
    BY <1>1 DEF Distinct
  <2>. QED BY <1>1, <2>1, <2>2
<1>. QED BY <1>2 DEF DOM!Place

(* What Without leaves *)
LEMMA WithoutIs ==
  ASSUME NEW list \in Seq(Nodes), Distinct(list), NEW n \in Nodes
  PROVE  /\ (\A i \in 1..Len(list) : list[i] # n) => DOM!Without(list, n) = list
         /\ \A i \in 1..Len(list) : list[i] = n =>
              IsSpliced(list, i - 1, <<>>, i + 1, DOM!Without(list, n))
<1>1. DOMAIN list = 1..Len(list) /\ Len(list) \in Nat
  BY LenProperties
<1>2. DOM!ToSet(list) = {list[i] : i \in 1..Len(list)}
  BY <1>1 DEF DOM!ToSet
<1>3. ASSUME \A i \in 1..Len(list) : list[i] # n PROVE DOM!Without(list, n) = list
  <2>1. n \notin DOM!ToSet(list)
    BY <1>2, <1>3
  <2>. QED BY <2>1 DEF DOM!Without
<1>4. ASSUME NEW i \in 1..Len(list), list[i] = n
      PROVE  IsSpliced(list, i - 1, <<>>, i + 1, DOM!Without(list, n))
  <2>1. n \in DOM!ToSet(list)
    BY <1>2, <1>4
  <2>2. DOM!Place(list, n) = i
    BY <1>4, PlaceIs
  <2>3. DOM!Without(list, n) = DOM!Spliced(list, i - 1, <<>>, i + 1)
    BY <2>1, <2>2 DEF DOM!Without
  <2>4. i - 1 \in 0..Len(list) /\ i + 1 \in ((i - 1) + 1)..(Len(list) + 1)
    BY <1>1
  <2>5. <<>> \in Seq(Nodes)
    BY EmptySeq
  <2>6. IsSpliced(list, i - 1, <<>>, i + 1, DOM!Spliced(list, i - 1, <<>>, i + 1))
    BY <2>4, <2>5, SplicedIs
  <2>. QED BY <2>3, <2>6
<1>. QED BY <1>3, <1>4

(* What stands where in it *)
LEMMA WithoutAt ==
  ASSUME NEW s \in Seq(Nodes), Distinct(s), NEW j \in 1..Len(s), NEW t, t = DOM!Without(s, s[j])
  PROVE  /\ t \in Seq(Nodes) /\ Len(t) = Len(s) - 1
         /\ \A k \in 1..Len(t) : t[k] = IF k < j THEN s[k] ELSE s[k + 1]
<1>1. /\ Len(s) \in Nat /\ j \in Nat /\ 1 <= j /\ j <= Len(s) /\ s[j] \in Nodes
      /\ Len(<<>>) = 0
  BY LenProperties, ElementOfSeq
<1>2. IsSpliced(s, j - 1, <<>>, j + 1, t)
  BY <1>1, WithoutIs
<1>3. t \in Seq(Nodes) /\ Len(t) = Len(s) - 1
  BY <1>1, <1>2 DEF IsSpliced
<1>4. ASSUME NEW k \in 1..Len(t) PROVE t[k] = IF k < j THEN s[k] ELSE s[k + 1]
  <2>1. t[k] = IF k <= j - 1 THEN s[k]
               ELSE IF k <= (j - 1) + 0 THEN <<>>[k - (j - 1)]
               ELSE s[k - ((j - 1) + 0) + (j + 1) - 1]
    BY <1>1, <1>2 DEF IsSpliced
  <2>2. k \in Nat /\ k - ((j - 1) + 0) + (j + 1) - 1 = k + 1
    BY <1>1, <1>3
  <2>. QED BY <1>1, <2>1, <2>2
<1>. QED BY <1>3, <1>4

-----------------------------------------------------------------------------
(* The lists that the pointers spell.                                      *)

(* s is what the pointers children and next of l say of the list of p. *)
Spells(l, p, s) ==
  /\ s \in Seq(Nodes)
  /\ l.children[p] = IF Len(s) = 0 THEN NULL ELSE s[1]
  /\ \A i \in 1..Len(s) : l.next[s[i]] = IF i = Len(s) THEN NULL ELSE s[i + 1]

(* They say it of one sequence at most, *)
LEMMA SpelledOnce ==
  ASSUME NEW l, NEW p, NEW s, NEW t, Spells(l, p, s), Spells(l, p, t)
  PROVE  s = t
<1>1. /\ s \in Seq(Nodes) /\ Len(s) \in Nat /\ \A i \in 1..Len(s) : s[i] \in Nodes /\ s[i] # NULL
      /\ t \in Seq(Nodes) /\ Len(t) \in Nat /\ \A i \in 1..Len(t) : t[i] \in Nodes /\ t[i] # NULL
  BY NodesCounted, LenProperties, ElementOfSeq DEF Spells
<1>. DEFINE T == {k \in Nat : \A i \in 1..k : (i <= Len(s) <=> i <= Len(t))
                                              /\ (i <= Len(s) => s[i] = t[i])}
<1>2. 0 \in T
  OBVIOUS
<1>3. ASSUME NEW k \in T PROVE k + 1 \in T
  <2>. SUFFICES (k + 1 <= Len(s) <=> k + 1 <= Len(t)) /\ (k + 1 <= Len(s) => s[k + 1] = t[k + 1])
    OBVIOUS
  <2>1. CASE k = 0
    BY <1>1, <2>1 DEF Spells
  <2>2. CASE k # 0 /\ k <= Len(s)
    <3>1. k \in 1..Len(s) /\ k \in 1..Len(t) /\ s[k] = t[k]
      BY <1>1, <2>2
    <3>2. /\ l.next[s[k]] = IF k = Len(s) THEN NULL ELSE s[k + 1]
          /\ l.next[s[k]] = IF k = Len(t) THEN NULL ELSE t[k + 1]
      BY <3>1 DEF Spells
    <3>. QED BY <1>1, <3>1, <3>2
  <2>3. CASE k # 0 /\ ~ (k <= Len(s))
    <3>1. ~ (k <= Len(t))
      BY <1>1, <2>3
    <3>. QED BY <1>1, <2>3, <3>1
  <2>. QED BY <2>1, <2>2, <2>3
<1>. HIDE DEF T
<1>4. T \in SUBSET Nat
  BY DEF T
<1>5. T = Nat
  BY <1>2, <1>3, <1>4, Induction
<1>6. Len(s) = Len(t)
  <2>1. Len(s) \in T /\ Len(t) \in T
    BY <1>1, <1>5
  <2>2. Len(s) = 0 <=> Len(t) = 0
    BY <1>1 DEF Spells
  <2>. QED BY <1>1, <2>1, <2>2 DEF T
<1>7. \A i \in 1..Len(s) : s[i] = t[i]
  <2>1. Len(s) \in T
    BY <1>1, <1>5
  <2>. QED BY <1>1, <2>1 DEF T
<1>. QED BY <1>1, <1>6, <1>7, SeqEqual

(* and of the list, when the links are good. *)
LEMMA ListSpelled ==
  ASSUME NEW l, Good(l), NEW p \in Nodes
  PROVE  Spells(l, p, Listed(l, p))
<1>1. PICK at : \E m \in 0..N :
           /\ Walks(at, l.next, l.children[p])
           /\ at[m] = NULL
           /\ \A k \in 0..N : at[k] # NULL <=> k < m
           /\ Listed(l, p) = [i \in 1..m |-> at[i - 1]]
  BY GoodFacts, ListIsWalk
<1>2. PICK m \in 0..N :
           /\ Walks(at, l.next, l.children[p])
           /\ at[m] = NULL
           /\ \A k \in 0..N : at[k] # NULL <=> k < m
           /\ Listed(l, p) = [i \in 1..m |-> at[i - 1]]
  BY <1>1
<1>. DEFINE s == Listed(l, p)
<1>3. s \in Seq(Nodes)
  BY GoodLists
<1>4. m \in Nat /\ m <= N /\ N \in Nat
  BY NodesCounted
<1>5. Len(s) = m /\ \A i \in 1..m : s[i] = at[i - 1]
  BY <1>2, <1>4
<1>. HIDE DEF s
<1>6. /\ at[0] = l.children[p]
      /\ \A k \in 1..N : at[k] = IF at[k - 1] = NULL THEN NULL ELSE l.next[at[k - 1]]
  BY <1>2 DEF Walks
<1>7. l.children[p] = IF Len(s) = 0 THEN NULL ELSE s[1]
  BY <1>2, <1>4, <1>5, <1>6
<1>8. ASSUME NEW i \in 1..Len(s) PROVE l.next[s[i]] = IF i = Len(s) THEN NULL ELSE s[i + 1]
  <2>1. /\ i \in 1..N /\ i - 1 \in 0..N /\ i - 1 < m /\ (i + 1) - 1 = i
        /\ i # m => i + 1 \in 1..m
    BY <1>4, <1>5
  <2>2. at[i - 1] # NULL /\ s[i] = at[i - 1]
    BY <1>2, <1>5, <2>1
  <2>3. at[i] = l.next[s[i]]
    BY <1>6, <2>1, <2>2
  <2>. QED BY <1>2, <1>5, <2>1, <2>3
<1>. QED BY <1>3, <1>7, <1>8 DEF Spells, s

(* So a list is what the pointers spell. *)
LEMMA SpelledIsList ==
  ASSUME NEW l, Good(l), NEW p \in Nodes, NEW s, Spells(l, p, s)
  PROVE  Listed(l, p) = s
BY ListSpelled, SpelledOnce

(* s is the list of p in l: what its pointers spell, every node of the     *)
(* list once, and the nodes are the children of p.                         *)
IsList(l, p, s) ==
  /\ Spells(l, p, s)
  /\ s \in Seq(Nodes) /\ Len(s) \in Nat
  /\ \A i \in 1..Len(s) : s[i] \in Elems /\ l.parent[s[i]] = p
  /\ Distinct(s)
  /\ \A z \in Nodes : l.parent[z] = p => \E i \in 1..Len(s) : s[i] = z
  /\ \A i \in 1..Len(s) : l.prev[s[i]] = IF i = 1 THEN NULL ELSE s[i - 1]
  /\ l.last[p] = IF Len(s) = 0 THEN NULL ELSE s[Len(s)]

(* Listed gives the list. *)
LEMMA ListFacts ==
  ASSUME NEW l, Good(l), NEW p \in Nodes
  PROVE  IsList(l, p, Listed(l, p))
<1>. DEFINE s == Listed(l, p)
<1>1. /\ ListLinked(l, p, s) /\ s \in Seq(Nodes)
      /\ \A i, j \in 1..Len(s) : s[i] = s[j] => i = j
      /\ Spells(l, p, s)
  BY GoodLists, ListSpelled
<1>. HIDE DEF s
<1>2. DOMAIN s = 1..Len(s) /\ Len(s) \in Nat
  BY <1>1, LenProperties
<1>3. ToSet(s) = {s[i] : i \in 1..Len(s)}
  BY <1>2 DEF ToSet
<1>4. {s[i] : i \in 1..Len(s)} = {n \in Nodes : l.parent[n] = p}
  BY <1>1, <1>3 DEF ListLinked
<1>5. \A n \in Nodes : l.parent[n] = p => n \in Elems
  BY GoodFacts, NodesCounted DEF Shaped, Nodes
<1>6. \A i \in 1..Len(s) : s[i] \in Elems /\ l.parent[s[i]] = p
  BY <1>4, <1>5
<1>7. \A z \in Nodes : l.parent[z] = p => \E i \in 1..Len(s) : s[i] = z
  BY <1>4
<1>8. l.last[p] = IF Len(s) = 0 THEN NULL ELSE s[Len(s)]
  <2>1. s = <<>> <=> Len(s) = 0
    BY <1>1, EmptySeq
  <2>. QED BY <1>1, <2>1 DEF ListLinked, Last
<1>9. \A i \in 1..Len(s) : l.prev[s[i]] = IF i = 1 THEN NULL ELSE s[i - 1]
  BY <1>1, <1>2 DEF ListLinked
<1>. QED BY <1>1, <1>2, <1>6, <1>7, <1>8, <1>9 DEF IsList, Distinct, s

-----------------------------------------------------------------------------
(* What the lists are after a change of the pointers.                      *)

(* A cut takes the node out of its list, *)
LEMMA CutLists ==
  ASSUME NEW l, Good(l), NEW n \in Nodes, NEW c, IsCut(l, n, c), NEW p \in Nodes
  PROVE  Listed(c, p) = DOM!Without(Listed(l, p), n)
<1>. DEFINE s == Listed(l, p)
<1>1. IsList(l, p, s)
  BY ListFacts
<1>2. Good(c)
  BY CutGood
<1>. HIDE DEF s
<1>3. /\ Spells(l, p, s) /\ s \in Seq(Nodes) /\ Len(s) \in Nat /\ Distinct(s)
      /\ \A i \in 1..Len(s) : s[i] \in Elems /\ l.parent[s[i]] = p
      /\ \A z \in Nodes : l.parent[z] = p => \E i \in 1..Len(s) : s[i] = z
      /\ \A i \in 1..Len(s) : l.prev[s[i]] = IF i = 1 THEN NULL ELSE s[i - 1]
  BY <1>1 DEF IsList
<1>4. /\ \A z \in Nodes : c.next[z] = IF z = n THEN NULL
                                      ELSE IF z = l.prev[n] THEN l.next[n] ELSE l.next[z]
      /\ \A z \in Nodes : c.children[z] = IF z = l.parent[n] /\ l.children[z] = n THEN l.next[n]
                                          ELSE l.children[z]
  BY DEF IsCut
<1>5. /\ l.children[p] = IF Len(s) = 0 THEN NULL ELSE s[1]
      /\ \A i \in 1..Len(s) : l.next[s[i]] = IF i = Len(s) THEN NULL ELSE s[i + 1]
  BY <1>3 DEF Spells
<1>6. \A i \in 1..Len(s) : s[i] \in Nodes /\ s[i] # NULL
  BY <1>3, NodesCounted DEF Nodes
<1>7. CASE l.parent[n] # p
  <2>1. \A i \in 1..Len(s) : s[i] # n
    BY <1>3, <1>7
  <2>2. DOM!Without(s, n) = s
    BY <1>3, <2>1, WithoutIs
  <2>3. \A i \in 1..Len(s) : s[i] # l.prev[n]
    <3>1. l.prev[n] # NULL => l.parent[l.prev[n]] = l.parent[n]
      BY GoodFacts DEF Shaped
    <3>. QED BY <1>3, <1>6, <1>7, <3>1
  <2>4. Spells(c, p, s)
    BY <1>3, <1>4, <1>5, <1>6, <1>7, <2>1, <2>3 DEF Spells
  <2>. QED BY <1>2, <2>2, <2>4, SpelledIsList DEF s
<1>8. CASE l.parent[n] = p
  <2>1. PICK i \in 1..Len(s) : s[i] = n
    BY <1>3, <1>8
  <2>. DEFINE t == DOM!Without(s, n)
  <2>3. /\ t \in Seq(Nodes) /\ Len(t) = Len(s) - 1
        /\ \A k \in 1..Len(t) : t[k] = IF k < i THEN s[k] ELSE s[k + 1]
    BY <1>3, <2>1, WithoutAt
  <2>. HIDE DEF t
  <2>4. l.next[n] = (IF i = Len(s) THEN NULL ELSE s[i + 1]) /\ l.prev[n] = IF i = 1 THEN NULL ELSE s[i - 1]
    BY <1>3, <1>5, <2>1
  <2>5. c.children[p] = IF Len(t) = 0 THEN NULL ELSE t[1]
    <3>1. CASE i = 1
      BY <1>3, <1>4, <1>5, <1>8, <2>1, <2>3, <2>4, <3>1
    <3>2. CASE i # 1
      <4>1. 1 \in 1..Len(s) /\ s[1] # n /\ Len(s) # 0 /\ 1 \in 1..Len(t) /\ Len(t) # 0 /\ 1 < i
        BY <1>3, <2>1, <2>3, <3>2 DEF Distinct
      <4>. QED BY <1>3, <1>4, <1>5, <2>3, <4>1
    <3>. QED BY <3>1, <3>2
  <2>6. ASSUME NEW k \in 1..Len(t) PROVE c.next[t[k]] = IF k = Len(t) THEN NULL ELSE t[k + 1]
    <3>0. k \in Nat /\ i \in Nat /\ 1 <= k /\ 1 <= i /\ i <= Len(s) /\ k <= Len(s) - 1
      BY <1>3, <2>3
    <3>1. CASE k < i - 1
      <4>1. k \in 1..Len(s) /\ k + 1 < i /\ k + 1 \in 1..Len(t) /\ i - 1 \in 1..Len(s) /\ k # Len(t)
            /\ k # Len(s)
        BY <1>3, <2>3, <3>0, <3>1
      <4>2. s[k] # n /\ s[k] # s[i - 1] /\ s[k] # l.prev[n]
        <5>1. k # i /\ k # i - 1 /\ i # 1
          BY <3>0, <3>1
        <5>2. s[k] # s[i] /\ s[k] # s[i - 1]
          BY <1>3, <4>1, <5>1 DEF Distinct
        <5>. QED BY <2>1, <2>4, <5>1, <5>2
      <4>3. t[k] = s[k] /\ t[k + 1] = s[k + 1]
        BY <2>3, <3>0, <3>1, <4>1
      <4>. QED BY <1>4, <1>5, <1>6, <4>1, <4>2, <4>3
    <3>2. CASE k = i - 1
      <4>1. k \in 1..Len(s) /\ i # 1 /\ k < i /\ s[k] = l.prev[n] /\ s[k] # n
        BY <1>3, <2>1, <2>4, <3>0, <3>2 DEF Distinct
      <4>2. t[k] = s[k] /\ c.next[s[k]] = l.next[n]
        BY <1>4, <1>6, <2>3, <4>1
      <4>3. CASE i = Len(s)
        BY <2>3, <2>4, <3>0, <3>2, <4>2, <4>3
      <4>4. CASE i # Len(s)
        <5>1. k + 1 \in 1..Len(t) /\ ~ (k + 1 < i) /\ k # Len(t) /\ (k + 1) + 1 = i + 1
          BY <1>3, <2>3, <3>0, <3>2, <4>4
        <5>. QED BY <2>3, <2>4, <4>2, <4>4, <5>1
      <4>. QED BY <4>3, <4>4
    <3>3. CASE k >= i
      <4>1. k + 1 \in 1..Len(s) /\ ~ (k < i) /\ k + 1 # i /\ k + 1 # i - 1
        BY <1>3, <2>3, <3>0, <3>3
      <4>2. s[k + 1] # n /\ s[k + 1] # l.prev[n]
        <5>1. i - 1 \in 1..Len(s) \/ i = 1
          BY <1>3, <3>0
        <5>. QED BY <1>3, <1>6, <2>1, <2>4, <3>0, <3>3, <4>1, <5>1 DEF Distinct
      <4>3. t[k] = s[k + 1] /\ c.next[s[k + 1]] = l.next[s[k + 1]]
        BY <1>4, <1>6, <2>3, <4>1, <4>2
      <4>4. l.next[s[k + 1]] = IF k + 1 = Len(s) THEN NULL ELSE s[(k + 1) + 1]
        BY <1>5, <4>1
      <4>5. k # Len(t) => k + 1 \in 1..Len(t) /\ ~ (k + 1 < i)
        BY <1>3, <2>3, <3>0, <3>3
      <4>. QED BY <1>3, <2>3, <3>0, <4>3, <4>4, <4>5
    <3>. QED BY <3>0, <3>1, <3>2, <3>3
  <2>7. Spells(c, p, t)
    BY <2>3, <2>5, <2>6 DEF Spells
  <2>. QED BY <1>2, <2>7, SpelledIsList DEF s, t
<1>. QED BY <1>7, <1>8

(* x and y are the neighbours at the place behind the first i of s. *)
IsBetween(s, i, x, y) ==
  /\ i \in 0..Len(s)
  /\ x = IF i = 0 THEN NULL ELSE s[i]
  /\ y = IF i = Len(s) THEN NULL ELSE s[i + 1]

(* A gap is such a place. *)
LEMMA GapPlace ==
  ASSUME NEW l, NEW p \in Nodes, NEW s, IsList(l, p, s), NEW x, NEW y, IsGap(l, p, x, y)
  PROVE  \E i \in 0..Len(s) : IsBetween(s, i, x, y)
<1>1. /\ Len(s) \in Nat
      /\ l.children[p] = IF Len(s) = 0 THEN NULL ELSE s[1]
      /\ \A i \in 1..Len(s) : l.next[s[i]] = IF i = Len(s) THEN NULL ELSE s[i + 1]
      /\ \A z \in Nodes : l.parent[z] = p => \E i \in 1..Len(s) : s[i] = z
  BY DEF IsList, Spells
<1>2. CASE x = NULL
  <2>1. y = l.children[p]
    BY <1>2 DEF IsGap
  <2>. QED BY <1>1, <1>2, <2>1 DEF IsBetween
<1>3. CASE x # NULL
  <2>1. x \in Nodes /\ l.parent[x] = p /\ l.next[x] = y
    BY <1>3 DEF IsGap, Ends
  <2>2. PICK i \in 1..Len(s) : s[i] = x
    BY <1>1, <2>1
  <2>3. i \in 0..Len(s) /\ i # 0
    BY <1>1
  <2>. QED BY <1>1, <2>1, <2>2, <2>3 DEF IsBetween
<1>. QED BY <1>2, <1>3

(* The nodes of r are in M and follow each other from a to b. *)
IsRun(l, r, M, a, b) ==
  /\ r \in Seq(Nodes) /\ Len(r) \in Nat /\ Len(r) # 0
  /\ r[1] = a /\ r[Len(r)] = b
  /\ \A i \in 1..Len(r) : r[i] \in M
  /\ Distinct(r)
  /\ \A i \in 1..Len(r) : i # Len(r) => l.next[r[i]] = r[i + 1]

(* A chain gets a place in a list: the run of its nodes is spliced in, *)
LEMMA PlacedHere ==
  ASSUME NEW l, Good(l), NEW M, NEW a, NEW b, NEW q, IsChain(l, M, a, b, q),
         NEW p \in Nodes, p # q, NEW s, IsList(l, p, s),
         NEW x, NEW y, NEW i \in 0..Len(s), IsBetween(s, i, x, y),
         NEW c, Good(c), IsPlaced(l, M, a, b, q, p, x, y, c),
         NEW r, IsRun(l, r, M, a, b)
  PROVE  Listed(c, p) = DOM!Spliced(s, i, r, i + 1)
<1>. DEFINE t == DOM!Spliced(s, i, r, i + 1)
            m == Len(r)
<1>1. /\ s \in Seq(Nodes) /\ Len(s) \in Nat
      /\ \A k \in 1..Len(s) : s[k] \in Elems /\ l.parent[s[k]] = p
      /\ Distinct(s)
      /\ l.children[p] = IF Len(s) = 0 THEN NULL ELSE s[1]
      /\ \A k \in 1..Len(s) : l.next[s[k]] = IF k = Len(s) THEN NULL ELSE s[k + 1]
  BY DEF IsList, Spells
<1>2. /\ r \in Seq(Nodes) /\ m \in Nat /\ m # 0 /\ r[1] = a /\ r[m] = b
      /\ \A k \in 1..m : r[k] \in M
      /\ Distinct(r)
      /\ \A k \in 1..m : k # m => l.next[r[k]] = r[k + 1]
  BY DEF IsRun
<1>3. i \in Nat /\ i <= Len(s)
  BY <1>1
<1>4. x = (IF i = 0 THEN NULL ELSE s[i]) /\ y = IF i = Len(s) THEN NULL ELSE s[i + 1]
  BY DEF IsBetween
<1>5. /\ \A z \in Nodes : c.next[z] = IF z = b THEN y ELSE IF z = x THEN a ELSE l.next[z]
      /\ \A z \in Nodes : c.children[z] = IF z = p /\ x = NULL THEN a
                                          ELSE IF z = q THEN NULL ELSE l.children[z]
  BY DEF IsPlaced
<1>6. /\ \A z \in M : z \in Nodes /\ l.parent[z] = q
      /\ \A k \in 1..Len(s) : s[k] \in Nodes /\ s[k] # NULL
  BY <1>1, NodesCounted DEF IsChain, Nodes
<1>7. \A k \in 1..Len(s) : s[k] \notin M
  BY <1>1, <1>6
<1>8. b \in M /\ a \in M
  BY DEF IsChain
<1>9. IsSpliced(s, i, r, i + 1, t)
  <2>1. i + 1 \in (i + 1)..(Len(s) + 1)
    BY <1>1, <1>3
  <2>. QED BY <1>1, <1>2, <2>1, SplicedIs
<1>. HIDE DEF t
<1>10. /\ t \in Seq(Nodes) /\ Len(t) = m + Len(s)
       /\ \A k \in 1..Len(t) : t[k] = IF k <= i THEN s[k] ELSE IF k <= i + m THEN r[k - i] ELSE s[k - m]
  <2>1. t \in Seq(Nodes) /\ Len(t) = m + Len(s)
    BY <1>1, <1>2, <1>3, <1>9 DEF IsSpliced
  <2>2. ASSUME NEW k \in 1..Len(t)
        PROVE  t[k] = IF k <= i THEN s[k] ELSE IF k <= i + m THEN r[k - i] ELSE s[k - m]
    <3>1. t[k] = IF k <= i THEN s[k]
                 ELSE IF k <= i + m THEN r[k - i]
                 ELSE s[k - (i + m) + (i + 1) - 1]
      BY <1>9 DEF IsSpliced
    <3>2. k \in Nat /\ k - (i + m) + (i + 1) - 1 = k - m
      BY <1>1, <1>2, <1>3, <2>1
    <3>. QED BY <3>1, <3>2
  <2>. QED BY <2>1, <2>2
<1>. HIDE DEF m
<1>11. c.children[p] = IF Len(t) = 0 THEN NULL ELSE t[1]
  <2>1. Len(t) # 0 /\ 1 \in 1..Len(t)
    BY <1>1, <1>2, <1>10
  <2>2. CASE i = 0
    <3>1. t[1] = r[1]
      BY <1>2, <1>10, <2>1, <2>2
    <3>. QED BY <1>2, <1>4, <1>5, <2>1, <2>2, <3>1
  <2>3. CASE i # 0
    <3>1. 1 <= i /\ 1 \in 1..Len(s) /\ i \in 1..Len(s) /\ Len(s) # 0
      BY <1>1, <1>3, <2>3
    <3>2. t[1] = s[1] /\ x # NULL
      BY <1>4, <1>6, <1>10, <2>1, <2>3, <3>1
    <3>. QED BY <1>1, <1>5, <2>1, <3>1, <3>2
  <2>. QED BY <2>2, <2>3
<1>14. Len(t) = m + Len(s) /\ Len(t) \in Nat /\ m \in Nat /\ Len(s) \in Nat /\ m # 0
  BY <1>1, <1>2, <1>10
<1>12. ASSUME NEW k \in 1..Len(t) PROVE c.next[t[k]] = IF k = Len(t) THEN NULL ELSE t[k + 1]
  <2>0. k \in Nat /\ 1 <= k /\ k <= m + Len(s) /\ (k # Len(t) => k + 1 \in 1..Len(t))
    BY <1>14
  <2>1. CASE k < i
    <3>1. k \in 1..Len(s) /\ i \in 1..Len(s) /\ k # Len(s) /\ k # Len(t) /\ k + 1 <= i /\ k <= i
      BY <1>1, <1>2, <1>3, <1>10, <2>0, <2>1
    <3>2. s[k] # x /\ s[k] # b
      BY <1>1, <1>4, <1>7, <1>8, <2>0, <2>1, <3>1 DEF Distinct
    <3>3. t[k] = s[k] /\ t[k + 1] = s[k + 1]
      BY <1>10, <2>0, <3>1
    <3>. QED BY <1>1, <1>5, <1>6, <3>1, <3>2, <3>3
  <2>2. CASE k = i
    <3>1. k \in 1..Len(s) /\ s[k] = x /\ s[k] # b /\ k # Len(t)
      BY <1>1, <1>2, <1>3, <1>4, <1>7, <1>8, <1>10, <2>0, <2>2
    <3>2. t[k] = s[k] /\ t[k + 1] = r[1]
      <4>1. ~ (k + 1 <= i) /\ k + 1 <= i + m /\ (k + 1) - i = 1
        BY <1>2, <1>3, <2>0, <2>2
      <4>. QED BY <1>10, <2>0, <2>2, <3>1, <4>1
    <3>. QED BY <1>2, <1>5, <1>6, <3>1, <3>2
  <2>3. CASE i < k /\ k < i + m
    <3>. DEFINE h == k - i
    <3>1. h \in 1..m /\ h # m /\ h + 1 \in 1..m /\ m \in 1..m /\ k # Len(t) /\ h = k - i /\ (k + 1) - i = h + 1
          /\ ~ (k <= i) /\ k <= i + m /\ ~ (k + 1 <= i) /\ k + 1 <= i + m
      BY <1>1, <1>2, <1>3, <1>10, <2>0, <2>3
    <3>. HIDE DEF h
    <3>2. t[k] = r[h] /\ t[k + 1] = r[h + 1]
      BY <1>10, <2>0, <3>1
    <3>3. r[h] \in M /\ r[h] # b /\ r[h] # x /\ r[h] \in Nodes
      <4>1. i = 0 \/ i \in 1..Len(s)
        BY <1>1, <1>3
      <4>2. r[h] \in M /\ r[h] \in Nodes /\ r[h] # NULL
        BY <1>2, <1>6, <3>1, NodesCounted
      <4>3. r[h] # b
        BY <1>2, <3>1 DEF Distinct, m
      <4>4. r[h] # x
        BY <1>4, <1>7, <4>1, <4>2
      <4>. QED BY <4>2, <4>3, <4>4
    <3>. QED BY <1>2, <1>5, <3>1, <3>2, <3>3
  <2>4. CASE k = i + m
    <3>1. t[k] = b
      <4>1. ~ (k <= i) /\ k <= i + m /\ k - i = m
        BY <1>2, <1>3, <2>0, <2>4
      <4>. QED BY <1>2, <1>10, <4>1
    <3>2. c.next[b] = y
      BY <1>5, <1>6, <1>8
    <3>3. k = Len(t) <=> i = Len(s)
      BY <1>3, <1>14, <2>4
    <3>4. ASSUME k # Len(t) PROVE t[k + 1] = s[i + 1]
      <4>1. ~ (k + 1 <= i) /\ ~ (k + 1 <= i + m) /\ (k + 1) - m = i + 1
        BY <1>2, <1>3, <2>0, <2>4
      <4>. QED BY <1>10, <2>0, <3>4, <4>1
    <3>. QED BY <1>4, <3>1, <3>2, <3>3, <3>4
  <2>5. CASE i + m < k
    <3>. DEFINE h == k - m
    <3>1. h \in 1..Len(s) /\ i < h /\ h = k - m /\ (k + 1) - m = h + 1 /\ (h = Len(s) <=> k = Len(t))
          /\ ~ (k <= i) /\ ~ (k <= i + m) /\ ~ (k + 1 <= i) /\ ~ (k + 1 <= i + m)
      BY <1>1, <1>2, <1>3, <1>10, <2>0, <2>5
    <3>. HIDE DEF h
    <3>2. t[k] = s[h] /\ (k # Len(t) => t[k + 1] = s[h + 1])
      BY <1>10, <2>0, <3>1
    <3>3. s[h] # b /\ s[h] # x /\ s[h] \in Nodes
      <4>1. i = 0 \/ i \in 1..Len(s)
        BY <1>1, <1>3
      <4>. QED BY <1>1, <1>4, <1>6, <1>7, <1>8, <3>1, <4>1 DEF Distinct
    <3>. QED BY <1>1, <1>5, <3>1, <3>2, <3>3
  <2>. QED BY <1>2, <1>3, <2>0, <2>1, <2>2, <2>3, <2>4, <2>5
<1>13. Spells(c, p, t)
  BY <1>10, <1>11, <1>12 DEF Spells
<1>. QED BY <1>13, SpelledIsList DEF t

(* its old list is empty, and every other list is as before. *)
LEMMA PlacedElsewhere ==
  ASSUME NEW l, Good(l), NEW M, NEW a, NEW b, NEW q, IsChain(l, M, a, b, q),
         NEW p, NEW x, NEW y, IsGap(l, p, x, y),
         NEW c, Good(c), IsPlaced(l, M, a, b, q, p, x, y, c),
         NEW z \in Nodes, z # p
  PROVE  Listed(c, z) = IF z = q THEN <<>> ELSE Listed(l, z)
<1>1. /\ \A w \in Nodes : c.next[w] = IF w = b THEN y ELSE IF w = x THEN a ELSE l.next[w]
      /\ \A w \in Nodes : c.children[w] = IF w = p /\ x = NULL THEN a
                                          ELSE IF w = q THEN NULL ELSE l.children[w]
  BY DEF IsPlaced
<1>2. CASE z = q
  <2>1. <<>> \in Seq(Nodes) /\ Len(<<>>) = 0
    BY EmptySeq
  <2>2. c.children[z] = NULL
    BY <1>1, <1>2
  <2>3. Spells(c, z, <<>>)
    BY <2>1, <2>2 DEF Spells
  <2>. QED BY <1>2, <2>3, SpelledIsList
<1>3. CASE z # q
  <2>. DEFINE s == Listed(l, z)
  <2>1. IsList(l, z, s)
    BY ListFacts
  <2>. HIDE DEF s
  <2>2. /\ Spells(l, z, s) /\ s \in Seq(Nodes)
        /\ \A k \in 1..Len(s) : s[k] \in Elems /\ l.parent[s[k]] = z
    BY <2>1 DEF IsList
  <2>3. \A k \in 1..Len(s) : s[k] \in Nodes /\ s[k] # NULL
    BY <2>2, NodesCounted DEF Nodes
  <2>4. l.parent[b] = q
    BY DEF IsChain
  <2>5. x # NULL => l.parent[x] = p
    BY DEF IsGap
  <2>6. \A k \in 1..Len(s) : s[k] # b /\ s[k] # x
    BY <1>3, <2>2, <2>3, <2>4, <2>5
  <2>7. Spells(c, z, s)
    <3>1. c.children[z] = l.children[z] /\ \A k \in 1..Len(s) : c.next[s[k]] = l.next[s[k]]
      BY <1>1, <1>3, <2>3, <2>6
    <3>. QED BY <2>2, <3>1 DEF Spells
  <2>. QED BY <1>3, <2>7, SpelledIsList DEF s
<1>. QED BY <1>2, <1>3

(* All lists *)
Lists(l) == [p \in Nodes |-> Listed(l, p)]

(* What an insertion of n moves is a run. *)
LEMMA HeldRun ==
  ASSUME NEW l, Good(l), NEW n \in Nodes,
         n \in Frags => l.children[n] # NULL, n \notin Frags => l.parent[n] = NULL
  PROVE  IsRun(l, DOM!Items(Lists(l), n), Held(l, n), Foremost(l, n), Hindmost(l, n))
<1>1. CASE n \in Frags
  <2>. DEFINE r == Listed(l, n)
  <2>1. IsList(l, n, r)
    BY ListFacts
  <2>2. DOM!Items(Lists(l), n) = r
    BY <1>1 DEF DOM!Items, Lists
  <2>. HIDE DEF r
  <2>3. /\ r \in Seq(Nodes) /\ Len(r) \in Nat /\ Distinct(r)
        /\ \A i \in 1..Len(r) : r[i] \in Nodes /\ l.parent[r[i]] = n
        /\ l.last[n] = IF Len(r) = 0 THEN NULL ELSE r[Len(r)]
        /\ l.children[n] = IF Len(r) = 0 THEN NULL ELSE r[1]
        /\ \A i \in 1..Len(r) : l.next[r[i]] = IF i = Len(r) THEN NULL ELSE r[i + 1]
    BY <2>1 DEF IsList, Spells, Nodes
  <2>4. Len(r) # 0 /\ Foremost(l, n) = r[1] /\ Hindmost(l, n) = r[Len(r)]
    BY <1>1, <2>3 DEF Foremost, Hindmost
  <2>5. \A i \in 1..Len(r) : r[i] \in Held(l, n)
    BY <1>1, <2>3 DEF Held
  <2>6. \A i \in 1..Len(r) : i # Len(r) => l.next[r[i]] = r[i + 1]
    BY <2>3
  <2>. QED BY <2>2, <2>3, <2>4, <2>5, <2>6 DEF IsRun
<1>2. CASE n \notin Frags
  <2>. DEFINE r == <<n>>
  <2>1. DOM!Items(Lists(l), n) = r
    BY <1>2 DEF DOM!Items
  <2>2. Held(l, n) = {n} /\ Foremost(l, n) = n /\ Hindmost(l, n) = n
    BY <1>2 DEF Held, Foremost, Hindmost
  <2>3. r \in Seq(Nodes) /\ Len(r) = 1 /\ r[1] = n
    OBVIOUS
  <2>. HIDE DEF r
  <2>4. \A i \in 1..Len(r) : i = 1
    BY <2>3
  <2>. QED BY <2>1, <2>2, <2>3, <2>4 DEF IsRun, Distinct
<1>. QED BY <1>1, <1>2

(* c is l with what an insertion of n moves behind the first i of the list *)
(* of s.                                                                   *)
PutAt(l, n, s, i, c) ==
  \A z \in Nodes :
    Listed(c, z) = IF z = s THEN DOM!Spliced(Listed(l, s), i, DOM!Items(Lists(l), n), i + 1)
                   ELSE IF z = Home(n) THEN <<>> ELSE Listed(l, z)

(* It is there between x and y. *)
IsPut(l, n, s, x, y, c) ==
  \E i \in 0..Len(Listed(l, s)) : IsBetween(Listed(l, s), i, x, y) /\ PutAt(l, n, s, i, c)

(* This is what the pointers say, *)
LEMMA PlacedPut ==
  ASSUME NEW l, Good(l), NEW n \in Nodes, NEW s \in Nodes, s # Home(n),
         n \in Frags => l.children[n] # NULL, n \notin Frags => l.parent[n] = NULL,
         NEW x, NEW y, IsGap(l, s, x, y), NEW c, Good(c),
         IsPlaced(l, Held(l, n), Foremost(l, n), Hindmost(l, n), Home(n), s, x, y, c)
  PROVE  IsPut(l, n, s, x, y, c)
<1>. DEFINE r == DOM!Items(Lists(l), n)
            L == Listed(l, s)
            M == Held(l, n)
            a == Foremost(l, n)
            b == Hindmost(l, n)
            q == Home(n)
<1>1. IsRun(l, r, M, a, b)
  BY HeldRun
<1>2. IsChain(l, M, a, b, q)
  BY HeldChain
<1>3. IsList(l, s, L)
  BY ListFacts
<1>4. IsPlaced(l, M, a, b, q, s, x, y, c) /\ s # q
  OBVIOUS
<1>. HIDE DEF r, L, M, a, b, q
<1>5. PICK i \in 0..Len(L) : IsBetween(L, i, x, y)
  BY <1>3, GapPlace
<1>6. Listed(c, s) = DOM!Spliced(L, i, r, i + 1)
  BY <1>1, <1>2, <1>3, <1>4, <1>5, PlacedHere
<1>7. \A z \in Nodes : z # s => Listed(c, z) = IF z = q THEN <<>> ELSE Listed(l, z)
  BY <1>2, <1>4, PlacedElsewhere
<1>8. PutAt(l, n, s, i, c)
  BY <1>6, <1>7 DEF PutAt, r, L, q
<1>. QED BY <1>5, <1>8 DEF IsPut, L

(* The pointers next and children make the list. *)
LEMMA ListKept ==
  ASSUME NEW l, Good(l), NEW c, Good(c), \A w \in Nodes : c.next[w] = l.next[w],
         NEW z \in Nodes, c.children[z] = l.children[z]
  PROVE  Listed(c, z) = Listed(l, z)
<1>. DEFINE s == Listed(l, z)
<1>1. Spells(l, z, s)
  BY ListSpelled
<1>. HIDE DEF s
<1>2. \A k \in 1..Len(s) : s[k] \in Nodes
  BY <1>1, ElementOfSeq DEF Spells
<1>3. Spells(c, z, s)
  BY <1>1, <1>2 DEF Spells
<1>. QED BY <1>3, SpelledIsList DEF s

(* Nothing spliced in changes nothing. *)
LEMMA SplicedNothing ==
  ASSUME NEW s \in Seq(Nodes), NEW i \in 0..Len(s)
  PROVE  DOM!Spliced(s, i, <<>>, i + 1) = s
<1>1. Len(s) \in Nat /\ <<>> \in Seq(Nodes) /\ Len(<<>>) = 0 /\ i \in Nat
  BY LenProperties, EmptySeq
<1>2. i + 1 \in (i + 1)..(Len(s) + 1)
  BY <1>1
<1>3. IsSpliced(s, i, <<>>, i + 1, DOM!Spliced(s, i, <<>>, i + 1))
  BY <1>1, <1>2, SplicedIs
<1>4. IsSpliced(s, i, <<>>, i + 1, s)
  <2>1. ASSUME NEW k \in 1..Len(s)
        PROVE  s[k] = IF k <= i THEN s[k]
                      ELSE IF k <= i + Len(<<>>) THEN <<>>[k - i]
                      ELSE s[k - (i + Len(<<>>)) + (i + 1) - 1]
    <3>1. k - (i + Len(<<>>)) + (i + 1) - 1 = k /\ i + Len(<<>>) = i
      BY <1>1
    <3>. QED BY <3>1
  <2>2. Len(s) = i + Len(<<>>) + (Len(s) - (i + 1) + 1)
    BY <1>1
  <2>. QED BY <2>1, <2>2 DEF IsSpliced
<1>. QED BY <1>3, <1>4, SplicedOnce

(* and it is what an empty fragment leads to. *)
LEMMA NothingPut ==
  ASSUME NEW l, Good(l), NEW n \in Frags, l.children[n] = NULL, NEW s \in Nodes, s # n,
         NEW x, NEW y, IsGap(l, s, x, y), NEW c, Good(c),
         \A w \in Nodes : c.next[w] = l.next[w],
         \A w \in Nodes : c.children[w] = l.children[w]
  PROVE  IsPut(l, n, s, x, y, c)
<1>. DEFINE L == Listed(l, s)
<1>0. n \in Nodes /\ Home(n) = n
  BY DEF Nodes, Home
<1>1. \A z \in Nodes : Listed(c, z) = Listed(l, z)
  BY ListKept
<1>2. Listed(l, n) = <<>>
  <2>1. <<>> \in Seq(Nodes) /\ Len(<<>>) = 0
    BY EmptySeq
  <2>2. Spells(l, n, <<>>)
    BY <2>1 DEF Spells
  <2>. QED BY <1>0, <2>2, SpelledIsList
<1>3. DOM!Items(Lists(l), n) = <<>>
  BY <1>0, <1>2 DEF DOM!Items, Lists
<1>4. IsList(l, s, L)
  BY ListFacts
<1>. HIDE DEF L
<1>5. PICK i \in 0..Len(L) : IsBetween(L, i, x, y)
  BY <1>4, GapPlace
<1>6. L \in Seq(Nodes)
  BY <1>4 DEF IsList
<1>7. DOM!Spliced(L, i, <<>>, i + 1) = L
  BY <1>6, SplicedNothing
<1>8. PutAt(l, n, s, i, c)
  BY <1>0, <1>1, <1>2, <1>3, <1>7 DEF PutAt, L
<1>. QED BY <1>5, <1>8 DEF IsPut, L

(* The lists after domUnlinkNode; a node in no list leaves all as they are. *)
LEMMA UnlinkLists ==
  ASSUME NEW l, Good(l), NEW n \in Nodes
  PROVE  /\ Good(domUnlinkNode(l, n))
         /\ \A p \in Nodes : Listed(domUnlinkNode(l, n), p) = DOM!Without(Listed(l, p), n)
         /\ l.parent[n] = NULL =>
              \A p \in Nodes : Listed(domUnlinkNode(l, n), p) = Listed(l, p)
<1>1. Good(domUnlinkNode(l, n)) /\ IsCut(l, n, domUnlinkNode(l, n))
  BY UnlinkGood, UnlinkCuts
<1>2. \A p \in Nodes : Listed(domUnlinkNode(l, n), p) = DOM!Without(Listed(l, p), n)
  BY <1>1, CutLists
<1>3. ASSUME l.parent[n] = NULL, NEW p \in Nodes
      PROVE  DOM!Without(Listed(l, p), n) = Listed(l, p)
  <2>1. IsList(l, p, Listed(l, p))
    BY ListFacts
  <2>2. \A i \in 1..Len(Listed(l, p)) : Listed(l, p)[i] # n
    BY <1>3, <2>1, NodesCounted DEF IsList
  <2>. QED BY <2>1, <2>2, WithoutIs DEF IsList
<1>. QED BY <1>1, <1>2, <1>3

(* A node without children has the empty list. *)
LEMMA EmptyListed ==
  ASSUME NEW l, Good(l), NEW p \in Nodes, l.children[p] = NULL
  PROVE  Listed(l, p) = <<>> /\ Len(Listed(l, p)) = 0
<1>1. <<>> \in Seq(Nodes) /\ Len(<<>>) = 0
  BY EmptySeq
<1>2. Spells(l, p, <<>>)
  BY <1>1 DEF Spells
<1>. QED BY <1>1, <1>2, SpelledIsList

(* Only the lists tell what an insertion does to them. *)
LEMMA SamePut ==
  ASSUME NEW l, NEW k, \A z \in Nodes : Listed(k, z) = Listed(l, z),
         NEW n \in Nodes, NEW s \in Nodes, NEW x, NEW y, NEW c, IsPut(k, n, s, x, y, c)
  PROVE  IsPut(l, n, s, x, y, c)
<1>1. Lists(k) = Lists(l) /\ Listed(k, s) = Listed(l, s)
  BY DEF Lists
<1>2. PICK i \in 0..Len(Listed(k, s)) : IsBetween(Listed(k, s), i, x, y) /\ PutAt(k, n, s, i, c)
  BY DEF IsPut
<1>3. PutAt(l, n, s, i, c)
  BY <1>1, <1>2 DEF PutAt
<1>. QED BY <1>1, <1>2, <1>3 DEF IsPut

(* A node leaves a gap between its neighbours. *)
LEMMA CutGap ==
  ASSUME NEW l, Good(l), NEW n \in Nodes, NEW p \in Nodes, l.parent[n] = p, NEW c, IsCut(l, n, c)
  PROVE  IsGap(c, p, l.prev[n], l.next[n])
<1>. DEFINE x == l.prev[n]
            y == l.next[n]
<1>1. /\ \A z \in Nodes : c.next[z] = IF z = n THEN NULL ELSE IF z = x THEN y ELSE l.next[z]
      /\ \A z \in Nodes : c.prev[z] = IF z = n THEN NULL ELSE IF z = y THEN x ELSE l.prev[z]
      /\ \A z \in Nodes : c.last[z] = IF z = p /\ l.last[z] = n THEN x ELSE l.last[z]
      /\ \A z \in Nodes : c.children[z] = IF z = p /\ l.children[z] = n THEN y ELSE l.children[z]
      /\ \A z \in Nodes : c.parent[z] = IF z = n THEN NULL ELSE l.parent[z]
  BY DEF IsCut
<1>2. /\ x \in Ends /\ y \in Ends
      /\ x # NULL => l.parent[x] = p /\ l.next[x] = n
      /\ y # NULL => l.parent[y] = p /\ l.prev[y] = n
      /\ x = NULL => l.children[p] = n
      /\ y = NULL => l.last[p] = n
  BY NodesCounted, GoodFacts DEF Shaped
<1>3. l.next[n] # n
  <2>. DEFINE S == {n}
  <2>1. S \in SUBSET Nodes /\ S # {} /\ \A z \in S : z = n
    OBVIOUS
  <2>. HIDE DEF S
  <2>. QED BY <2>1, GoodFacts DEF Grounded
<1>4. x # n /\ y # n
  BY <1>2, <1>3, NodesCounted
<1>. HIDE DEF x, y
<1>5. IsGap(c, p, x, y)
  BY <1>1, <1>2, <1>4, NodesCounted DEF IsGap, Ends
<1>. QED BY <1>5 DEF x, y

-----------------------------------------------------------------------------
(* What the operations of dom.c leave.                                     *)

(* An empty fragment adds nothing. *)
LEMMA AddNothing ==
  ASSUME NEW l, Good(l), NEW n \in Frags, l.children[n] = NULL,
         NEW x \in Ends, NEW y \in Ends, x # NULL \/ y # NULL
  PROVE  /\ Good(domAddNodeToList(l, n, x, y))
         /\ \A z \in Nodes : domAddNodeToList(l, n, x, y).parent[z] = l.parent[z]
         /\ \A z \in Nodes : domAddNodeToList(l, n, x, y).children[z] = l.children[z]
         /\ \A z \in Nodes : domAddNodeToList(l, n, x, y).next[z] = l.next[z]
<1>. DEFINE p == l.parent[IF x # NULL THEN x ELSE y]
            c == domAddNodeToList(l, n, x, y)
<1>1. n \in Nodes
  BY DEF Nodes
<1>2. Moved(l, n) = {}
  <2>1. Moved(l, n) = Held(l, n)
    BY <1>1, MovedHeld
  <2>. QED BY <1>1, <2>1, NoChildren DEF Held
<1>3. Foremost(l, n) = NULL
  BY DEF Foremost
<1>4. /\ l \in Links
      /\ l.parent \in Pointers /\ l.children \in Pointers /\ l.last \in Pointers
  BY GoodFacts DEF Good
<1>. DEFINE pr == [m \in Nodes |-> IF m \in {} THEN p ELSE l.parent[m]]
<1>5. c = [l EXCEPT !.parent = pr, !.children = Emptied(l.children, n), !.last = Emptied(l.last, n)]
  BY <1>2, <1>3 DEF domAddNodeToList
<1>6. pr = l.parent
  BY <1>4 DEF Pointers
<1>. HIDE DEF c, pr
<1>7. /\ Emptied(l.children, n) \in Pointers
      /\ \A z \in Nodes : Emptied(l.children, n)[z] = l.children[z]
  <2>1. Home(n) = n
    BY DEF Home
  <2>. QED BY <1>1, <1>4, <2>1, EmptiedHome
<1>8. /\ Emptied(l.last, n) \in Pointers
      /\ \A z \in Nodes : Emptied(l.last, n)[z] = l.last[z]
  <2>1. Home(n) = n
    BY DEF Home
  <2>2. l.last[n] = NULL
    BY <1>1, NoChildren
  <2>. QED BY <1>1, <1>4, <2>1, <2>2, EmptiedHome
<1>9. c \in Links
  BY <1>4, <1>5, <1>6, <1>7, <1>8 DEF Links
<1>10. /\ c.parent = l.parent /\ c.children = Emptied(l.children, n)
       /\ c.last = Emptied(l.last, n) /\ c.next = l.next /\ c.prev = l.prev
  BY <1>4, <1>5, <1>6 DEF Links
<1>11. Good(c) /\ \A z \in Nodes : c.parent[z] = l.parent[z]
  BY <1>7, <1>8, <1>9, <1>10, SameGood
<1>12. \A z \in Nodes : c.children[z] = l.children[z] /\ c.next[z] = l.next[z]
  BY <1>7, <1>10
<1>. QED BY <1>11, <1>12 DEF c

(* What domAddNodeToList does between two neighbours *)
LEMMA AddGood ==
  ASSUME NEW l, Good(l), NEW s \in Nodes, NEW n \in Nodes, NotUnder(l, s, n),
         n \notin Frags => l.parent[n] = NULL,
         NEW x, NEW y, IsGap(l, s, x, y), x # NULL \/ y # NULL
  PROVE  /\ Good(domAddNodeToList(l, n, x, y))
         /\ \A z \in Nodes : domAddNodeToList(l, n, x, y).parent[z] =
                               IF z \in Held(l, n) THEN s ELSE l.parent[z]
         /\ IsPut(l, n, s, x, y, domAddNodeToList(l, n, x, y))
<1>. DEFINE c == domAddNodeToList(l, n, x, y)
<1>1. /\ x \in Ends /\ y \in Ends
      /\ x # NULL => l.parent[x] = s
      /\ y # NULL => l.parent[y] = s
  BY DEF IsGap
<1>2. IsOutside(l, s, Held(l, n)) /\ s # Home(n)
  BY NotUnderOutside
<1>3. CASE n \in Frags /\ l.children[n] = NULL
  <2>1. /\ Good(c) /\ \A z \in Nodes : c.parent[z] = l.parent[z]
        /\ \A z \in Nodes : c.children[z] = l.children[z]
        /\ \A z \in Nodes : c.next[z] = l.next[z]
    BY <1>1, <1>3, AddNothing
  <2>2. Held(l, n) = {}
    BY <1>3, NoChildren DEF Held
  <2>3. s # n
    BY NotUnderOutside
  <2>. HIDE DEF c
  <2>4. IsPut(l, n, s, x, y, c)
    BY <1>3, <2>1, <2>3, NothingPut
  <2>. QED BY <2>1, <2>2, <2>4 DEF c
<1>4. CASE ~ (n \in Frags /\ l.children[n] = NULL)
  <2>1. IsPlaced(l, Held(l, n), Foremost(l, n), Hindmost(l, n), Home(n), s, x, y, c)
    BY <1>1, <1>2, <1>4, AddPlaces
  <2>2. IsChain(l, Held(l, n), Foremost(l, n), Hindmost(l, n), Home(n))
    BY <1>4, HeldChain
  <2>. HIDE DEF c
  <2>3. Good(c)
    BY <1>2, <2>1, <2>2, PlaceGood
  <2>4. \A z \in Nodes : c.parent[z] = IF z \in Held(l, n) THEN s ELSE l.parent[z]
    BY <2>1 DEF IsPlaced
  <2>5. IsPut(l, n, s, x, y, c)
    BY <1>2, <1>4, <2>1, <2>3, PlacedPut
  <2>. QED BY <2>3, <2>4, <2>5 DEF c
<1>. QED BY <1>3, <1>4

(* A node in no list becomes the only child of s. *)
OnlyUnder(l, s, n) ==
  [l EXCEPT !.parent   = [m \in Nodes |-> IF m \in Moved(l, n) THEN s ELSE @[m]],
            !.children = [Emptied(@, n) EXCEPT ![s] = Foremost(l, n)],
            !.last     = [Emptied(@, n) EXCEPT ![s] = Hindmost(l, n)]]

(* It leaves good links. *)
LEMMA OnlyUnderGood ==
  ASSUME NEW l, Good(l), NEW s \in Nodes, NEW n \in Nodes, NotUnder(l, s, n),
         n \notin Frags => l.parent[n] = NULL, l.children[s] = NULL
  PROVE  /\ Good(OnlyUnder(l, s, n))
         /\ \A z \in Nodes : OnlyUnder(l, s, n).parent[z] =
                               IF z \in Held(l, n) THEN s ELSE l.parent[z]
         /\ IsPut(l, n, s, NULL, NULL, OnlyUnder(l, s, n))
<1>. DEFINE c  == OnlyUnder(l, s, n)
            M  == Held(l, n)
            a  == Foremost(l, n)
            b  == Hindmost(l, n)
            q  == Home(n)
            pr == [m \in Nodes |-> IF m \in M THEN s ELSE l.parent[m]]
            ch == [Emptied(l.children, n) EXCEPT ![s] = a]
            la == [Emptied(l.last, n) EXCEPT ![s] = b]
<1>1. /\ l \in Links
      /\ l.parent \in Pointers /\ l.children \in Pointers /\ l.last \in Pointers
      /\ l.next \in Pointers /\ l.prev \in Pointers /\ NULL \in Ends
  BY GoodFacts DEF Good, Ends
<1>2. Moved(l, n) = M
  BY MovedHeld
<1>3. IsOutside(l, s, M) /\ s # q
  BY NotUnderOutside
<1>4. a \in Ends /\ b \in Ends
  BY GoodFacts DEF Foremost, Hindmost, Ends
<1>5. l.last[s] = NULL /\ IsGap(l, s, NULL, NULL)
  BY NoChildren, LastGap
<1>6. c = [l EXCEPT !.parent = pr, !.children = ch, !.last = la]
  BY <1>2 DEF OnlyUnder
<1>. HIDE DEF c, M, a, b, q
<1>7. pr \in Pointers /\ \A z \in Nodes : pr[z] = IF z \in M THEN s ELSE l.parent[z]
  BY <1>1 DEF Pointers
<1>8. /\ ch \in Pointers
      /\ \A z \in Nodes : ch[z] = IF z = s THEN a ELSE IF z = q THEN NULL ELSE l.children[z]
  <2>. DEFINE e == Emptied(l.children, n)
  <2>1. e \in Pointers /\ \A z \in Nodes : e[z] = IF z = q THEN NULL ELSE l.children[z]
    BY <1>1, EmptiedHome DEF q
  <2>. HIDE DEF e
  <2>2. IsSet([e EXCEPT ![s] = a], e, s, a)
    BY <1>4, <2>1, PointerSet
  <2>3. ch = [e EXCEPT ![s] = a]
    BY DEF e
  <2>. HIDE DEF ch
  <2>. QED BY <2>1, <2>2, <2>3 DEF IsSet
<1>9. /\ la \in Pointers
      /\ \A z \in Nodes : la[z] = IF z = s THEN b ELSE IF z = q THEN NULL ELSE l.last[z]
  <2>. DEFINE e == Emptied(l.last, n)
  <2>1. e \in Pointers /\ \A z \in Nodes : e[z] = IF z = q THEN NULL ELSE l.last[z]
    BY <1>1, EmptiedHome DEF q
  <2>. HIDE DEF e
  <2>2. IsSet([e EXCEPT ![s] = b], e, s, b)
    BY <1>4, <2>1, PointerSet
  <2>3. la = [e EXCEPT ![s] = b]
    BY DEF e
  <2>. HIDE DEF la
  <2>. QED BY <2>1, <2>2, <2>3 DEF IsSet
<1>. HIDE DEF pr, ch, la
<1>10. c \in Links
  BY <1>1, <1>6, <1>7, <1>8, <1>9 DEF Links
<1>11. c.parent = pr /\ c.children = ch /\ c.last = la /\ c.next = l.next /\ c.prev = l.prev
  BY <1>1, <1>6 DEF Links
<1>12. \A z \in Nodes : c.parent[z] = IF z \in M THEN s ELSE l.parent[z]
  BY <1>7, <1>11
<1>13. CASE n \in Frags /\ l.children[n] = NULL
  <2>1. M = {} /\ a = NULL /\ b = NULL /\ q = n /\ l.last[n] = NULL
    BY <1>13, NoChildren DEF M, Held, a, b, q, Foremost, Hindmost, Home
  <2>2. Good(c)
    BY <1>5, <1>7, <1>8, <1>9, <1>10, <1>11, <1>13, <2>1, SameGood
  <2>3. /\ \A z \in Nodes : c.next[z] = l.next[z]
        /\ \A z \in Nodes : c.children[z] = l.children[z]
    BY <1>8, <1>11, <1>13, <2>1
  <2>4. s # n
    BY <1>3, <2>1
  <2>5. IsPut(l, n, s, NULL, NULL, c)
    BY <1>5, <1>13, <2>2, <2>3, <2>4, NothingPut
  <2>. QED BY <1>12, <2>2, <2>5 DEF c, M
<1>14. CASE ~ (n \in Frags /\ l.children[n] = NULL)
  <2>1. IsChain(l, M, a, b, q)
    BY <1>14, HeldChain DEF M, a, b, q
  <2>2. l.next[b] = NULL /\ l.prev[a] = NULL
    BY <2>1 DEF IsChain
  <2>3. IsPlaced(l, M, a, b, q, s, NULL, NULL, c)
    <3>1. \A z \in Nodes : c.next[z] = IF z = b THEN NULL ELSE IF z = NULL THEN a ELSE l.next[z]
      BY <1>11, <2>2, NodesCounted
    <3>2. \A z \in Nodes : c.prev[z] = IF z = a THEN NULL ELSE IF z = NULL THEN b ELSE l.prev[z]
      BY <1>11, <2>2, NodesCounted
    <3>3. \A z \in Nodes : c.children[z] = IF z = s /\ NULL = NULL THEN a
                                           ELSE IF z = q THEN NULL ELSE l.children[z]
      BY <1>8, <1>11
    <3>4. \A z \in Nodes : c.last[z] = IF z = s /\ NULL = NULL THEN b
                                       ELSE IF z = q THEN NULL ELSE l.last[z]
      BY <1>9, <1>11
    <3>. QED BY <1>10, <1>12, <3>1, <3>2, <3>3, <3>4 DEF IsPlaced
  <2>4. Good(c)
    BY <1>3, <1>5, <2>1, <2>3, PlaceGood
  <2>5. IsPut(l, n, s, NULL, NULL, c)
    BY <1>3, <1>5, <1>14, <2>3, <2>4, PlacedPut DEF M, a, b, q
  <2>. QED BY <1>12, <2>4, <2>5 DEF c, M
<1>. QED BY <1>13, <1>14

(* What a node holds is the same when it has left its list. *)
LEMMA HeldCut ==
  ASSUME NEW l, Good(l), NEW n \in Nodes
  PROVE  Held(domUnlinkNode(l, n), n) = Held(l, n)
<1>1. CASE n \in Frags
  <2>1. l.parent[n] = NULL
    BY <1>1, GoodFacts DEF Shaped
  <2>2. \A z \in Nodes : domUnlinkNode(l, n).parent[z] = l.parent[z]
    BY <2>1, UnlinkGood
  <2>. QED BY <2>2 DEF Held
<1>2. CASE n \notin Frags
  BY <1>2 DEF Held
<1>. QED BY <1>1, <1>2

(* domAppendChild *)
LEMMA AppendGood ==
  ASSUME NEW l, Good(l), NEW s \in Nodes, NEW n \in Nodes, NotUnder(l, s, n)
  PROVE  /\ Good(domAppendChild(l, s, n))
         /\ \A z \in Nodes : z # n /\ z \notin Held(l, n) =>
                               domAppendChild(l, s, n).parent[z] = l.parent[z]
         /\ IsPut(domUnlinkNode(l, n), n, s, domUnlinkNode(l, n).last[s], NULL,
                  domAppendChild(l, s, n))
<1>. DEFINE cut == domUnlinkNode(l, n)
            c   == domAppendChild(l, s, n)
<1>1. Good(cut) /\ cut.parent[n] = NULL /\ \A z \in Nodes : z # n => cut.parent[z] = l.parent[z]
  BY UnlinkGood
<1>2. Held(cut, n) = Held(l, n)
  BY HeldCut
<1>3. c = IF cut.children[s] # NULL THEN domAddNodeToList(cut, n, cut.last[s], NULL)
          ELSE OnlyUnder(cut, s, n)
  BY DEF domAppendChild, OnlyUnder
<1>. HIDE DEF cut, c
<1>4. NotUnder(cut, s, n)
  <2>1. \A z \in Nodes : cut.parent[z] = l.parent[z] \/ cut.parent[z] = NULL
    BY <1>1
  <2>. QED BY <2>1, NotUnderKept
<1>5. CASE cut.children[s] # NULL
  <2>1. cut.last[s] # NULL /\ IsGap(cut, s, cut.last[s], NULL)
    BY <1>1, <1>5, NoChildren, LastGap
  <2>2. /\ Good(c) /\ \A z \in Nodes : c.parent[z] = IF z \in Held(cut, n) THEN s ELSE cut.parent[z]
        /\ IsPut(cut, n, s, cut.last[s], NULL, c)
    BY <1>1, <1>3, <1>4, <1>5, <2>1, AddGood
  <2>. QED BY <1>1, <1>2, <2>2 DEF c, cut
<1>6. CASE cut.children[s] = NULL
  <2>1. /\ Good(c) /\ \A z \in Nodes : c.parent[z] = IF z \in Held(cut, n) THEN s ELSE cut.parent[z]
        /\ IsPut(cut, n, s, NULL, NULL, c)
    BY <1>1, <1>3, <1>4, <1>6, OnlyUnderGood
  <2>2. cut.last[s] = NULL
    BY <1>1, <1>6, NoChildren
  <2>. QED BY <1>1, <1>2, <2>1, <2>2 DEF c, cut
<1>. QED BY <1>5, <1>6

(* domInsertBefore *)
LEMMA InsertGood ==
  ASSUME NEW l, Good(l), NEW s \in Nodes, NEW n \in Nodes, NotUnder(l, s, n), NEW r \in Ends
  PROVE  Good(domInsertBefore(l, s, n, r))
<1>. DEFINE cut == domUnlinkNode(l, n)
            c   == domInsertBefore(l, s, n, r)
<1>1. Good(cut) /\ cut.parent[n] = NULL /\ \A z \in Nodes : z # n => cut.parent[z] = l.parent[z]
  BY UnlinkGood
<1>2. \/ c = l
      \/ c = domAppendChild(l, s, n)
      \/ r = NULL /\ c = domAddNodeToList(cut, n, cut.last[s], NULL)
      \/ r # NULL /\ r # n /\ l.parent[r] = s /\ c = domAddNodeToList(cut, n, cut.prev[r], r)
  BY DEF domInsertBefore
<1>. HIDE DEF cut, c
<1>3. NotUnder(cut, s, n)
  <2>1. \A z \in Nodes : cut.parent[z] = l.parent[z] \/ cut.parent[z] = NULL
    BY <1>1
  <2>. QED BY <2>1, NotUnderKept
<1>4. CASE c = l
  BY <1>4 DEF c
<1>5. CASE c = domAppendChild(l, s, n)
  BY <1>5, AppendGood DEF c
<1>6. CASE r = NULL /\ c = domAddNodeToList(cut, n, cut.last[s], NULL)
  <2>1. CASE cut.last[s] = NULL
    <3>1. c = cut
      BY <1>6, <2>1 DEF domAddNodeToList
    <3>. QED BY <1>1, <3>1 DEF c
  <2>2. CASE cut.last[s] # NULL
    <3>1. IsGap(cut, s, cut.last[s], NULL)
      BY <1>1, LastGap
    <3>2. Good(c)
      BY <1>1, <1>3, <1>6, <2>2, <3>1, AddGood
    <3>. QED BY <3>2 DEF c
  <2>. QED BY <2>1, <2>2
<1>7. CASE r # NULL /\ r # n /\ l.parent[r] = s /\ c = domAddNodeToList(cut, n, cut.prev[r], r)
  <2>1. r \in Nodes /\ cut.parent[r] = s
    BY <1>1, <1>7 DEF Ends
  <2>2. IsGap(cut, s, cut.prev[r], r)
    BY <1>1, <2>1, GapBefore
  <2>3. Good(c)
    BY <1>1, <1>3, <1>7, <2>2, AddGood
  <2>. QED BY <2>3 DEF c
<1>. QED BY <1>2, <1>4, <1>5, <1>6, <1>7

(* xmlAddChild *)
LEMMA AddChildGood ==
  ASSUME NEW l, Good(l), NEW p \in Nodes, NEW n \in Elems, NotUnder(l, p, n), l.parent[n] = NULL
  PROVE  Good(xmlAddChild(l, p, n)) /\ IsPut(l, n, p, l.last[p], NULL, xmlAddChild(l, p, n))
<1>. DEFINE c  == xmlAddChild(l, p, n)
            x  == l.last[p]
            pr == [l.parent EXCEPT ![n] = p]
            nx == Set(l.next, x, n)
            pv == [l.prev EXCEPT ![n] = x]
            ch == [l.children EXCEPT ![p] = IF l.children[p] = NULL THEN n ELSE l.children[p]]
            la == [l.last EXCEPT ![p] = n]
<1>1. /\ l \in Links
      /\ l.parent \in Pointers /\ l.children \in Pointers /\ l.last \in Pointers
      /\ l.next \in Pointers /\ l.prev \in Pointers /\ NULL \in Ends
      /\ x \in Ends /\ l.children[p] \in Ends
  BY GoodFacts DEF Good, Ends
<1>2. n \in Nodes /\ n \notin Frags /\ n \in Ends /\ p \in Ends
  BY KindsAssumption DEF Nodes, Ends
<1>3. /\ Held(l, n) = {n} /\ Foremost(l, n) = n /\ Hindmost(l, n) = n /\ Home(n) = NULL
      /\ IsChain(l, {n}, n, n, NULL)
  BY <1>2, HeldChain DEF Held, Foremost, Hindmost, Home
<1>4. IsOutside(l, p, {n}) /\ p # NULL /\ p # n
  BY <1>2, <1>3, NotUnderOutside
<1>5. IsGap(l, p, x, NULL)
  BY LastGap
<1>6. l.children[p] = NULL <=> x = NULL
  BY NoChildren
<1>7. l.next[n] = NULL /\ l.prev[n] = NULL /\ x # n
  BY <1>2, <1>3, <1>4, <1>5, NodesCounted DEF IsChain, IsGap
<1>8. c = [l EXCEPT !.parent = pr, !.next = nx, !.prev = pv, !.children = ch, !.last = la]
  BY DEF xmlAddChild
<1>9. /\ IsSet(pr, l.parent, n, p) /\ IsSet(nx, l.next, x, n) /\ IsSet(pv, l.prev, n, x)
      /\ IsSet(la, l.last, p, n)
      /\ IsSet(ch, l.children, p, IF l.children[p] = NULL THEN n ELSE l.children[p])
  <2>1. IsSet(pr, l.parent, n, p) /\ IsSet(pv, l.prev, n, x) /\ IsSet(la, l.last, p, n)
    BY <1>1, <1>2, PointerSet
  <2>2. IsSet(nx, l.next, x, n)
    BY <1>1, <1>2, SetPointer
  <2>3. (IF l.children[p] = NULL THEN n ELSE l.children[p]) \in Ends
    BY <1>1, <1>2
  <2>4. IsSet(ch, l.children, p, IF l.children[p] = NULL THEN n ELSE l.children[p])
    BY <1>1, <2>3, PointerSet
  <2>. QED BY <2>1, <2>2, <2>4
<1>. HIDE DEF c, pr, nx, pv, ch, la
<1>10. c \in Links
  BY <1>1, <1>8, <1>9 DEF Links, IsSet
<1>11. c.parent = pr /\ c.next = nx /\ c.prev = pv /\ c.children = ch /\ c.last = la
  BY <1>1, <1>8 DEF Links
<1>12. IsPlaced(l, {n}, n, n, NULL, p, x, NULL, c)
  <2>1. \A z \in Nodes : c.next[z] = IF z = n THEN NULL ELSE IF z = x THEN n ELSE l.next[z]
    BY <1>7, <1>9, <1>11 DEF IsSet
  <2>2. \A z \in Nodes : c.prev[z] = IF z = n THEN x ELSE IF z = NULL THEN n ELSE l.prev[z]
    BY <1>9, <1>11, NodesCounted DEF IsSet
  <2>3. \A z \in Nodes : c.parent[z] = IF z \in {n} THEN p ELSE l.parent[z]
    BY <1>9, <1>11 DEF IsSet
  <2>4. \A z \in Nodes : c.children[z] = IF z = p /\ x = NULL THEN n
                                         ELSE IF z = NULL THEN NULL ELSE l.children[z]
    BY <1>6, <1>9, <1>11, NodesCounted DEF IsSet
  <2>5. \A z \in Nodes : c.last[z] = IF z = p /\ NULL = NULL THEN n
                                     ELSE IF z = NULL THEN NULL ELSE l.last[z]
    BY <1>9, <1>11, NodesCounted DEF IsSet
  <2>. QED BY <1>10, <2>1, <2>2, <2>3, <2>4, <2>5 DEF IsPlaced
<1>13. Good(c)
  BY <1>3, <1>4, <1>5, <1>12, PlaceGood
<1>14. IsPlaced(l, Held(l, n), Foremost(l, n), Hindmost(l, n), Home(n), p, x, NULL, c)
  BY <1>3, <1>12
<1>15. IsPut(l, n, p, x, NULL, c)
  BY <1>2, <1>3, <1>4, <1>5, <1>13, <1>14, PlacedPut
<1>. QED BY <1>13, <1>15 DEF c

(* domReplaceChild of a child of s: what comes in is in its place, and it  *)
(* is in no list.                                                          *)
LEMMA ReplaceGood ==
  ASSUME NEW l, Good(l), NEW s \in Nodes, NEW n \in Nodes, NotUnder(l, s, n),
         NEW old \in Elems, l.parent[old] = s, n # old
  PROVE  /\ Good(domReplaceChild(l, s, n, old))
         /\ domReplaceChild(l, s, n, old).parent[old] = NULL
         /\ IsPut(domUnlinkNode(domUnlinkNode(l, n), old), n, s,
                  domUnlinkNode(l, n).prev[old], domUnlinkNode(l, n).next[old],
                  domReplaceChild(l, s, n, old))
<1>. DEFINE cut   == domUnlinkNode(l, n)
            rest  == domUnlinkNode(cut, old)
            x     == cut.prev[old]
            y     == cut.next[old]
            put   == domAddNodeToList(cut, n, x, y)
            c     == domReplaceChild(l, s, n, old)
<1>0. old \in Nodes /\ old \notin Frags /\ s # n
  BY KindsAssumption, NotUnderOutside DEF Nodes
<1>1. Good(cut) /\ cut.parent[n] = NULL /\ \A z \in Nodes : z # n => cut.parent[z] = l.parent[z]
  BY UnlinkGood
<1>2. cut.parent[old] = s
  BY <1>0, <1>1
<1>3. domRemoveChild(cut, s, old) = rest
  BY <1>2 DEF domRemoveChild
<1>4. IsCut(cut, old, rest)
  BY <1>0, <1>1, UnlinkCuts
<1>5. /\ Good(rest) /\ rest.parent[old] = NULL
      /\ \A z \in Nodes : z # old => rest.parent[z] = cut.parent[z]
  BY <1>0, <1>1, UnlinkGood
<1>6. c = IF cut.children[s] = old /\ cut.last[s] = old THEN domAppendChild(rest, s, n)
          ELSE IF n \in Frags /\ cut.children[n] = NULL THEN rest
          ELSE [put EXCEPT !.parent[old] = NULL, !.next[old] = NULL, !.prev[old] = NULL]
  BY <1>3 DEF domReplaceChild
<1>7. NotUnder(cut, s, n)
  <2>1. \A z \in Nodes : cut.parent[z] = l.parent[z] \/ cut.parent[z] = NULL
    BY <1>1
  <2>. HIDE DEF cut
  <2>. QED BY <2>1, NotUnderKept
<1>. HIDE DEF cut, rest, put, c
<1>8. NotUnder(rest, s, n)
  <2>1. \A z \in Nodes : rest.parent[z] = cut.parent[z] \/ rest.parent[z] = NULL
    BY <1>5
  <2>. QED BY <1>7, <2>1, NotUnderKept
<1>12. IsGap(rest, s, x, y)
  BY <1>0, <1>1, <1>2, <1>4, CutGap
<1>13. rest.parent[n] = NULL /\ rest.children[n] = cut.children[n]
  <2>1. \A z \in Nodes : rest.children[z] = IF z = cut.parent[old] /\ cut.children[z] = old
                                             THEN cut.next[old] ELSE cut.children[z]
    BY <1>4 DEF IsCut
  <2>. QED BY <1>0, <1>1, <1>2, <1>5, <2>1
<1>9. CASE cut.children[s] = old /\ cut.last[s] = old
  <2>1. c = domAppendChild(rest, s, n)
    BY <1>6, <1>9
  <2>2. old \notin Held(rest, n)
    BY <1>5, NodesCounted DEF Held
  <2>. DEFINE again == domUnlinkNode(rest, n)
  <2>3. Good(c) /\ c.parent[old] = NULL /\ IsPut(again, n, s, again.last[s], NULL, c)
    BY <1>0, <1>5, <1>8, <2>1, <2>2, AppendGood
  <2>4. Good(again) /\ \A z \in Nodes : Listed(again, z) = Listed(rest, z)
    BY <1>5, <1>13, UnlinkLists
  <2>. HIDE DEF again
  <2>5. x = NULL /\ y = NULL
    BY <1>0, <1>1, <1>2, <1>9, GoodFacts DEF Shaped
  <2>6. rest.children[s] = NULL
    BY <1>12, <2>5 DEF IsGap
  <2>7. again.last[s] = NULL
    <3>1. Len(Listed(rest, s)) = 0
      BY <1>5, <2>6, EmptyListed
    <3>2. Len(Listed(again, s)) = 0
      BY <2>4, <3>1
    <3>3. IsList(again, s, Listed(again, s))
      BY <2>4, ListFacts
    <3>. QED BY <3>2, <3>3 DEF IsList
  <2>8. IsPut(rest, n, s, x, y, c)
    BY <2>3, <2>4, <2>5, <2>7, SamePut
  <2>. QED BY <2>3, <2>8 DEF c, rest, cut
<1>10. CASE ~ (cut.children[s] = old /\ cut.last[s] = old) /\ n \in Frags /\ cut.children[n] = NULL
  <2>1. c = rest
    BY <1>6, <1>10
  <2>2. IsPut(rest, n, s, x, y, rest)
    BY <1>0, <1>5, <1>10, <1>12, <1>13, NothingPut
  <2>. QED BY <1>5, <2>1, <2>2 DEF c, rest, cut
<1>11. CASE ~ (cut.children[s] = old /\ cut.last[s] = old) /\ ~ (n \in Frags /\ cut.children[n] = NULL)
  <2>. DEFINE M == Held(rest, n)
              a == Foremost(rest, n)
              b == Hindmost(rest, n)
              q == Home(n)
  <2>1. c = [put EXCEPT !.parent[old] = NULL, !.next[old] = NULL, !.prev[old] = NULL]
    BY <1>6, <1>11
  <2>2. /\ x \in Ends /\ y \in Ends
        /\ x # NULL => cut.parent[x] = s /\ cut.next[x] = old
        /\ y # NULL => cut.parent[y] = s /\ cut.prev[y] = old
    BY <1>0, <1>1, <1>2, GoodFacts DEF Shaped
  <2>3. cut.children[s] = old <=> x = NULL
    BY <1>0, <1>1, <1>2, GoodFacts DEF Shaped
  <2>4. cut.last[s] = old <=> y = NULL
    BY <1>0, <1>1, <1>2, GoodFacts DEF Shaped
  <2>5. /\ M = Held(cut, n)
        /\ n \in Frags => /\ rest.children[n] = cut.children[n]
                          /\ rest.last[n] = cut.last[n]
        /\ n \notin Frags => rest.parent[n] = NULL
    <3>1. \A z \in Nodes : rest.parent[z] = n <=> cut.parent[z] = n
      BY <1>0, <1>2, <1>5, NodesCounted
    <3>2. M = Held(cut, n)
      BY <3>1 DEF Held
    <3>3. rest.children[n] = cut.children[n] /\ rest.last[n] = cut.last[n]
      BY <1>0, <1>2, <1>4 DEF IsCut
    <3>4. rest.parent[n] = NULL
      BY <1>1, <1>5
    <3>. QED BY <3>2, <3>3, <3>4
  <2>6. a = Foremost(cut, n) /\ b = Hindmost(cut, n)
    BY <2>5 DEF Foremost, Hindmost
  <2>7. IsChain(rest, M, a, b, q)
    BY <1>5, <1>11, <2>5, HeldChain
  <2>8. s # q /\ IsOutside(rest, s, M)
    BY <1>8, NotUnderOutside
  <2>9. IsPlaced(cut, M, a, b, q, s, x, y, put)
    <3>1. x # NULL \/ y # NULL
      BY <1>11, <2>3, <2>4
    <3>2. IsPlaced(cut, Held(cut, n), Foremost(cut, n), Hindmost(cut, n), q, s, x, y, put)
      <4>. HIDE DEF q, x, y
      <4>. QED BY <1>1, <1>11, <2>2, <2>8, <3>1, AddPlaces DEF put, q
    <3>. QED BY <2>5, <2>6, <3>2
  <2>. HIDE DEF M, a, b, q
  <2>10. old \notin M /\ a # old /\ b # old
    <3>1. rest.parent[old] = NULL /\ \A m \in M : rest.parent[m] = q
      BY <1>5, <2>7 DEF IsChain
    <3>2. n \notin Frags => M = {n}
      BY DEF M, Held
    <3>3. n \in Frags => q = n
      BY DEF q, Home
    <3>4. old \notin M
      BY <3>1, <3>2, <3>3, NodesCounted
    <3>. QED BY <3>4, <2>7 DEF IsChain
  <2>11. x # old /\ y # old
    <3>1. x = old => cut.next[old] = old
      BY <2>2, <1>0, NodesCounted
    <3>2. y = old => cut.next[old] = old
      OBVIOUS
    <3>3. ASSUME cut.next[old] = old PROVE FALSE
      <4>. DEFINE S == {old}
      <4>1. S \in SUBSET Nodes /\ S # {} /\ \A z \in S : cut.next[z] \in S
        BY <1>0, <3>3
      <4>. HIDE DEF S
      <4>. QED BY <1>1, <4>1, GoodFacts DEF Grounded
    <3>. QED BY <3>1, <3>2, <3>3
  <2>. DEFINE x0 == x
              y0 == y
  <2>12. /\ \A z \in Nodes : rest.next[z] = IF z = old THEN NULL ELSE IF z = x0 THEN y0 ELSE cut.next[z]
         /\ \A z \in Nodes : rest.prev[z] = IF z = old THEN NULL ELSE IF z = y0 THEN x0 ELSE cut.prev[z]
         /\ \A z \in Nodes : rest.last[z] = IF z = s /\ cut.last[z] = old THEN x0 ELSE cut.last[z]
         /\ \A z \in Nodes : rest.children[z] = IF z = s /\ cut.children[z] = old THEN y0
                                                ELSE cut.children[z]
         /\ \A z \in Nodes : rest.parent[z] = IF z = old THEN NULL ELSE cut.parent[z]
    BY <1>2, <1>4 DEF IsCut
  <2>13. /\ put \in Links
         /\ \A z \in Nodes : put.next[z] = IF z = b THEN y0 ELSE IF z = x0 THEN a ELSE cut.next[z]
         /\ \A z \in Nodes : put.prev[z] = IF z = a THEN x0 ELSE IF z = y0 THEN b ELSE cut.prev[z]
         /\ \A z \in Nodes : put.parent[z] = IF z \in M THEN s ELSE cut.parent[z]
         /\ \A z \in Nodes : put.children[z] = IF z = s /\ x0 = NULL THEN a
                                               ELSE IF z = q THEN NULL ELSE cut.children[z]
         /\ \A z \in Nodes : put.last[z] = IF z = s /\ y0 = NULL THEN b
                                           ELSE IF z = q THEN NULL ELSE cut.last[z]
    BY <2>9 DEF IsPlaced
  <2>14. /\ x0 \in Ends /\ y0 \in Ends /\ x0 # old /\ y0 # old
         /\ x0 # NULL => cut.parent[x0] = s /\ cut.next[x0] = old
         /\ y0 # NULL => cut.parent[y0] = s /\ cut.prev[y0] = old
         /\ cut.children[s] = old <=> x0 = NULL
         /\ cut.last[s] = old <=> y0 = NULL
    BY <2>2, <2>3, <2>4, <2>11
  <2>. HIDE DEF x0, y0
  <2>15. IsGap(rest, s, x0, y0)
    BY <2>12, <2>14, NodesCounted DEF IsGap, Ends
  <2>16. /\ IsSet(c.parent, put.parent, old, NULL)
         /\ IsSet(c.next, put.next, old, NULL)
         /\ IsSet(c.prev, put.prev, old, NULL)
         /\ c.children = put.children /\ c.last = put.last
         /\ c \in Links
    <3>. DEFINE pr == [put.parent EXCEPT ![old] = NULL]
                nx == [put.next EXCEPT ![old] = NULL]
                pv == [put.prev EXCEPT ![old] = NULL]
    <3>1. /\ put.parent \in Pointers /\ put.next \in Pointers /\ put.prev \in Pointers
          /\ NULL \in Ends
      BY <2>13 DEF Links, Ends
    <3>2. /\ IsSet(pr, put.parent, old, NULL) /\ IsSet(nx, put.next, old, NULL)
          /\ IsSet(pv, put.prev, old, NULL)
      BY <1>0, <3>1, PointerSet
    <3>3. c = [put EXCEPT !.parent = pr, !.next = nx, !.prev = pv]
      BY <2>1
    <3>. HIDE DEF pr, nx, pv
    <3>4. c.parent = pr /\ c.next = nx /\ c.prev = pv /\ c.children = put.children /\ c.last = put.last
      BY <2>13, <3>3 DEF Links
    <3>5. c \in Links
      BY <2>13, <3>2, <3>3 DEF Links, IsSet
    <3>. QED BY <3>2, <3>4, <3>5
  <2>17. IsPlaced(rest, M, a, b, q, s, x0, y0, c)
    <3>1. \A z \in Nodes : c.next[z] = IF z = b THEN y0 ELSE IF z = x0 THEN a ELSE rest.next[z]
      BY <2>10, <2>12, <2>13, <2>14, <2>16 DEF IsSet
    <3>2. \A z \in Nodes : c.prev[z] = IF z = a THEN x0 ELSE IF z = y0 THEN b ELSE rest.prev[z]
      BY <2>10, <2>12, <2>13, <2>14, <2>16 DEF IsSet
    <3>3. \A z \in Nodes : c.parent[z] = IF z \in M THEN s ELSE rest.parent[z]
      BY <2>10, <2>12, <2>13, <2>16 DEF IsSet
    <3>4. \A z \in Nodes : c.children[z] = IF z = s /\ x0 = NULL THEN a
                                           ELSE IF z = q THEN NULL ELSE rest.children[z]
      BY <2>8, <2>12, <2>13, <2>14, <2>16
    <3>5. \A z \in Nodes : c.last[z] = IF z = s /\ y0 = NULL THEN b
                                       ELSE IF z = q THEN NULL ELSE rest.last[z]
      BY <2>8, <2>12, <2>13, <2>14, <2>16
    <3>. QED BY <2>16, <3>1, <3>2, <3>3, <3>4, <3>5 DEF IsPlaced
  <2>18. Good(c)
    BY <1>5, <2>7, <2>8, <2>15, <2>17, PlaceGood
  <2>19. c.parent[old] = NULL
    BY <1>0, <2>16 DEF IsSet
  <2>20. IsPut(rest, n, s, x0, y0, c)
    BY <1>5, <1>11, <1>13, <2>8, <2>15, <2>17, <2>18, PlacedPut DEF M, a, b, q
  <2>. QED BY <2>18, <2>19, <2>20 DEF c, rest, cut, x0, y0
<1>. QED BY <1>9, <1>10, <1>11

(* A node in no list is put into an empty fragment. *)
LEMMA FreshGood ==
  ASSUME NEW l, Good(l), NEW S, NEW f \in Fresh(l, S), NEW n \in Elems, l.parent[n] = NULL
  PROVE  Good(xmlAddChild(l, f, n)) /\ IsPut(l, n, f, l.last[f], NULL, xmlAddChild(l, f, n))
<1>1. f \in Nodes /\ f \in Frags /\ n \notin Frags /\ n # f
  BY KindsAssumption DEF Fresh, Nodes
<1>2. l.parent[f] = NULL
  BY <1>1, GoodFacts DEF Shaped
<1>3. NotUnder(l, f, n)
  <2>. DEFINE A == {f}
  <2>1. A \in SUBSET Nodes /\ f \in A /\ n \notin A /\ \A z \in A : l.parent[z] = NULL
    BY <1>1, <1>2
  <2>. HIDE DEF A
  <2>. QED BY <2>1 DEF NotUnder
<1>. QED BY <1>1, <1>3, AddChildGood

(* A node moves to the end of a fragment. *)
LEMMA GatheredGood ==
  ASSUME NEW l, Good(l), NEW f \in Frags, NEW n \in Elems
  PROVE  /\ Good(Gathered(l, f, n))
         /\ \A z \in Nodes : Gathered(l, f, n).parent[z] = IF z = n THEN f ELSE l.parent[z]
         /\ IsPut(domUnlinkNode(l, n), n, f, domUnlinkNode(l, n).last[f], NULL, Gathered(l, f, n))
<1>. DEFINE cut == domUnlinkNode(l, n)
            c   == Gathered(l, f, n)
            pr  == [m \in Nodes |-> IF m \in {n} THEN f ELSE cut.parent[m]]
<1>1. f \in Nodes /\ n \in Nodes /\ n \notin Frags /\ n # f
  BY KindsAssumption DEF Nodes
<1>2. Good(cut) /\ cut.parent[n] = NULL /\ \A z \in Nodes : z # n => cut.parent[z] = l.parent[z]
  BY <1>1, UnlinkGood
<1>3. c = IF cut.children[f] # NULL THEN domAddNodeToList(cut, n, cut.last[f], NULL)
          ELSE [cut EXCEPT !.children[f] = n, !.last[f] = n, !.parent[n] = f]
  BY DEF Gathered
<1>. HIDE DEF cut, c
<1>4. NotUnder(cut, f, n)
  <2>. DEFINE A == {f}
  <2>1. cut.parent[f] = NULL
    BY <1>1, <1>2, GoodFacts DEF Shaped
  <2>2. A \in SUBSET Nodes /\ f \in A /\ n \notin A /\ \A z \in A : cut.parent[z] = NULL
    BY <1>1, <2>1
  <2>. HIDE DEF A
  <2>. QED BY <2>2 DEF NotUnder
<1>5. Held(cut, n) = {n} /\ Moved(cut, n) = {n} /\ Foremost(cut, n) = n /\ Hindmost(cut, n) = n
  BY <1>1 DEF Held, Moved, Foremost, Hindmost
<1>6. CASE cut.children[f] # NULL
  <2>1. cut.last[f] # NULL /\ IsGap(cut, f, cut.last[f], NULL)
    BY <1>1, <1>2, <1>6, NoChildren, LastGap
  <2>2. c = domAddNodeToList(cut, n, cut.last[f], NULL)
    BY <1>3, <1>6
  <2>3. /\ Good(c) /\ \A z \in Nodes : c.parent[z] = IF z \in Held(cut, n) THEN f ELSE cut.parent[z]
        /\ IsPut(cut, n, f, cut.last[f], NULL, c)
    BY <1>1, <1>2, <1>4, <2>1, <2>2, AddGood
  <2>. QED BY <1>2, <1>5, <2>3 DEF c, cut
<1>7. CASE cut.children[f] = NULL
  <2>1. cut \in Links /\ cut.parent \in Pointers
    BY <1>2, GoodFacts DEF Good
  <2>2. [cut.parent EXCEPT ![n] = f] = pr
    BY <1>1, <2>1 DEF Pointers
  <2>3. c = [cut EXCEPT !.children = [cut.children EXCEPT ![f] = n],
                        !.last = [cut.last EXCEPT ![f] = n], !.parent = pr]
    BY <1>3, <1>7, <2>2
  <2>4. OnlyUnder(cut, f, n) =
          [cut EXCEPT !.parent = pr, !.children = [cut.children EXCEPT ![f] = n],
                      !.last = [cut.last EXCEPT ![f] = n]]
    BY <1>1, <1>5 DEF OnlyUnder, Emptied
  <2>. HIDE DEF pr
  <2>5. c = OnlyUnder(cut, f, n)
    BY <2>1, <2>3, <2>4 DEF Links
  <2>6. /\ Good(c) /\ \A z \in Nodes : c.parent[z] = IF z \in Held(cut, n) THEN f ELSE cut.parent[z]
        /\ IsPut(cut, n, f, NULL, NULL, c)
    BY <1>1, <1>2, <1>4, <1>7, <2>5, OnlyUnderGood
  <2>7. cut.last[f] = NULL
    BY <1>1, <1>2, <1>7, NoChildren
  <2>. QED BY <1>2, <1>5, <2>6, <2>7 DEF c, cut
<1>. QED BY <1>6, <1>7

-----------------------------------------------------------------------------
(* All children of a node move to a fragment: a fold along their list.     *)

GoodLinks == {l \in Links : Good(l)}

Gathering(f) == [a \in GoodLinks \X Elems |-> Gathered(a[1], f, a[2])]

(* Each step of the fold keeps good links. *)
LEMMA GatheringTyped ==
  ASSUME NEW f \in Frags
  PROVE  /\ Gathering(f) \in [GoodLinks \X Elems -> GoodLinks]
         /\ \A l \in GoodLinks, c \in Elems : Gathering(f)[<<l, c>>] = Gathered(l, f, c)
<1>1. ASSUME NEW l \in GoodLinks, NEW c \in Elems
      PROVE  Gathered(l, f, c) \in GoodLinks
  <2>1. Good(Gathered(l, f, c))
    BY GatheredGood DEF GoodLinks
  <2>. QED BY <2>1 DEF GoodLinks, Good
<1>. QED BY <1>1 DEF Gathering

(* AllGathered is a left fold. *)
LEMMA GatheringFolds ==
  ASSUME NEW l \in GoodLinks, NEW f \in Frags, NEW s \in Seq(Elems)
  PROVE  IsLeftFold(AllGathered(l, f, s), s, l, Gathering(f), GoodLinks)
<1>. DEFINE S == DOMAIN s
            Rec(iter) == iter = [T \in SUBSET S |->
                           IF T = {} THEN l
                           ELSE Gathered(iter[T \ {Max(T)}], f, s[Max(T)])]
            fold == CHOOSE iter : Rec(iter)
<1>1. AllGathered(l, f, s) = fold[S]
  BY DEF AllGathered, FoldLeft, MapThenFoldSet
<1>2. Gathering(f) \in [GoodLinks \X Elems -> GoodLinks]
  BY GatheringTyped
<1>3. \A v \in GoodLinks, c \in Elems : Gathering(f)[<<v, c>>] = Gathered(v, f, c)
  BY GatheringTyped
<1>4. PICK g \in [SUBSET S -> GoodLinks] : LeftFolds(g, s, l, Gathering(f))
  BY <1>2, LeftFoldExists
<1>5. \A T \in SUBSET S : T # {} => s[Max(T)] \in Elems
  <2>1. S = 1..Len(s) /\ Len(s) \in Nat /\ \A i \in S : s[i] \in Elems
    BY LenProperties, ElementOfSeq
  <2>. HIDE DEF S
  <2>. QED BY <2>1, Largest
<1>6. Rec(g)
  <2>1. ASSUME NEW T \in SUBSET S, T # {}
        PROVE  g[T] = Gathered(g[T \ {Max(T)}], f, s[Max(T)])
    <3>1. g[T] = Gathering(f)[<<g[T \ {Max(T)}], s[Max(T)]>>]
      BY <1>4, <2>1 DEF LeftFolds
    <3>2. g[T \ {Max(T)}] \in GoodLinks /\ s[Max(T)] \in Elems
      BY <1>5, <2>1
    <3>. QED BY <1>3, <3>1, <3>2
  <2>2. g[{}] = l
    BY <1>4 DEF LeftFolds
  <2>. QED BY <2>1, <2>2
<1>7. Rec(fold)
  <2>. HIDE DEF Rec
  <2>. QED BY <1>6
<1>. HIDE DEF fold
<1>8. ASSUME NEW T \in SUBSET S, T # {}, fold[T \ {Max(T)}] \in GoodLinks
      PROVE  fold[T] = Gathering(f)[<<fold[T \ {Max(T)}], s[Max(T)]>>]
  <2>1. fold[T] = Gathered(fold[T \ {Max(T)}], f, s[Max(T)])
    BY <1>7, <1>8
  <2>. QED BY <2>1, <1>3, <1>5, <1>8
<1>9. fold[{}] = l
  BY <1>7
<1>. HIDE DEF Rec
<1>10. LeftFoldsWithin(fold, s, l, Gathering(f), GoodLinks)
  BY <1>8, <1>9 DEF LeftFoldsWithin
<1>11. IsLeftFold(fold[DOMAIN s], s, l, Gathering(f), GoodLinks)
  BY <1>2, <1>10, LeftFoldIs
<1>. QED BY <1>1, <1>11

(* It leaves good links and no child of the node. *)
LEMMA AllGatheredGood ==
  ASSUME NEW l, Good(l), NEW f \in Frags, NEW p \in Nodes, p # f
  PROVE  /\ Good(AllGathered(l, f, Listed(l, p)))
         /\ \A z \in Nodes : AllGathered(l, f, Listed(l, p)).parent[z] # p
<1>. DEFINE s == Listed(l, p)
            all == AllGathered(l, f, s)
<1>1. /\ s \in Seq(Nodes)
      /\ ToSet(s) = {n \in Nodes : l.parent[n] = p}
  BY GoodLists DEF ListLinked
<1>. HIDE DEF s
<1>2. /\ DOMAIN s = 1..Len(s) /\ Len(s) \in Nat
      /\ \A i \in 1..Len(s) : s[i] \in Elems
      /\ \A z \in Nodes : l.parent[z] = p => \E i \in 1..Len(s) : z = s[i]
  <2>1. DOMAIN s = 1..Len(s) /\ Len(s) \in Nat
    BY <1>1, LenProperties
  <2>2. ToSet(s) = {s[i] : i \in 1..Len(s)}
    BY <2>1 DEF ToSet
  <2>3. \A n \in Nodes : l.parent[n] = p => n \in Elems
    BY GoodFacts, NodesCounted DEF Shaped, Nodes
  <2>. QED BY <1>1, <2>1, <2>2, <2>3
<1>3. s \in Seq(Elems)
  BY <1>1, <1>2 DEF Seq
<1>4. l \in GoodLinks
  BY DEF GoodLinks, Good
<1>5. IsLeftFold(all, s, l, Gathering(f), GoodLinks)
  BY <1>3, <1>4, GatheringFolds
<1>. HIDE DEF all
<1>6. PICK g \in [SUBSET DOMAIN s -> GoodLinks] :
        LeftFolds(g, s, l, Gathering(f)) /\ all = g[DOMAIN s]
  BY <1>5 DEF IsLeftFold
<1>7. g[1..0] = l /\ FoldsAlong(g, s, Gathering(f))
  BY <1>3, <1>6, LeftFoldAlong
<1>. DEFINE T == {k \in Nat : k <= Len(s) =>
                    \A z \in Nodes : g[1..k].parent[z] = p =>
                      \E i \in 1..Len(s) : i > k /\ z = s[i]}
<1>8. 0 \in T
  BY <1>2, <1>7
<1>9. ASSUME NEW k \in T PROVE k + 1 \in T
  <2>. SUFFICES ASSUME k + 1 <= Len(s), NEW z \in Nodes, g[1..(k + 1)].parent[z] = p
                PROVE  \E i \in 1..Len(s) : i > k + 1 /\ z = s[i]
    OBVIOUS
  <2>1. k \in Nat /\ k \in 0..(Len(s) - 1) /\ k + 1 \in 1..Len(s)
    BY <1>2
  <2>2. g[1..k] \in GoodLinks /\ s[k + 1] \in Elems
    <3>1. 1..k \in SUBSET DOMAIN s
      BY <1>2, <2>1
    <3>. QED BY <1>2, <1>6, <2>1, <3>1
  <2>3. g[1..(k + 1)] = Gathering(f)[<<g[1..k], s[k + 1]>>]
    BY <1>7, <2>1 DEF FoldsAlong
  <2>4. g[1..(k + 1)] = Gathered(g[1..k], f, s[k + 1])
    BY <2>2, <2>3, GatheringTyped
  <2>5. Good(g[1..k])
    BY <2>2 DEF GoodLinks
  <2>6. g[1..(k + 1)].parent[z] = IF z = s[k + 1] THEN f ELSE g[1..k].parent[z]
    BY <2>2, <2>4, <2>5, GatheredGood
  <2>7. z # s[k + 1] /\ g[1..k].parent[z] = p
    BY <2>6
  <2>8. \E i \in 1..Len(s) : i > k /\ z = s[i]
    BY <1>2, <2>1, <2>7
  <2>. QED BY <1>2, <2>1, <2>7, <2>8
<1>. HIDE DEF T
<1>10. T \in SUBSET Nat
  BY DEF T
<1>11. T = Nat
  BY <1>8, <1>9, <1>10, Induction
<1>12. \A z \in Nodes : all.parent[z] # p
  BY <1>2, <1>6, <1>11 DEF T
<1>13. Good(all)
  BY <1>6 DEF GoodLinks
<1>. QED BY <1>12, <1>13 DEF all, s

-----------------------------------------------------------------------------
(* The handlers.                                                           *)

(* The links are good at the start, *)
LEMMA InitGood ==
  ASSUME Init
  PROVE  Good(links)
<1>1. PICK own \in [Elems -> Frags] :
        /\ \A x, y \in Elems : own[x] = own[y] => x = y
        /\ LET none  == [n \in Nodes |-> NULL]
               child == [p \in Nodes |-> IF \E x \in Elems : own[x] = p
                                         THEN CHOOSE x \in Elems : own[x] = p ELSE NULL]
           IN  links = [parent   |-> [n \in Nodes |-> IF n \in Elems THEN own[n] ELSE NULL],
                        children |-> child, last |-> child, next |-> none, prev |-> none]
  BY DEF Init
<1>. DEFINE none  == [n \in Nodes |-> NULL]
            child == [p \in Nodes |-> IF \E x \in Elems : own[x] = p
                                      THEN CHOOSE x \in Elems : own[x] = p ELSE NULL]
            up    == [n \in Nodes |-> IF n \in Elems THEN own[n] ELSE NULL]
<1>2. \A p \in Nodes :
        /\ child[p] # NULL => child[p] \in Elems /\ own[child[p]] = p
        /\ \A x \in Elems : own[x] = p => child[p] = x
  BY <1>1, NodesCounted DEF Nodes
<1>3. \A n \in Nodes : up[n] = IF n \in Elems THEN own[n] ELSE NULL
  OBVIOUS
<1>4. \A n \in Nodes : none[n] = NULL
  OBVIOUS
<1>5. none \in Pointers /\ child \in Pointers /\ up \in Pointers
  <2>1. none \in Pointers
    BY DEF Pointers
  <2>2. up \in Pointers
    BY <1>1 DEF Pointers, Nodes
  <2>3. child \in Pointers
    <3>1. \A p \in Nodes : child[p] \in Nodes \cup {NULL}
      BY <1>2 DEF Nodes
    <3>2. DOMAIN child = Nodes
      OBVIOUS
    <3>3. child = [p \in Nodes |-> child[p]]
      OBVIOUS
    <3>. HIDE DEF child
    <3>. QED BY <3>1, <3>3 DEF Pointers
  <2>. QED BY <2>1, <2>2, <2>3
<1>6. links = [parent |-> up, children |-> child, last |-> child, next |-> none, prev |-> none]
  BY <1>1
<1>. HIDE DEF none, child, up
<1>7. links \in Links
  BY <1>5, <1>6 DEF Links
<1>8. Shaped(up, child, child, none, none)
  BY <1>1, <1>2, <1>3, <1>4, KindsAssumption, NodesCounted DEF Shaped, Nodes
<1>9. Grounded(none)
  BY <1>4, NodesCounted DEF Grounded
<1>10. Grounded(up)
  <2>. SUFFICES ASSUME NEW S \in SUBSET Nodes, S # {}, \A n \in S : up[n] \in S
                PROVE  FALSE
    BY DEF Grounded
  <2>1. \A n \in S : n \in Elems /\ own[n] \in S /\ own[n] \in Frags
    BY <1>1, <1>3, NodesCounted
  <2>. QED BY <2>1, KindsAssumption
<1>. QED BY <1>6, <1>7, <1>8, <1>9, <1>10 DEF Good

(* after replaceChild and replaceNode, *)
LEMMA ReplaceStep ==
  ASSUME Good(links), NEW s \in Nodes, NEW n \in Nodes, NEW old \in Elems,
         "StrangeChild" \notin Uses, replaceChild(s, n, old)
  PROVE  Good(links')
<1>. DEFINE put == domReplaceChild(links, s, n, old)
<1>1. /\ n # old /\ links.parent[old] = s /\ ~ domIsParent(links, s, n)
      /\ \E f \in Fresh(put, {s, n}) : links' = xmlAddChild(put, f, old)
  BY DEF replaceChild, HierarchyOK
<1>2. NotUnder(links, s, n)
  BY <1>1, HierarchyAbove
<1>3. Good(put) /\ put.parent[old] = NULL
  BY <1>1, <1>2, ReplaceGood
<1>. HIDE DEF put
<1>. QED BY <1>1, <1>3, FreshGood

(* after removeChildNodes, *)
LEMMA RemoveChildrenStep ==
  ASSUME Good(links), NEW s \in Nodes, removeChildNodes(s)
  PROVE  Good(links')
<1>1. PICK f \in Fresh(links, {s}) :
        links' = [AllGathered(links, f, Listed(links, s)) EXCEPT !.children[s] = NULL,
                                                                 !.last[s] = NULL]
  BY DEF removeChildNodes
<1>. DEFINE all == AllGathered(links, f, Listed(links, s))
<1>2. f \in Frags /\ s # f
  BY DEF Fresh
<1>3. Good(all) /\ \A z \in Nodes : all.parent[z] # s
  BY <1>2, AllGatheredGood
<1>. HIDE DEF all
<1>4. all.children[s] = NULL /\ all.last[s] = NULL
  BY <1>3, GoodFacts DEF Shaped, Ends
<1>5. /\ all \in Links /\ all.children \in Pointers /\ all.last \in Pointers
  BY <1>3, GoodFacts DEF Good
<1>. DEFINE ch == [all.children EXCEPT ![s] = NULL]
            la == [all.last EXCEPT ![s] = NULL]
<1>6. ch = all.children /\ la = all.last
  BY <1>4, <1>5 DEF Pointers
<1>7. links' = [all EXCEPT !.children = ch, !.last = la]
  BY <1>1 DEF all
<1>. HIDE DEF ch, la
<1>8. links' \in Links
  BY <1>5, <1>6, <1>7 DEF Links
<1>9. /\ links'.parent = all.parent /\ links'.next = all.next /\ links'.prev = all.prev
      /\ links'.children = all.children /\ links'.last = all.last
  BY <1>5, <1>6, <1>7 DEF Links
<1>. QED BY <1>3, <1>8, <1>9 DEF Good

(* and after any step. *)
LEMMA NextGood ==
  ASSUME Good(links), "StrangeChild" \notin Uses, [Next]_vars
  PROVE  Good(links')
<1>0. Elems \subseteq Nodes
  BY DEF Nodes
<1>1. ASSUME NEW s \in Nodes, NEW n \in Nodes, appendChild(s, n)
      PROVE  Good(links')
  <2>1. NotUnder(links, s, n)
    BY <1>1, HierarchyAbove DEF appendChild, HierarchyOK
  <2>. QED BY <1>1, <2>1, AppendGood DEF appendChild
<1>2. ASSUME NEW s \in Nodes, NEW n \in Nodes, insertLast(s, n)
      PROVE  Good(links')
  <2>1. NotUnder(links, s, n)
    BY <1>2, HierarchyAbove DEF insertLast, HierarchyOK
  <2>. QED BY <1>2, <2>1, InsertGood DEF insertLast, Ends
<1>3. ASSUME NEW s \in Nodes, NEW n \in Nodes, NEW r \in Elems, insertBefore(s, n, r)
      PROVE  Good(links')
  <2>1. NotUnder(links, s, n)
    BY <1>3, HierarchyAbove DEF insertBefore, HierarchyOK
  <2>. QED BY <1>0, <1>3, <2>1, InsertGood DEF insertBefore, Ends
<1>4. ASSUME NEW s \in Nodes, NEW n \in Nodes, NEW r \in Elems, insertAfter(s, n, r)
      PROVE  Good(links')
  <2>1. NotUnder(links, s, n)
    BY <1>4, HierarchyAbove DEF insertAfter, HierarchyOK
  <2>2. links.next[r] \in Ends
    BY <1>0, GoodFacts
  <2>. QED BY <1>4, <2>1, <2>2, InsertGood DEF insertAfter
<1>5. ASSUME NEW s \in Nodes, NEW n \in Nodes, NEW old \in Elems, replaceChild(s, n, old)
      PROVE  Good(links')
  BY <1>5, ReplaceStep
<1>6. ASSUME NEW n \in Nodes, NEW old \in Elems, replaceNode(old, n)
      PROVE  Good(links')
  <2>1. links.parent[old] \in Nodes /\ replaceChild(links.parent[old], n, old)
    BY <1>0, <1>6, GoodFacts DEF replaceNode, Ends
  <2>. QED BY <2>1, ReplaceStep
<1>7. ASSUME NEW s \in Nodes, NEW n \in Elems, removeChild(s, n)
      PROVE  Good(links')
  <2>1. PICK f \in Fresh(domRemoveChild(links, s, n), {s}) :
          links' = xmlAddChild(domRemoveChild(links, s, n), f, n)
    BY <1>7 DEF removeChild
  <2>2. domRemoveChild(links, s, n) = domUnlinkNode(links, n)
    BY <1>7 DEF removeChild, domRemoveChild
  <2>3. Good(domUnlinkNode(links, n)) /\ domUnlinkNode(links, n).parent[n] = NULL
    BY <1>0, UnlinkGood
  <2>. QED BY <2>1, <2>2, <2>3, FreshGood
<1>8. ASSUME NEW s \in Nodes, NEW n \in Elems, addChild(s, n)
      PROVE  Good(links')
  <2>. DEFINE cut == domUnlinkNode(links, n)
  <2>1. n \in Nodes /\ NotUnder(links, s, n)
    BY <1>0, <1>8, AddableAbove DEF addChild
  <2>2. /\ Good(cut) /\ cut.parent[n] = NULL
        /\ \A z \in Nodes : z # n => cut.parent[z] = links.parent[z]
    BY <2>1, UnlinkGood
  <2>3. links' = xmlAddChild(cut, s, n)
    BY <1>8 DEF addChild
  <2>. HIDE DEF cut
  <2>4. NotUnder(cut, s, n)
    <3>1. \A z \in Nodes : cut.parent[z] = links.parent[z] \/ cut.parent[z] = NULL
      BY <2>2
    <3>. QED BY <2>1, <3>1, NotUnderKept
  <2>. QED BY <2>2, <2>3, <2>4, AddChildGood
<1>9. ASSUME NEW n \in Elems, unbindNode(n)
      PROVE  Good(links')
  <2>1. PICK f \in Fresh(domUnlinkNode(links, n), {}) :
          links' = xmlAddChild(domUnlinkNode(links, n), f, n)
    BY <1>9 DEF unbindNode
  <2>2. Good(domUnlinkNode(links, n)) /\ domUnlinkNode(links, n).parent[n] = NULL
    BY <1>0, UnlinkGood
  <2>. QED BY <2>1, <2>2, FreshGood
<1>10. ASSUME NEW s \in Nodes, removeChildNodes(s)
       PROVE  Good(links')
  BY <1>10, RemoveChildrenStep
<1>11. CASE UNCHANGED vars
  BY <1>11 DEF vars
<1>. QED BY <1>1, <1>2, <1>3, <1>4, <1>5, <1>6, <1>7, <1>8, <1>9, <1>10, <1>11 DEF Next

-----------------------------------------------------------------------------
(* The operations of the DOM.                                              *)

(* The abstract lists have the same nodes. *)
LEMMA SameNodes == DOM!Nodes = Nodes
BY DEF DOM!Nodes, Nodes

(* and as many. *)
LEMMA SameCount == DOM!Cardinality(DOM!Nodes) = N
<1>1. DOM!Cardinality(Nodes) = Cardinality(Nodes)
  BY DEF DOM!Cardinality, Cardinality
<1>. QED BY <1>1, SameNodes DEF N

(* The nodes of a list *)
LEMMA ListMembers ==
  ASSUME NEW l, Good(l), NEW p \in Nodes
  PROVE  DOM!ToSet(Lists(l)[p]) = {z \in Nodes : l.parent[z] = p}
<1>. DEFINE s == Listed(l, p)
<1>1. IsList(l, p, s)
  BY ListFacts
<1>2. Lists(l)[p] = s
  BY DEF Lists
<1>. HIDE DEF s
<1>3. /\ s \in Seq(Nodes)
      /\ \A i \in 1..Len(s) : s[i] \in Nodes /\ l.parent[s[i]] = p
      /\ \A z \in Nodes : l.parent[z] = p => \E i \in 1..Len(s) : s[i] = z
  BY <1>1 DEF IsList, Nodes
<1>4. DOMAIN s = 1..Len(s)
  BY <1>3, LenProperties
<1>5. DOM!ToSet(s) = {s[i] : i \in 1..Len(s)}
  BY <1>4 DEF DOM!ToSet
<1>. QED BY <1>2, <1>3, <1>5

(* What is not above s by its pointers is not above it in the lists. *)
LEMMA AboveWithin ==
  ASSUME NEW l, Good(l), NEW s \in Nodes, NEW n, NotUnder(l, s, n)
  PROVE  n \notin DOM!Above(Lists(l), s)
<1>. DEFINE V == SUBSET Nodes
            over(S) == S \cup {p \in DOM!Nodes : DOM!ToSet(Lists(l)[p]) \cap S # {}}
            step == [a \in Nat \X V |-> over(a[2])]
            Rec(w) == w = [k \in 0..DOM!Cardinality(DOM!Nodes) |->
                             IF k = 0 THEN {s} ELSE over(w[k - 1])]
            at == CHOOSE w : Rec(w)
<1>1. DOM!Above(Lists(l), s) = at[N]
  <2>1. DOM!Above(Lists(l), s) = at[DOM!Cardinality(DOM!Nodes)]
    BY Zenon DEF DOM!Above
  <2>. HIDE DEF at
  <2>. QED BY <2>1, SameCount
<1>2. \A S \in V : over(S) \in V
  BY SameNodes
<1>3. \A S \in V : \A p \in over(S) : p \in S \/ \E z \in S : l.parent[z] = p
  <2>1. \A p \in Nodes : DOM!ToSet(Lists(l)[p]) = {z \in Nodes : l.parent[z] = p}
    BY ListMembers
  <2>. QED BY <2>1, SameNodes
<1>. HIDE DEF over
<1>4. step \in [Nat \X V -> V]
  BY <1>2
<1>5. PICK g \in [0..N -> V] : Iterates(g, N, {s}, step)
  <2>. HIDE DEF step
  <2>1. {s} \in V
    OBVIOUS
  <2>. HIDE DEF V
  <2>. QED BY <1>4, <2>1, NodesCounted, IterationExists
<1>6. Rec(g)
  <2>1. g[0] = {s}
    BY <1>5 DEF Iterates
  <2>2. ASSUME NEW k \in 1..N PROVE g[k] = over(g[k - 1])
    <3>1. k - 1 \in 0..N /\ k \in Nat
      BY NodesCounted
    <3>2. g[k] = step[<<k, g[k - 1]>>]
      BY <1>5 DEF Iterates
    <3>3. g[k - 1] \in V
      BY <3>1
    <3>. QED BY <3>1, <3>2, <3>3
  <2>. QED BY <2>1, <2>2, SameCount, NodesCounted
<1>7. Rec(at)
  <2>. HIDE DEF Rec
  <2>. QED BY <1>6
<1>. HIDE DEF at, step
<1>13. at[0] = {s} /\ \A k \in 1..N : at[k] = over(at[k - 1])
  <2>. DEFINE C == DOM!Cardinality(DOM!Nodes)
  <2>1. at = [k \in 0..C |-> IF k = 0 THEN {s} ELSE over(at[k - 1])]
    BY <1>7
  <2>2. C = N /\ N \in Nat
    BY SameCount, NodesCounted
  <2>. HIDE DEF C
  <2>3. at[0] = {s}
    BY <2>1, <2>2
  <2>4. ASSUME NEW k \in 1..N PROVE at[k] = over(at[k - 1])
    <3>1. k \in 0..C /\ k # 0
      BY <2>2
    <3>. QED BY <2>1, <3>1, Zenon
  <2>. QED BY <2>3, <2>4
<1>8. PICK A \in SUBSET Nodes :
        /\ s \in A /\ n \notin A
        /\ \A z \in A : l.parent[z] = NULL \/ l.parent[z] \in A
  BY DEF NotUnder
<1>. DEFINE T == {k \in Nat : k \in 0..N => at[k] \in SUBSET A}
<1>9. 0 \in T
  BY <1>8, <1>13
<1>10. ASSUME NEW k \in T PROVE k + 1 \in T
  <2>. SUFFICES ASSUME k + 1 \in 0..N PROVE at[k + 1] \in SUBSET A
    OBVIOUS
  <2>1. k \in 0..N /\ (k + 1) - 1 = k /\ k + 1 \in 1..N
    BY NodesCounted
  <2>2. at[k] \in SUBSET A
    BY <2>1
  <2>3. at[k + 1] = over(at[k])
    BY <1>13, <2>1
  <2>4. over(at[k]) \in V /\ at[k] \in V
    BY <1>2, <2>2
  <2>. QED BY <1>3, <1>8, <2>2, <2>3, <2>4, NodesCounted
<1>. HIDE DEF T
<1>11. T = Nat
  <2>1. T \in SUBSET Nat
    BY DEF T
  <2>. QED BY <1>9, <1>10, <2>1, Induction
<1>12. at[N] \in SUBSET A
  BY <1>11, NodesCounted DEF T
<1>. QED BY <1>1, <1>8, <1>12

(* What the DOM takes out, the pointers take out. *)
LEMMA TakenIs ==
  ASSUME NEW l, Good(l), NEW n \in Nodes
  PROVE  /\ DOM!Taken(Lists(l), n) =
              [p \in Nodes |-> IF p = Home(n) THEN <<>> ELSE Listed(domUnlinkNode(l, n), p)]
         /\ DOM!Items(Lists(l), n) = DOM!Items(Lists(domUnlinkNode(l, n)), n)
<1>. DEFINE cut == domUnlinkNode(l, n)
<1>1. /\ \A p \in Nodes : Listed(cut, p) = DOM!Without(Listed(l, p), n)
      /\ l.parent[n] = NULL => \A p \in Nodes : Listed(cut, p) = Listed(l, p)
  BY UnlinkLists
<1>. HIDE DEF cut
<1>2. \A p \in Nodes : p = Home(n) <=> p = n /\ n \in Frags
  BY NodesCounted DEF Home
<1>3. DOM!Taken(Lists(l), n) =
        [p \in Nodes |-> IF p = n /\ n \in Frags THEN <<>> ELSE DOM!Without(Lists(l)[p], n)]
  BY SameNodes DEF DOM!Taken
<1>4. \A p \in Nodes : Lists(l)[p] = Listed(l, p) /\ Lists(cut)[p] = Listed(cut, p)
  BY DEF Lists
<1>5. DOM!Items(Lists(l), n) = DOM!Items(Lists(cut), n)
  <2>1. n \in Frags => l.parent[n] = NULL
    BY GoodFacts DEF Shaped
  <2>. QED BY <1>1, <1>4, <2>1 DEF DOM!Items
<1>. QED BY <1>1, <1>2, <1>3, <1>4, <1>5 DEF cut

(* What is between two neighbours has a place. *)
LEMMA BetweenPlace ==
  ASSUME NEW s \in Seq(Nodes), Distinct(s), NEW i \in 0..Len(s), NEW x, NEW y, IsBetween(s, i, x, y)
  PROVE  DOM!Place(s, y) = i + 1
<1>1. Len(s) \in Nat /\ i \in Nat /\ i <= Len(s)
  BY LenProperties
<1>2. CASE i = Len(s)
  BY <1>1, <1>2, PlaceIs DEF IsBetween
<1>3. CASE i # Len(s)
  <2>1. i + 1 \in 1..Len(s) /\ y = s[i + 1]
    BY <1>1, <1>3 DEF IsBetween
  <2>. QED BY <2>1, PlaceIs
<1>. QED BY <1>2, <1>3

(* An insertion by pointers is the insertion of the DOM. *)
LEMMA InsertedIs ==
  ASSUME NEW l, Good(l), NEW n \in Nodes, NEW s \in Nodes, s # Home(n),
         NEW x, NEW r, NEW c, IsPut(domUnlinkNode(l, n), n, s, x, r, c)
  PROVE  Lists(c) = DOM!Inserted(Lists(l), s, n, r)
<1>. DEFINE cut   == domUnlinkNode(l, n)
            L     == Listed(cut, s)
            rest  == DOM!Taken(Lists(l), n)
            items == DOM!Items(Lists(l), n)
<1>1. /\ rest = [p \in Nodes |-> IF p = Home(n) THEN <<>> ELSE Listed(cut, p)]
      /\ items = DOM!Items(Lists(cut), n)
  BY TakenIs
<1>2. Good(cut)
  BY UnlinkLists
<1>. HIDE DEF cut
<1>3. IsList(cut, s, L)
  BY <1>2, ListFacts
<1>4. IsPut(cut, n, s, x, r, c)
  BY DEF cut
<1>5. DOM!Inserted(Lists(l), s, n, r) =
        [rest EXCEPT ![s] = DOM!Spliced(@, DOM!Place(rest[s], r) - 1, items, DOM!Place(rest[s], r))]
  BY DEF DOM!Inserted
<1>. HIDE DEF rest, items
<1>6. PICK i \in 0..Len(L) : IsBetween(L, i, x, r) /\ PutAt(cut, n, s, i, c)
  BY <1>4 DEF IsPut
<1>7. rest[s] = L
  BY <1>1
<1>8. DOM!Place(L, r) = i + 1 /\ (i + 1) - 1 = i
  <2>1. L \in Seq(Nodes) /\ Distinct(L) /\ Len(L) \in Nat
    BY <1>3 DEF IsList
  <2>. HIDE DEF L
  <2>2. i \in Nat
    BY <2>1
  <2>. QED BY <1>6, <2>1, <2>2, BetweenPlace
<1>9. \A z \in Nodes : Listed(c, z) = IF z = s THEN DOM!Spliced(L, i, items, i + 1)
                                      ELSE IF z = Home(n) THEN <<>> ELSE Listed(cut, z)
  BY <1>1, <1>6 DEF PutAt
<1>. HIDE DEF L
<1>10. DOM!Inserted(Lists(l), s, n, r) = [rest EXCEPT ![s] = DOM!Spliced(L, i, items, i + 1)]
  BY <1>5, <1>7, <1>8
<1>. QED BY <1>1, <1>9, <1>10 DEF Lists

(* An insertion that leaves the list of s as it is changes no list. *)
LEMMA PutNothing ==
  ASSUME NEW l, Good(l), NEW n \in Nodes, NEW s \in Nodes, s # n,
         NEW x, NEW y, NEW c, IsPut(domUnlinkNode(l, n), n, s, x, y, c),
         Listed(c, s) = Listed(l, s)
  PROVE  Lists(c) = Lists(l)
<1>. DEFINE cut   == domUnlinkNode(l, n)
            items == DOM!Items(Lists(cut), n)
            L     == Listed(cut, s)
            t     == Listed(c, s)
<1>1. /\ Good(cut)
      /\ \A p \in Nodes : Listed(cut, p) = DOM!Without(Listed(l, p), n)
      /\ l.parent[n] = NULL => \A p \in Nodes : Listed(cut, p) = Listed(l, p)
  BY UnlinkLists
<1>2. DOM!Items(Lists(l), n) = items
  BY TakenIs
<1>. HIDE DEF cut
<1>3. PICK i \in 0..Len(L) : PutAt(cut, n, s, i, c)
  BY DEF IsPut, cut
<1>4. IsList(cut, s, L) /\ IsList(l, s, Listed(l, s)) /\ IsList(l, n, Listed(l, n))
  BY <1>1, ListFacts
<1>5. L \in Seq(Nodes) /\ Len(L) \in Nat /\ i \in Nat /\ i <= Len(L)
  <2>1. L \in Seq(Nodes) /\ Len(L) \in Nat
    BY <1>4 DEF IsList
  <2>. QED BY <2>1
<1>6. items = IF n \in Frags THEN Listed(l, n) ELSE <<n>>
  BY <1>2 DEF DOM!Items, Lists
<1>7. items \in Seq(Nodes) /\ Len(items) \in Nat
  <2>1. n \notin Frags => items \in Seq(Nodes)
    BY <1>6
  <2>2. n \in Frags => items \in Seq(Nodes)
    BY <1>4, <1>6 DEF IsList
  <2>. QED BY <2>1, <2>2, LenProperties
<1>. HIDE DEF items, L
<1>8. ASSUME Len(items) # 0 PROVE l.parent[items[1]] = s
  <2>1. t = DOM!Spliced(L, i, items, i + 1)
    BY <1>3 DEF PutAt, L, items
  <2>2. IsSpliced(L, i, items, i + 1, t)
    <3>1. i + 1 \in (i + 1)..(Len(L) + 1)
      BY <1>5
    <3>. QED BY <1>5, <1>7, <2>1, <3>1, SplicedIs
  <2>. HIDE DEF t
  <2>3. i + 1 \in 1..Len(t) /\ t[i + 1] = items[1]
    <3>1. /\ Len(t) = i + Len(items) + (Len(L) - (i + 1) + 1)
          /\ \A k \in 1..Len(t) : t[k] = IF k <= i THEN L[k]
                                         ELSE IF k <= i + Len(items) THEN items[k - i]
                                         ELSE L[k - (i + Len(items)) + (i + 1) - 1]
      BY <2>2 DEF IsSpliced
    <3>2. i + 1 \in 1..Len(t) /\ ~ (i + 1 <= i) /\ i + 1 <= i + Len(items) /\ (i + 1) - i = 1
      BY <1>5, <1>7, <1>8, <3>1
    <3>. QED BY <3>1, <3>2
  <2>4. \A k \in 1..Len(t) : l.parent[t[k]] = s
    BY <1>4 DEF IsList, t
  <2>. QED BY <2>3, <2>4
<1>9. \A z \in Nodes : z # s => Listed(c, z) = IF z = Home(n) THEN <<>> ELSE Listed(cut, z)
  BY <1>3 DEF PutAt
<1>10. ASSUME NEW z \in Nodes, z # s PROVE Listed(c, z) = Listed(l, z)
  <2>1. CASE n \in Frags
    <3>1. \A p \in Nodes : Listed(cut, p) = Listed(l, p)
      BY <1>1, <2>1, GoodFacts DEF Shaped
    <3>2. Len(items) = 0
      <4>1. Len(items) # 0 => 1 \in 1..Len(Listed(l, n)) /\ items[1] = Listed(l, n)[1]
        BY <1>6, <1>7, <2>1
      <4>2. Len(items) # 0 => l.parent[items[1]] = n
        BY <1>4, <4>1 DEF IsList
      <4>. QED BY <1>8, <4>2
    <3>3. Listed(l, n) = <<>>
      BY <1>6, <1>7, <2>1, <3>2, EmptySeq
    <3>. QED BY <1>9, <1>10, <2>1, <3>1, <3>3 DEF Home
  <2>2. CASE n \notin Frags
    <3>1. l.parent[n] = s
      BY <1>6, <1>8, <2>2
    <3>2. IsList(l, z, Listed(l, z))
      BY ListFacts
    <3>3. \A k \in 1..Len(Listed(l, z)) : Listed(l, z)[k] # n
      BY <1>10, <3>1, <3>2 DEF IsList
    <3>4. DOM!Without(Listed(l, z), n) = Listed(l, z)
      BY <3>2, <3>3, WithoutIs DEF IsList
    <3>. QED BY <1>1, <1>9, <1>10, <2>2, <3>4, NodesCounted DEF Home
  <2>. QED BY <2>1, <2>2
<1>. QED BY <1>10 DEF Lists

(* So an insertion is an Insert of the DOM, or nothing happens. *)
LEMMA PutStep ==
  ASSUME NEW l, Good(l), NEW n \in Nodes, NEW s \in Nodes, NotUnder(l, s, n),
         NEW x, NEW r, r = NULL \/ (r \in Nodes /\ domUnlinkNode(l, n).parent[r] = s),
         NEW c, IsPut(domUnlinkNode(l, n), n, s, x, r, c)
  PROVE  Lists(c) = Lists(l) \/ DOM!Insert(Lists(l), Lists(c), s, n)
<1>1. s # n /\ s # Home(n)
  BY NotUnderOutside
<1>2. Lists(c) = DOM!Inserted(Lists(l), s, n, r)
  BY <1>1, InsertedIs
<1>3. ASSUME Lists(c)[s] = Lists(l)[s] PROVE Lists(c) = Lists(l)
  <2>1. Listed(c, s) = Listed(l, s)
    BY <1>3 DEF Lists
  <2>. QED BY <1>1, <2>1, PutNothing
<1>4. n \notin DOM!Above(Lists(l), s)
  BY AboveWithin
<1>5. r \in (DOM!ToSet(Lists(l)[s]) \ {n}) \cup {NULL}
  <2>1. DOM!ToSet(Lists(l)[s]) = {z \in Nodes : l.parent[z] = s}
    BY ListMembers
  <2>2. r \in Nodes /\ domUnlinkNode(l, n).parent[r] = s => r # n /\ l.parent[r] = s
    BY UnlinkGood, NodesCounted
  <2>. QED BY <2>1, <2>2
<1>. QED BY <1>2, <1>3, <1>4, <1>5 DEF DOM!Insert

-----------------------------------------------------------------------------
(* The simulation: what the operations and the handlers do to the lists.   *)

(* What one step of DomList is to the lists *)
DOMStep(before, after) ==
  \/ after = before
  \/ \E s, n \in Nodes : DOM!Insert(before, after, s, n) \/ DOM!Replace(before, after, s, n)
  \/ \E n \in Elems : DOM!RemoveOne(before, after, n)
  \/ \E s \in Nodes : DOM!RemoveAll(before, after, s)

(* domAppendChild, *)
LEMMA AppendStep ==
  ASSUME NEW l, Good(l), NEW s \in Nodes, NEW n \in Nodes, NotUnder(l, s, n)
  PROVE  DOMStep(Lists(l), Lists(domAppendChild(l, s, n)))
<1>. DEFINE c == domAppendChild(l, s, n)
            x == domUnlinkNode(l, n).last[s]
<1>1. IsPut(domUnlinkNode(l, n), n, s, x, NULL, c)
  BY AppendGood
<1>. HIDE DEF c, x
<1>2. Lists(c) = Lists(l) \/ DOM!Insert(Lists(l), Lists(c), s, n)
  BY <1>1, PutStep
<1>. QED BY <1>2 DEF DOMStep, c

(* A list that is empty without n had only n. *)
LEMMA OnlyMember ==
  ASSUME NEW s \in Seq(Nodes), Distinct(s), NEW n \in Nodes, Len(DOM!Without(s, n)) = 0
  PROVE  s = <<>> \/ s = <<n>>
<1>1. Len(s) \in Nat
  BY LenProperties
<1>2. CASE \A i \in 1..Len(s) : s[i] # n
  <2>1. DOM!Without(s, n) = s
    BY <1>2, WithoutIs
  <2>. QED BY <2>1, EmptySeq
<1>3. ASSUME NEW i \in 1..Len(s), s[i] = n PROVE s = <<n>>
  <2>. DEFINE t == DOM!Without(s, n)
  <2>1. Len(t) = Len(s) - 1
    BY <1>3, WithoutAt
  <2>2. Len(s) = 1
    BY <1>1, <2>1
  <2>. HIDE DEF t
  <2>4. Len(s) = 1 /\ i = 1
    BY <2>2
  <2>. DEFINE u == <<n>>
  <2>5. u \in Seq(Nodes) /\ Len(u) = 1 /\ u[1] = n
    OBVIOUS
  <2>. HIDE DEF u
  <2>6. Len(s) = Len(u) /\ \A k \in 1..Len(s) : s[k] = u[k]
    BY <1>3, <2>4, <2>5
  <2>7. s = u
    BY <2>5, <2>6, SeqEqual
  <2>. QED BY <2>7 DEF u
<1>. QED BY <1>2, <1>3

(* domInsertBefore unless it is asked to move an only child to the end, *)
LEMMA InsertStep ==
  ASSUME NEW l, Good(l), NEW s \in Nodes, NEW n \in Nodes, NotUnder(l, s, n), NEW r \in Ends,
         r = NULL => Listed(l, s) # <<n>>
  PROVE  DOMStep(Lists(l), Lists(domInsertBefore(l, s, n, r)))
<1>. DEFINE cut == domUnlinkNode(l, n)
            c   == domInsertBefore(l, s, n, r)
            x   == cut.last[s]
            v   == cut.prev[r]
<1>1. /\ Good(cut) /\ cut.parent[n] = NULL
      /\ \A z \in Nodes : z # n => cut.parent[z] = l.parent[z]
  BY UnlinkGood
<1>2. \/ c = l
      \/ c = domAppendChild(l, s, n)
      \/ r = NULL /\ l.children[s] # NULL /\ c = domAddNodeToList(cut, n, x, NULL)
      \/ r # NULL /\ r # n /\ l.parent[r] = s /\ c = domAddNodeToList(cut, n, v, r)
  BY DEF domInsertBefore
<1>3. \A p \in Nodes : Listed(cut, p) = DOM!Without(Listed(l, p), n)
  BY UnlinkLists
<1>. HIDE DEF cut, c
<1>4. NotUnder(cut, s, n)
  <2>1. \A z \in Nodes : cut.parent[z] = l.parent[z] \/ cut.parent[z] = NULL
    BY <1>1
  <2>. QED BY <2>1, NotUnderKept
<1>5. CASE c = l
  BY <1>5 DEF c, DOMStep
<1>6. CASE c = domAppendChild(l, s, n)
  BY <1>6, AppendStep DEF c
<1>7. CASE r = NULL /\ l.children[s] # NULL /\ c = domAddNodeToList(cut, n, x, NULL)
  <2>1. x # NULL
    <3>. SUFFICES ASSUME x = NULL PROVE FALSE
      OBVIOUS
    <3>1. cut.children[s] = NULL
      BY <1>1, NoChildren
    <3>2. Len(DOM!Without(Listed(l, s), n)) = 0
      BY <1>1, <1>3, <3>1, EmptyListed
    <3>3. IsList(l, s, Listed(l, s))
      BY ListFacts
    <3>4. Listed(l, s) # <<>>
      BY <1>7, <3>3, EmptySeq DEF IsList, Spells
    <3>5. Listed(l, s) \in Seq(Nodes) /\ Distinct(Listed(l, s))
      BY <3>3 DEF IsList
    <3>. QED BY <1>7, <3>2, <3>4, <3>5, OnlyMember
  <2>2. IsGap(cut, s, x, NULL)
    BY <1>1, LastGap
  <2>. HIDE DEF x
  <2>3. IsPut(cut, n, s, x, NULL, c)
    BY <1>1, <1>4, <1>7, <2>1, <2>2, AddGood
  <2>4. Lists(c) = Lists(l) \/ DOM!Insert(Lists(l), Lists(c), s, n)
    BY <2>3, PutStep DEF cut
  <2>. QED BY <2>4 DEF DOMStep, c
<1>8. CASE r # NULL /\ r # n /\ l.parent[r] = s /\ c = domAddNodeToList(cut, n, v, r)
  <2>1. r \in Nodes /\ cut.parent[r] = s
    BY <1>1, <1>8 DEF Ends
  <2>2. IsGap(cut, s, v, r)
    BY <1>1, <2>1, GapBefore
  <2>. HIDE DEF v
  <2>3. IsPut(cut, n, s, v, r, c)
    BY <1>1, <1>4, <1>8, <2>2, AddGood
  <2>4. Lists(c) = Lists(l) \/ DOM!Insert(Lists(l), Lists(c), s, n)
    BY <2>1, <2>3, PutStep DEF cut
  <2>. QED BY <2>4 DEF DOMStep, c
<1>. QED BY <1>2, <1>5, <1>6, <1>7, <1>8

(* A node in no list is put alone into an empty fragment. *)
LEMMA AloneStep ==
  ASSUME NEW l, Good(l), NEW S, NEW f \in Fresh(l, S), NEW n \in Elems, l.parent[n] = NULL
  PROVE  /\ f \in Frags \ S /\ Lists(l)[f] = <<>>
         /\ Lists(xmlAddChild(l, f, n)) = [Lists(l) EXCEPT ![f] = <<n>>]
<1>. DEFINE c == xmlAddChild(l, f, n)
            x == l.last[f]
            L == Listed(l, f)
<1>1. IsPut(l, n, f, x, NULL, c)
  BY FreshGood
<1>. HIDE DEF c, x
<1>2. f \in Nodes /\ f \in Frags \ S /\ l.children[f] = NULL /\ n \in Nodes /\ n \notin Frags
  BY KindsAssumption DEF Fresh, Nodes
<1>3. L = <<>> /\ Len(L) = 0
  BY <1>2, EmptyListed
<1>. HIDE DEF L
<1>4. PICK i \in 0..Len(L) : PutAt(l, n, f, i, c)
  BY <1>1 DEF IsPut, L
<1>5. i = 0
  BY <1>3
<1>6. DOM!Items(Lists(l), n) = <<n>> /\ Home(n) = NULL
  BY <1>2 DEF DOM!Items, Home
<1>7. DOM!Spliced(<<>>, 0, <<n>>, 1) = <<n>>
  <2>. DEFINE u == <<n>>
              e == <<>>
              t == DOM!Spliced(e, 0, u, 1)
  <2>1. u \in Seq(Nodes) /\ Len(u) = 1 /\ e \in Seq(Nodes) /\ Len(e) = 0
    BY <1>2
  <2>. HIDE DEF u, e
  <2>2. IsSpliced(e, 0, u, 1, t)
    <3>1. 0 \in 0..Len(e) /\ 1 \in (0 + 1)..(Len(e) + 1)
      BY <2>1
    <3>. QED BY <2>1, <3>1, SplicedIs
  <2>. HIDE DEF t
  <2>3. t \in Seq(Nodes) /\ Len(t) = 1 /\ \A k \in 1..Len(t) : t[k] = u[k]
    BY <2>1, <2>2 DEF IsSpliced
  <2>4. t = u
    BY <2>1, <2>3, SeqEqual
  <2>. QED BY <2>4 DEF t, u, e
<1>8. \A z \in Nodes : Listed(c, z) = IF z = f THEN <<n>> ELSE Listed(l, z)
  <2>1. \A z \in Nodes : Listed(c, z) = IF z = f THEN DOM!Spliced(L, i, <<n>>, i + 1)
                                        ELSE IF z = NULL THEN <<>> ELSE Listed(l, z)
    BY <1>4, <1>6 DEF PutAt, L
  <2>2. DOM!Spliced(L, i, <<n>>, i + 1) = <<n>>
    BY <1>3, <1>5, <1>7
  <2>. QED BY <2>1, <2>2, NodesCounted
<1>9. Lists(c) = [Lists(l) EXCEPT ![f] = <<n>>]
  BY <1>8 DEF Lists
<1>10. Lists(l)[f] = <<>>
  BY <1>2, <1>3 DEF Lists, L
<1>. QED BY <1>2, <1>9, <1>10 DEF c

(* What comes into the place of a member comes into its place in the list  *)
(* without it.                                                             *)
LEMMA SplicedWithout ==
  ASSUME NEW s \in Seq(Nodes), Distinct(s), NEW j \in 1..Len(s), NEW items \in Seq(Nodes)
  PROVE  DOM!Spliced(DOM!Without(s, s[j]), j - 1, items, j) = DOM!Spliced(s, j - 1, items, j + 1)
<1>. DEFINE t == DOM!Without(s, s[j])
            u == DOM!Spliced(t, j - 1, items, j)
            v == DOM!Spliced(s, j - 1, items, j + 1)
<1>1. /\ Len(s) \in Nat /\ Len(items) \in Nat /\ j \in Nat /\ 1 <= j /\ j <= Len(s)
      /\ s[j] \in Nodes
  BY LenProperties, ElementOfSeq
<1>3. /\ t \in Seq(Nodes) /\ Len(t) = Len(s) - 1
      /\ \A k \in 1..Len(t) : t[k] = IF k < j THEN s[k] ELSE s[k + 1]
  BY WithoutAt
<1>. HIDE DEF t
<1>4. IsSpliced(t, j - 1, items, j, u)
  <2>1. j - 1 \in 0..Len(t) /\ j \in ((j - 1) + 1)..(Len(t) + 1)
    BY <1>1, <1>3
  <2>. QED BY <1>3, <2>1, SplicedIs
<1>5. IsSpliced(s, j - 1, items, j + 1, v)
  <2>1. j - 1 \in 0..Len(s) /\ j + 1 \in ((j - 1) + 1)..(Len(s) + 1)
    BY <1>1
  <2>. QED BY <2>1, SplicedIs
<1>. HIDE DEF u, v
<1>6. /\ u \in Seq(Nodes) /\ v \in Seq(Nodes) /\ Len(u) = Len(v)
      /\ Len(u) = (j - 1) + Len(items) + (Len(s) - j)
  BY <1>1, <1>3, <1>4, <1>5 DEF IsSpliced
<1>7. ASSUME NEW k \in 1..Len(u) PROVE u[k] = v[k]
  <2>1. /\ u[k] = IF k <= j - 1 THEN t[k]
                  ELSE IF k <= (j - 1) + Len(items) THEN items[k - (j - 1)]
                  ELSE t[k - ((j - 1) + Len(items)) + j - 1]
        /\ v[k] = IF k <= j - 1 THEN s[k]
                  ELSE IF k <= (j - 1) + Len(items) THEN items[k - (j - 1)]
                  ELSE s[k - ((j - 1) + Len(items)) + (j + 1) - 1]
    BY <1>4, <1>5, <1>6 DEF IsSpliced
  <2>2. k \in Nat /\ 1 <= k /\ k <= (j - 1) + Len(items) + (Len(s) - j)
    BY <1>1, <1>6
  <2>3. CASE k <= j - 1
    <3>1. k \in 1..Len(t) /\ k < j
      BY <1>1, <1>3, <2>2, <2>3
    <3>. QED BY <1>3, <2>1, <2>3, <3>1
  <2>4. CASE j - 1 < k /\ k <= (j - 1) + Len(items)
    BY <1>1, <2>1, <2>2, <2>4
  <2>5. CASE (j - 1) + Len(items) < k
    <3>. DEFINE h == k - ((j - 1) + Len(items)) + j - 1
    <3>1. h \in 1..Len(t) /\ ~ (h < j) /\ h + 1 = k - ((j - 1) + Len(items)) + (j + 1) - 1
      BY <1>1, <1>3, <2>2, <2>5
    <3>2. u[k] = t[h]
      BY <1>1, <2>1, <2>2, <2>5
    <3>. HIDE DEF h
    <3>3. v[k] = s[h + 1]
      BY <1>1, <2>1, <2>2, <2>5, <3>1
    <3>4. t[h] = s[h + 1]
      BY <1>3, <3>1
    <3>. QED BY <3>2, <3>3, <3>4
  <2>. QED BY <1>1, <2>2, <2>3, <2>4, <2>5
<1>8. u = v
  BY <1>6, <1>7, SeqEqual
<1>. QED BY <1>8 DEF u, v, t

(* The place that a member leaves, between its neighbours *)
LEMMA LeftPlace ==
  ASSUME NEW s \in Seq(Nodes), Distinct(s), NEW j \in 1..Len(s),
         NEW i \in 0..Len(DOM!Without(s, s[j])), NEW y,
         IsBetween(DOM!Without(s, s[j]), i, IF j = 1 THEN NULL ELSE s[j - 1], y)
  PROVE  i = j - 1
<1>. DEFINE t == DOM!Without(s, s[j])
            x == IF j = 1 THEN NULL ELSE s[j - 1]
<1>1. /\ Len(s) \in Nat /\ j \in Nat /\ 1 <= j /\ j <= Len(s)
      /\ \A k \in 1..Len(s) : s[k] \in Nodes /\ s[k] # NULL
  BY LenProperties, ElementOfSeq, NodesCounted
<1>3. /\ Len(t) = Len(s) - 1
      /\ \A k \in 1..Len(t) : t[k] = IF k < j THEN s[k] ELSE s[k + 1]
  BY WithoutAt
<1>. HIDE DEF t
<1>4. x = IF i = 0 THEN NULL ELSE t[i]
  BY DEF IsBetween, t
<1>5. i \in Nat /\ i <= Len(t)
  BY <1>1, <1>3 DEF t
<1>6. CASE i = 0
  <2>1. x = NULL
    BY <1>4, <1>6
  <2>2. j - 1 \in 1..Len(s) \/ j = 1
    BY <1>1
  <2>. QED BY <1>1, <1>6, <2>1, <2>2
<1>7. CASE i # 0
  <2>1. i \in 1..Len(t) /\ x = t[i]
    BY <1>4, <1>5, <1>7
  <2>2. \E k \in 1..Len(s) : x = s[k] /\ k # j /\ (k < j => k = i)
    <3>1. CASE i < j
      <4>1. t[i] = s[i] /\ i \in 1..Len(s) /\ i # j
        BY <1>1, <1>3, <2>1, <3>1
      <4>. QED BY <2>1, <4>1
    <3>2. CASE ~ (i < j)
      <4>1. t[i] = s[i + 1] /\ i + 1 \in 1..Len(s) /\ i + 1 # j /\ ~ (i + 1 < j)
        BY <1>1, <1>3, <1>5, <2>1, <3>2
      <4>. QED BY <2>1, <4>1
    <3>. QED BY <3>1, <3>2
  <2>3. PICK k \in 1..Len(s) : x = s[k] /\ k # j /\ (k < j => k = i)
    BY <2>2
  <2>4. j # 1 /\ j - 1 \in 1..Len(s) /\ x = s[j - 1]
    BY <1>1, <2>3
  <2>5. k = j - 1
    BY <2>3, <2>4 DEF Distinct
  <2>. QED BY <1>1, <2>3, <2>5
<1>. QED BY <1>6, <1>7

(* domReplaceChild of a child is the replacement of the DOM, *)
LEMMA ReplacedIs ==
  ASSUME NEW l, Good(l), NEW s \in Nodes, NEW n \in Nodes, NotUnder(l, s, n),
         NEW old \in Elems, l.parent[old] = s, n # old
  PROVE  Lists(domReplaceChild(l, s, n, old)) = DOM!Replaced(Lists(l), s, n, old)
<1>. DEFINE cut   == domUnlinkNode(l, n)
            left  == domUnlinkNode(cut, old)
            x     == cut.prev[old]
            y     == cut.next[old]
            c     == domReplaceChild(l, s, n, old)
            rest  == DOM!Taken(Lists(l), n)
            items == DOM!Items(Lists(l), n)
            K     == Listed(cut, s)
            t     == Listed(left, s)
<1>1. old \in Nodes /\ old \notin Frags /\ s # n /\ s # Home(n)
  BY KindsAssumption, NotUnderOutside DEF Nodes
<1>2. Good(cut) /\ cut.parent[n] = NULL /\ \A z \in Nodes : z # n => cut.parent[z] = l.parent[z]
  BY UnlinkGood
<1>3. /\ rest = [p \in Nodes |-> IF p = Home(n) THEN <<>> ELSE Listed(cut, p)]
      /\ items = DOM!Items(Lists(cut), n)
  BY TakenIs
<1>4. IsPut(left, n, s, x, y, c)
  BY ReplaceGood
<1>5. DOM!Replaced(Lists(l), s, n, old) =
        [rest EXCEPT ![s] = DOM!Spliced(@, DOM!Place(rest[s], old) - 1, items,
                                        DOM!Place(rest[s], old) + 1)]
  BY DEF DOM!Replaced
<1>. HIDE DEF cut, c, rest, items
<1>6. Good(left) /\ \A p \in Nodes : Listed(left, p) = DOM!Without(Listed(cut, p), old)
  BY <1>1, <1>2, UnlinkLists
<1>. HIDE DEF left
<1>7. IsList(cut, s, K)
  BY <1>2, ListFacts
<1>8. \A z \in Nodes : z # s => Listed(left, z) = Listed(cut, z)
  <2>1. ASSUME NEW z \in Nodes, z # s PROVE Listed(left, z) = Listed(cut, z)
    <3>1. IsList(cut, z, Listed(cut, z))
      BY <1>2, ListFacts
    <3>2. \A k \in 1..Len(Listed(cut, z)) : Listed(cut, z)[k] # old
      BY <1>1, <1>2, <2>1, <3>1 DEF IsList
    <3>. QED BY <1>1, <1>6, <3>1, <3>2, WithoutIs DEF IsList
  <2>. QED BY <2>1
<1>9. DOM!Items(Lists(left), n) = items
  BY <1>1, <1>3, <1>8 DEF DOM!Items, Lists
<1>10. t = DOM!Without(K, old)
  BY <1>6
<1>. HIDE DEF K
<1>11. /\ K \in Seq(Nodes) /\ Distinct(K) /\ Len(K) \in Nat
       /\ \A z \in Nodes : cut.parent[z] = s => \E i \in 1..Len(K) : K[i] = z
       /\ \A i \in 1..Len(K) : cut.prev[K[i]] = IF i = 1 THEN NULL ELSE K[i - 1]
  BY <1>7 DEF IsList
<1>12. PICK j \in 1..Len(K) : K[j] = old
  BY <1>1, <1>2, <1>11
<1>13. x = IF j = 1 THEN NULL ELSE K[j - 1]
  BY <1>11, <1>12
<1>. HIDE DEF x, y
<1>14. PICK i \in 0..Len(t) : IsBetween(t, i, x, y) /\ PutAt(left, n, s, i, c)
  BY <1>4 DEF IsPut
<1>15. i = j - 1
  <2>1. t = DOM!Without(K, K[j])
    BY <1>10, <1>12
  <2>. HIDE DEF t
  <2>2. IsBetween(DOM!Without(K, K[j]), i, IF j = 1 THEN NULL ELSE K[j - 1], y)
    BY <1>13, <1>14, <2>1
  <2>3. i \in 0..Len(DOM!Without(K, K[j]))
    BY <2>1
  <2>. QED BY <1>11, <2>2, <2>3, LeftPlace
<1>16. \A z \in Nodes : Listed(c, z) = IF z = s THEN DOM!Spliced(t, i, items, i + 1)
                                       ELSE IF z = Home(n) THEN <<>> ELSE Listed(cut, z)
  BY <1>8, <1>9, <1>14 DEF PutAt
<1>17. items \in Seq(Nodes)
  <2>1. IsList(l, n, Listed(l, n))
    BY ListFacts
  <2>2. items = IF n \in Frags THEN Listed(l, n) ELSE <<n>>
    BY DEF items, DOM!Items, Lists
  <2>3. Listed(l, n) \in Seq(Nodes)
    BY <2>1 DEF IsList
  <2>. QED BY <2>2, <2>3
<1>18. DOM!Spliced(t, i, items, i + 1) = DOM!Spliced(K, j - 1, items, j + 1)
  <2>1. t = DOM!Without(K, K[j])
    BY <1>10, <1>12
  <2>. HIDE DEF t
  <2>2. DOM!Spliced(DOM!Without(K, K[j]), j - 1, items, j) = DOM!Spliced(K, j - 1, items, j + 1)
    BY <1>11, <1>17, SplicedWithout
  <2>3. i + 1 = j
    BY <1>11, <1>15
  <2>. QED BY <1>15, <2>1, <2>2, <2>3
<1>19. rest[s] = K /\ DOM!Place(K, old) = j
  <2>1. DOM!Place(K, old) = j
    BY <1>11, <1>12, PlaceIs
  <2>. QED BY <1>1, <1>3, <2>1 DEF K
<1>20. DOM!Replaced(Lists(l), s, n, old) = [rest EXCEPT ![s] = DOM!Spliced(K, j - 1, items, j + 1)]
  BY <1>5, <1>19
<1>. HIDE DEF t
<1>21. Lists(c) = [p \in Nodes |-> IF p = s THEN DOM!Spliced(K, j - 1, items, j + 1)
                                   ELSE IF p = Home(n) THEN <<>> ELSE Listed(cut, p)]
  BY <1>16, <1>18 DEF Lists
<1>22. Lists(c) = DOM!Replaced(Lists(l), s, n, old)
  BY <1>3, <1>20, <1>21
<1>. QED BY <1>22 DEF c

(* and the handlers replace. *)
LEMMA ReplaceDOM ==
  ASSUME Good(links), NEW s \in Nodes, NEW n \in Nodes, NEW old \in Elems,
         "StrangeChild" \notin Uses, replaceChild(s, n, old)
  PROVE  DOMStep(Lists(links), Lists(links'))
<1>. DEFINE put    == domReplaceChild(links, s, n, old)
            before == Lists(links)
            after  == Lists(links')
<1>1. /\ n # old /\ n # s /\ links.parent[old] = s /\ ~ domIsParent(links, s, n)
      /\ \E f \in Fresh(put, {s, n}) : links' = xmlAddChild(put, f, old)
  BY DEF replaceChild, HierarchyOK
<1>2. NotUnder(links, s, n)
  BY <1>1, HierarchyAbove
<1>3. Good(put) /\ put.parent[old] = NULL
  BY <1>1, <1>2, ReplaceGood
<1>4. Lists(put) = DOM!Replaced(before, s, n, old)
  BY <1>1, <1>2, ReplacedIs
<1>. HIDE DEF put
<1>5. PICK f \in Fresh(put, {s, n}) : links' = xmlAddChild(put, f, old)
  BY <1>1
<1>6. f \in Frags /\ f # s /\ Lists(put)[f] = <<>> /\ after = [Lists(put) EXCEPT ![f] = <<old>>]
  BY <1>3, <1>5, AloneStep
<1>7. DOM!Alone(Lists(put), after, old)
  BY <1>6 DEF DOM!Alone
<1>8. after[s] = Lists(put)[s]
  BY <1>6 DEF Lists
<1>9. old \notin DOM!ToSet(after[s]) /\ old \in DOM!ToSet(before[s])
  <2>1. /\ DOM!ToSet(before[s]) = {z \in Nodes : links.parent[z] = s}
        /\ DOM!ToSet(Lists(put)[s]) = {z \in Nodes : put.parent[z] = s}
    BY <1>3, ListMembers
  <2>. QED BY <1>1, <1>3, <1>8, <2>1, NodesCounted DEF Nodes
<1>10. after[s] # before[s]
  BY <1>9
<1>11. n \notin DOM!Above(before, s)
  BY <1>2, AboveWithin
<1>. HIDE DEF before, after
<1>12. old \in DOM!ToSet(before[s]) \ ({n} \cup DOM!ToSet(after[s]))
  BY <1>1, <1>9
<1>13. DOM!Replace(before, after, s, n)
  BY <1>4, <1>7, <1>10, <1>11, <1>12 DEF DOM!Replace
<1>. QED BY <1>13 DEF DOMStep, before, after

(* A node that only leaves its list is removed. *)
LEMMA RemoveDOM ==
  ASSUME Good(links), NEW n \in Elems, NEW S, NEW f \in Fresh(domUnlinkNode(links, n), S),
         links' = xmlAddChild(domUnlinkNode(links, n), f, n)
  PROVE  DOMStep(Lists(links), Lists(links'))
<1>. DEFINE cut == domUnlinkNode(links, n)
<1>1. n \in Nodes /\ n \notin Frags /\ Home(n) = NULL
  BY KindsAssumption DEF Nodes, Home
<1>2. Good(cut) /\ cut.parent[n] = NULL
  BY <1>1, UnlinkGood
<1>3. DOM!Taken(Lists(links), n) = Lists(cut)
  <2>1. DOM!Taken(Lists(links), n) =
          [p \in Nodes |-> IF p = Home(n) THEN <<>> ELSE Listed(cut, p)]
    BY <1>1, TakenIs
  <2>. HIDE DEF cut
  <2>. QED BY <1>1, <2>1, NodesCounted DEF Lists
<1>. HIDE DEF cut
<1>4. /\ f \in Frags /\ Lists(cut)[f] = <<>>
      /\ Lists(links') = [Lists(cut) EXCEPT ![f] = <<n>>]
  BY <1>2, AloneStep DEF cut
<1>5. DOM!RemoveOne(Lists(links), Lists(links'), n)
  BY <1>3, <1>4 DEF DOM!RemoveOne, DOM!Alone
<1>. QED BY <1>5 DEF DOMStep

(* addChild inserts at the end. *)
LEMMA AddChildDOM ==
  ASSUME Good(links), NEW s \in Nodes, NEW n \in Elems, addChild(s, n)
  PROVE  DOMStep(Lists(links), Lists(links'))
<1>. DEFINE cut == domUnlinkNode(links, n)
            x   == cut.last[s]
<1>1. n \in Nodes /\ NotUnder(links, s, n)
  BY AddableAbove DEF addChild, Nodes
<1>2. /\ Good(cut) /\ cut.parent[n] = NULL
      /\ \A z \in Nodes : z # n => cut.parent[z] = links.parent[z]
  BY <1>1, UnlinkGood
<1>3. links' = xmlAddChild(cut, s, n)
  BY DEF addChild
<1>. HIDE DEF cut
<1>4. NotUnder(cut, s, n)
  <2>1. \A z \in Nodes : cut.parent[z] = links.parent[z] \/ cut.parent[z] = NULL
    BY <1>2
  <2>. QED BY <1>1, <2>1, NotUnderKept
<1>5. IsPut(cut, n, s, x, NULL, links')
  BY <1>2, <1>3, <1>4, AddChildGood
<1>. HIDE DEF x
<1>6. Lists(links') = Lists(links) \/ DOM!Insert(Lists(links), Lists(links'), s, n)
  BY <1>1, <1>5, PutStep DEF cut
<1>. QED BY <1>1, <1>6 DEF DOMStep

(* The lists at the start are those of the DOM. *)
LEMMA InitDOM ==
  ASSUME Init
  PROVE  DOM!Init
<1>1. PICK own \in [Elems -> Frags] :
        /\ \A x, y \in Elems : own[x] = own[y] => x = y
        /\ LET none  == [n \in Nodes |-> NULL]
               child == [p \in Nodes |-> IF \E x \in Elems : own[x] = p
                                         THEN CHOOSE x \in Elems : own[x] = p ELSE NULL]
           IN  links = [parent   |-> [n \in Nodes |-> IF n \in Elems THEN own[n] ELSE NULL],
                        children |-> child, last |-> child, next |-> none, prev |-> none]
  BY DEF Init
<1>2. Good(links)
  BY InitGood
<1>3. /\ \A n \in Nodes : links.next[n] = NULL
      /\ \A p \in Nodes : links.children[p] = IF \E x \in Elems : own[x] = p
                                              THEN CHOOSE x \in Elems : own[x] = p ELSE NULL
  BY <1>1
<1>4. ASSUME NEW p \in Nodes
      PROVE  Listed(links, p) = IF \E x \in Elems : own[x] = p
                                THEN <<CHOOSE x \in Elems : own[x] = p>> ELSE <<>>
  <2>1. CASE \E x \in Elems : own[x] = p
    <3>. DEFINE x == CHOOSE x \in Elems : own[x] = p
                u == <<x>>
    <3>1. x \in Elems /\ x \in Nodes /\ links.children[p] = x
      BY <1>3, <2>1 DEF Nodes
    <3>. HIDE DEF x
    <3>2. u \in Seq(Nodes) /\ Len(u) = 1 /\ u[1] = x
      BY <3>1
    <3>. HIDE DEF u
    <3>3. \A i \in 1..Len(u) : u[i] = x /\ i = Len(u)
      BY <3>2
    <3>4. Spells(links, p, u)
      BY <1>3, <3>1, <3>2, <3>3 DEF Spells
    <3>5. Listed(links, p) = u
      BY <1>2, <3>4, SpelledIsList
    <3>. QED BY <2>1, <3>5 DEF u, x
  <2>2. CASE ~ \E x \in Elems : own[x] = p
    <3>1. links.children[p] = NULL
      BY <1>3, <2>2
    <3>. QED BY <1>2, <2>2, <3>1, EmptyListed
  <2>. QED BY <2>1, <2>2
<1>5. [p \in Nodes |-> Listed(links, p)] =
        [p \in Nodes |-> IF \E x \in Elems : own[x] = p
                         THEN <<CHOOSE x \in Elems : own[x] = p>> ELSE <<>>]
  BY <1>4
<1>. QED BY <1>1, <1>5, SameNodes DEF DOM!Init

(* The first child of p moves to the end of a fragment: the two lists and  *)
(* the others afterwards.                                                  *)
LEMMA GatheredLists ==
  ASSUME NEW l, Good(l), NEW f \in Frags, NEW p \in Nodes, p # f, NEW n \in Elems,
         Len(Listed(l, p)) >= 1, Listed(l, p)[1] = n
  PROVE  /\ Len(Listed(Gathered(l, f, n), f)) = Len(Listed(l, f)) + 1
         /\ \A i \in 1..(Len(Listed(l, f)) + 1) :
              Listed(Gathered(l, f, n), f)[i] = IF i <= Len(Listed(l, f)) THEN Listed(l, f)[i] ELSE n
         /\ Len(Listed(Gathered(l, f, n), p)) = Len(Listed(l, p)) - 1
         /\ \A i \in 1..(Len(Listed(l, p)) - 1) :
              Listed(Gathered(l, f, n), p)[i] = Listed(l, p)[i + 1]
         /\ \A z \in Nodes : z # f /\ z # p => Listed(Gathered(l, f, n), z) = Listed(l, z)
<1>. DEFINE cut == domUnlinkNode(l, n)
            c   == Gathered(l, f, n)
            x   == cut.last[f]
            s   == Listed(l, p)
            t   == Listed(l, f)
<1>1. /\ f \in Nodes /\ n \in Nodes /\ n \notin Frags /\ Home(n) = NULL
      /\ DOM!Items(Lists(l), n) = <<n>> /\ DOM!Items(Lists(cut), n) = <<n>>
  BY KindsAssumption DEF Nodes, Home, DOM!Items
<1>2. Good(cut) /\ \A z \in Nodes : Listed(cut, z) = DOM!Without(Listed(l, z), n)
  BY <1>1, UnlinkLists
<1>3. IsPut(cut, n, f, x, NULL, c)
  BY GatheredGood
<1>4. IsList(l, p, s) /\ IsList(l, f, t)
  BY <1>1, ListFacts
<1>5. Len(s) >= 1 /\ s[1] = n
  OBVIOUS
<1>. HIDE DEF cut, c, x, s, t
<1>6. /\ s \in Seq(Nodes) /\ Len(s) \in Nat /\ Distinct(s)
      /\ t \in Seq(Nodes) /\ Len(t) \in Nat
      /\ l.parent[n] = p
  <2>1. /\ s \in Seq(Nodes) /\ Len(s) \in Nat /\ Distinct(s)
        /\ \A i \in 1..Len(s) : l.parent[s[i]] = p
        /\ t \in Seq(Nodes) /\ Len(t) \in Nat
    BY <1>4 DEF IsList
  <2>2. 1 \in 1..Len(s)
    BY <1>5, <2>1
  <2>. QED BY <1>5, <2>1, <2>2
<1>7. \A z \in Nodes : z # p => Listed(cut, z) = Listed(l, z)
  <2>1. ASSUME NEW z \in Nodes, z # p PROVE Listed(cut, z) = Listed(l, z)
    <3>1. IsList(l, z, Listed(l, z))
      BY ListFacts
    <3>2. \A k \in 1..Len(Listed(l, z)) : Listed(l, z)[k] # n
      BY <1>6, <2>1, <3>1 DEF IsList
    <3>. QED BY <1>1, <1>2, <3>1, <3>2, WithoutIs DEF IsList
  <2>. QED BY <2>1
<1>8. Listed(cut, f) = t
  BY <1>1, <1>7 DEF t
<1>9. PICK i \in 0..Len(t) : IsBetween(t, i, x, NULL) /\ PutAt(cut, n, f, i, c)
  BY <1>3, <1>8 DEF IsPut
<1>10. i = Len(t)
  <2>1. i # Len(t) => i + 1 \in 1..Len(t) /\ t[i + 1] \in Nodes
    BY <1>6, ElementOfSeq
  <2>. QED BY <1>9, <2>1, NodesCounted DEF IsBetween
<1>. DEFINE u == <<n>>
<1>11. \A z \in Nodes : Listed(c, z) = IF z = f THEN DOM!Spliced(t, i, u, i + 1) ELSE Listed(cut, z)
  BY <1>1, <1>8, <1>9, NodesCounted DEF PutAt
<1>12. u \in Seq(Nodes) /\ Len(u) = 1 /\ u[1] = n
  BY <1>1
<1>. HIDE DEF u
<1>13. Len(Listed(c, f)) = Len(t) + 1
       /\ \A k \in 1..(Len(t) + 1) : Listed(c, f)[k] = IF k <= Len(t) THEN t[k] ELSE n
  <2>. DEFINE v == DOM!Spliced(t, i, u, i + 1)
  <2>1. i + 1 \in (i + 1)..(Len(t) + 1) /\ i \in 0..Len(t) /\ i \in Nat
    BY <1>6, <1>10
  <2>2. IsSpliced(t, i, u, i + 1, v)
    BY <1>6, <1>12, <2>1, SplicedIs
  <2>3. Listed(c, f) = v
    BY <1>1, <1>11
  <2>. HIDE DEF v
  <2>4. Len(v) = i + Len(u) + (Len(t) - (i + 1) + 1)
    BY <2>2 DEF IsSpliced
  <2>5. Len(v) = Len(t) + 1
    BY <1>6, <1>10, <1>12, <2>4
  <2>6. ASSUME NEW k \in 1..(Len(t) + 1)
        PROVE  v[k] = IF k <= Len(t) THEN t[k] ELSE n
    <3>1. v[k] = IF k <= i THEN t[k] ELSE IF k <= i + Len(u) THEN u[k - i]
                 ELSE t[k - (i + Len(u)) + (i + 1) - 1]
      BY <2>2, <2>5 DEF IsSpliced
    <3>2. k <= i + Len(u) /\ (~ k <= i => k - i = 1)
      BY <1>6, <1>10, <1>12
    <3>. QED BY <1>10, <1>12, <3>1, <3>2
  <2>. QED BY <2>3, <2>5, <2>6
<1>14. Len(Listed(c, p)) = Len(s) - 1
       /\ \A k \in 1..(Len(s) - 1) : Listed(c, p)[k] = s[k + 1]
  <2>. DEFINE v == Listed(c, p)
  <2>1. v = DOM!Without(s, s[1])
    BY <1>2, <1>5, <1>11 DEF s
  <2>2. 1 \in 1..Len(s)
    BY <1>5, <1>6
  <2>. HIDE DEF v
  <2>3. Len(v) = Len(s) - 1 /\ \A k \in 1..Len(v) : v[k] = IF k < 1 THEN s[k] ELSE s[k + 1]
    BY <1>6, <2>1, <2>2, WithoutAt
  <2>4. \A k \in 1..(Len(s) - 1) : v[k] = s[k + 1]
    BY <1>6, <2>3
  <2>. QED BY <2>3, <2>4 DEF v
<1>15. \A z \in Nodes : z # f /\ z # p => Listed(c, z) = Listed(l, z)
  BY <1>7, <1>11
<1>. QED BY <1>13, <1>14, <1>15 DEF c, s, t

(* After k moves the fragment has the first k children and p the rest. *)
SomeGathered(l, g, f, p, k) ==
  LET s == Listed(l, p)
  IN  /\ Good(g)
      /\ Len(Listed(g, f)) = k /\ \A i \in 1..k : Listed(g, f)[i] = s[i]
      /\ Len(Listed(g, p)) = Len(s) - k
      /\ \A i \in 1..(Len(s) - k) : Listed(g, p)[i] = s[k + i]
      /\ \A z \in Nodes : z # f /\ z # p => Listed(g, z) = Listed(l, z)

(* One more move *)
LEMMA GatheredNext ==
  ASSUME NEW l, Good(l), NEW f \in Frags, NEW p \in Nodes, p # f, NEW g, NEW k \in Nat,
         k + 1 <= Len(Listed(l, p)), SomeGathered(l, g, f, p, k)
  PROVE  SomeGathered(l, Gathered(g, f, Listed(l, p)[k + 1]), f, p, k + 1)
<1>. DEFINE s == Listed(l, p)
            n == s[k + 1]
            c == Gathered(g, f, n)
            t == Listed(g, p)
            u == Listed(g, f)
<1>1. Len(s) \in Nat /\ k + 1 \in 1..Len(s) /\ n \in Elems
  <2>1. IsList(l, p, s)
    BY ListFacts
  <2>. HIDE DEF s
  <2>. QED BY <2>1 DEF IsList, s
<1>2. /\ Good(g) /\ Len(u) = k /\ \A i \in 1..k : u[i] = s[i]
      /\ Len(t) = Len(s) - k /\ \A i \in 1..(Len(s) - k) : t[i] = s[k + i]
      /\ \A z \in Nodes : z # f /\ z # p => Listed(g, z) = Listed(l, z)
  BY DEF SomeGathered
<1>. HIDE DEF n
<1>3. Len(t) >= 1 /\ t[1] = n
  <2>. HIDE DEF s, t, u
  <2>1. 1 \in 1..(Len(s) - k) /\ Len(s) - k >= 1
    BY <1>1
  <2>. QED BY <1>1, <1>2, <2>1 DEF n
<1>4. /\ Len(Listed(c, f)) = Len(u) + 1
      /\ \A i \in 1..(Len(u) + 1) : Listed(c, f)[i] = IF i <= Len(u) THEN u[i] ELSE n
      /\ Len(Listed(c, p)) = Len(t) - 1
      /\ \A i \in 1..(Len(t) - 1) : Listed(c, p)[i] = t[i + 1]
      /\ \A z \in Nodes : z # f /\ z # p => Listed(c, z) = Listed(g, z)
  <2>1. Good(g) /\ n \in Elems /\ Len(Listed(g, p)) >= 1 /\ Listed(g, p)[1] = n
    BY <1>1, <1>2, <1>3
  <2>. HIDE DEF s
  <2>. QED BY <2>1, GatheredLists
<1>5. Good(c)
  BY <1>1, <1>2, GatheredGood
<1>6. n = s[k + 1]
  BY DEF n
<1>. HIDE DEF s, c, t, u
<1>7. Len(Listed(c, f)) = k + 1 /\ \A i \in 1..(k + 1) : Listed(c, f)[i] = s[i]
  <2>1. Len(Listed(c, f)) = k + 1
    BY <1>2, <1>4
  <2>2. ASSUME NEW i \in 1..(k + 1) PROVE Listed(c, f)[i] = s[i]
    <3>1. Listed(c, f)[i] = IF i <= k THEN u[i] ELSE n
      BY <1>2, <1>4
    <3>2. i \in Nat /\ (i <= k => i \in 1..k) /\ (~ i <= k => i = k + 1)
      OBVIOUS
    <3>. QED BY <1>2, <1>6, <3>1, <3>2
  <2>. QED BY <2>1, <2>2
<1>8. /\ Len(Listed(c, p)) = Len(s) - (k + 1)
      /\ \A i \in 1..(Len(s) - (k + 1)) : Listed(c, p)[i] = s[(k + 1) + i]
  <2>1. Len(Listed(c, p)) = Len(s) - (k + 1)
    BY <1>1, <1>2, <1>4
  <2>2. ASSUME NEW i \in 1..(Len(s) - (k + 1)) PROVE Listed(c, p)[i] = s[(k + 1) + i]
    <3>1. Len(t) - 1 = Len(s) - (k + 1)
      BY <1>1, <1>2
    <3>2. i \in 1..(Len(t) - 1)
      BY <3>1
    <3>3. i + 1 \in 1..(Len(s) - k) /\ k + (i + 1) = (k + 1) + i
      BY <1>1
    <3>. QED BY <1>2, <1>4, <3>2, <3>3
  <2>. QED BY <2>1, <2>2
<1>9. \A z \in Nodes : z # f /\ z # p => Listed(c, z) = Listed(l, z)
  BY <1>2, <1>4
<1>10. SomeGathered(l, c, f, p, k + 1)
  BY <1>5, <1>7, <1>8, <1>9 DEF SomeGathered, s
<1>. QED BY <1>6, <1>10 DEF c, s

(* All children of p, moved one by one, are in the list of the fragment. *)
LEMMA AllGatheredLists ==
  ASSUME NEW l, Good(l), NEW f \in Frags, NEW p \in Nodes, p # f, l.children[f] = NULL
  PROVE  SomeGathered(l, AllGathered(l, f, Listed(l, p)), f, p, Len(Listed(l, p)))
<1>. DEFINE s == Listed(l, p)
            all == AllGathered(l, f, s)
<1>0. f \in Nodes
  BY DEF Nodes
<1>1. s \in Seq(Nodes) /\ Len(s) \in Nat /\ \A i \in 1..Len(s) : s[i] \in Elems
  BY ListFacts DEF IsList
<1>2. Len(Listed(l, f)) = 0
  BY <1>0, EmptyListed
<1>3. SomeGathered(l, l, f, p, 0)
  <2>. HIDE DEF s
  <2>1. Len(s) - 0 = Len(s) /\ \A i \in 1..(Len(s) - 0) : 0 + i = i
    BY <1>1
  <2>2. \A i \in 1..(Len(s) - 0) : s[i] = s[0 + i]
    BY <2>1
  <2>. QED BY <1>2, <2>1, <2>2 DEF SomeGathered, s
<1>4. l \in GoodLinks
  BY DEF GoodLinks, Good
<1>. HIDE DEF s
<1>5. s \in Seq(Elems) /\ DOMAIN s = 1..Len(s)
  BY <1>1, LenProperties
<1>6. IsLeftFold(all, s, l, Gathering(f), GoodLinks)
  BY <1>4, <1>5, GatheringFolds
<1>. HIDE DEF all
<1>7. PICK g \in [SUBSET DOMAIN s -> GoodLinks] :
        LeftFolds(g, s, l, Gathering(f)) /\ all = g[DOMAIN s]
  BY <1>6 DEF IsLeftFold
<1>8. g[1..0] = l /\ FoldsAlong(g, s, Gathering(f))
  BY <1>5, <1>7, LeftFoldAlong
<1>. DEFINE T == {k \in Nat : k <= Len(s) => SomeGathered(l, g[1..k], f, p, k)}
<1>9. 0 \in T
  BY <1>3, <1>8
<1>10. ASSUME NEW k \in T PROVE k + 1 \in T
  <2>. SUFFICES ASSUME k + 1 <= Len(s)
                PROVE  SomeGathered(l, g[1..(k + 1)], f, p, k + 1)
    OBVIOUS
  <2>1. k \in Nat /\ k \in 0..(Len(s) - 1) /\ k + 1 \in 1..Len(s)
    BY <1>1
  <2>2. SomeGathered(l, g[1..k], f, p, k)
    BY <1>1, <2>1
  <2>3. g[1..k] \in GoodLinks /\ s[k + 1] \in Elems
    <3>1. 1..k \in SUBSET DOMAIN s
      BY <1>1, <1>5, <2>1
    <3>. QED BY <1>1, <1>7, <2>1, <3>1
  <2>4. g[1..(k + 1)] = Gathering(f)[<<g[1..k], s[k + 1]>>]
    BY <1>8, <2>1 DEF FoldsAlong
  <2>5. g[1..(k + 1)] = Gathered(g[1..k], f, s[k + 1])
    BY <2>3, <2>4, GatheringTyped
  <2>. HIDE DEF T
  <2>6. SomeGathered(l, Gathered(g[1..k], f, s[k + 1]), f, p, k + 1)
    BY <2>1, <2>2, GatheredNext DEF s
  <2>. QED BY <2>5, <2>6
<1>. HIDE DEF T
<1>11. T \in SUBSET Nat
  BY DEF T
<1>12. T = Nat
  BY <1>9, <1>10, <1>11, Induction
<1>13. SomeGathered(l, all, f, p, Len(s))
  BY <1>1, <1>5, <1>7, <1>12 DEF T
<1>. QED BY <1>13 DEF all, s

(* removeChildNodes moves the list. *)
LEMMA RemoveAllDOM ==
  ASSUME Good(links), NEW s \in Nodes, removeChildNodes(s)
  PROVE  DOMStep(Lists(links), Lists(links'))
<1>1. PICK f \in Fresh(links, {s}) :
        links' = [AllGathered(links, f, Listed(links, s)) EXCEPT !.children[s] = NULL,
                                                                 !.last[s] = NULL]
  BY DEF removeChildNodes
<1>. DEFINE all == AllGathered(links, f, Listed(links, s))
            list == Listed(links, s)
            before == Lists(links)
            after  == Lists(links')
<1>2. f \in Frags /\ s # f /\ links.children[f] = NULL /\ f \in Nodes
  BY DEF Fresh, Nodes
<1>3. Good(all) /\ \A z \in Nodes : all.parent[z] # s
  BY <1>2, AllGatheredGood
<1>4. SomeGathered(links, all, f, s, Len(list))
  BY <1>2, AllGatheredLists
<1>5. /\ Len(Listed(all, f)) = Len(list) /\ \A i \in 1..Len(list) : Listed(all, f)[i] = list[i]
      /\ Len(Listed(all, s)) = Len(list) - Len(list)
      /\ \A z \in Nodes : z # f /\ z # s => Listed(all, z) = Listed(links, z)
  BY <1>4 DEF SomeGathered
<1>. HIDE DEF all, list
<1>6. Good(links')
  BY RemoveChildrenStep
<1>7. all.children[s] = NULL
  BY <1>3, GoodFacts DEF Shaped, Ends
<1>8. all.children \in Pointers
  BY <1>3, GoodFacts DEF Good
<1>9. links'.next = all.next /\ links'.children = [all.children EXCEPT ![s] = NULL]
  BY <1>1, <1>3 DEF Good, Links, all
<1>10. links'.children = all.children
  BY <1>7, <1>8, <1>9 DEF Pointers
<1>11. \A z \in Nodes : Listed(links', z) = Listed(all, z)
  BY <1>3, <1>6, <1>9, <1>10, ListKept
<1>12. /\ list \in Seq(Nodes) /\ Len(list) \in Nat
       /\ Listed(all, f) \in Seq(Nodes) /\ Listed(all, s) \in Seq(Nodes)
  BY <1>2, <1>3, ListFacts DEF IsList, list
<1>13. Listed(all, f) = list
  <2>1. \A i \in 1..Len(Listed(all, f)) : Listed(all, f)[i] = list[i]
    BY <1>5
  <2>. QED BY <1>5, <1>12, <2>1, SeqEqual
<1>14. Listed(all, s) = <<>>
  BY <1>5, <1>12, EmptySeq
<1>15. before[f] = <<>> /\ before[s] = list
  BY <1>2, EmptyListed DEF Lists, list
<1>16. after = [before EXCEPT ![f] = before[s], ![s] = <<>>]
  <2>1. \A z \in Nodes : after[z] = IF z = f THEN list ELSE IF z = s THEN <<>> ELSE before[z]
    BY <1>2, <1>5, <1>11, <1>13, <1>14 DEF Lists
  <2>2. after = [z \in Nodes |-> after[z]] /\ before = [z \in Nodes |-> before[z]]
    BY DEF Lists
  <2>. HIDE DEF before, after
  <2>. QED BY <1>2, <1>15, <2>1, <2>2
<1>. HIDE DEF before, after
<1>17. DOM!RemoveAll(before, after, s)
  BY <1>2, <1>15, <1>16 DEF DOM!RemoveAll
<1>. QED BY <1>17 DEF DOMStep, before, after

(* Every step of the handlers is a step of the DOM or leaves the lists. *)
LEMMA NextDOM ==
  ASSUME Good(links), Uses = {}, [Next]_vars
  PROVE  DOMStep(Lists(links), Lists(links'))
<1>0. Elems \subseteq Nodes
  BY DEF Nodes
<1>1. ASSUME NEW s \in Nodes, NEW n \in Nodes, appendChild(s, n)
      PROVE  DOMStep(Lists(links), Lists(links'))
  <2>1. NotUnder(links, s, n)
    BY <1>1, HierarchyAbove DEF appendChild, HierarchyOK
  <2>2. links' = domAppendChild(links, s, n)
    BY <1>1 DEF appendChild
  <2>. QED BY <2>1, <2>2, AppendStep
<1>2. ASSUME NEW s \in Nodes, NEW n \in Nodes, insertLast(s, n)
      PROVE  DOMStep(Lists(links), Lists(links'))
  <2>1. NotUnder(links, s, n)
    BY <1>2, HierarchyAbove DEF insertLast, HierarchyOK
  <2>2. Listed(links, s) # <<n>> /\ links' = domInsertBefore(links, s, n, NULL)
    BY <1>2 DEF insertLast
  <2>3. NULL \in Ends
    BY DEF Ends
  <2>. QED BY <2>1, <2>2, <2>3, InsertStep
<1>3. ASSUME NEW s \in Nodes, NEW n \in Nodes, NEW r \in Elems, insertBefore(s, n, r)
      PROVE  DOMStep(Lists(links), Lists(links'))
  <2>1. NotUnder(links, s, n)
    BY <1>3, HierarchyAbove DEF insertBefore, HierarchyOK
  <2>2. links' = domInsertBefore(links, s, n, r)
    BY <1>3 DEF insertBefore
  <2>3. r \in Ends /\ r # NULL
    BY <1>0, NodesCounted DEF Ends
  <2>. QED BY <2>1, <2>2, <2>3, InsertStep
<1>4. ASSUME NEW s \in Nodes, NEW n \in Nodes, NEW r \in Elems, insertAfter(s, n, r)
      PROVE  DOMStep(Lists(links), Lists(links'))
  <2>1. NotUnder(links, s, n)
    BY <1>4, HierarchyAbove DEF insertAfter, HierarchyOK
  <2>2. /\ links.next[r] = NULL => Listed(links, s) # <<n>>
        /\ links' = domInsertBefore(links, s, n, links.next[r])
    BY <1>4 DEF insertAfter
  <2>3. links.next[r] \in Ends
    BY <1>0, GoodFacts
  <2>. QED BY <2>1, <2>2, <2>3, InsertStep
<1>5. ASSUME NEW s \in Nodes, NEW n \in Nodes, NEW old \in Elems, replaceChild(s, n, old)
      PROVE  DOMStep(Lists(links), Lists(links'))
  BY <1>5, ReplaceDOM
<1>6. ASSUME NEW n \in Nodes, NEW old \in Elems, replaceNode(old, n)
      PROVE  DOMStep(Lists(links), Lists(links'))
  <2>1. links.parent[old] \in Nodes /\ replaceChild(links.parent[old], n, old)
    BY <1>0, <1>6, GoodFacts DEF replaceNode, Ends
  <2>. QED BY <2>1, <1>5
<1>7. ASSUME NEW s \in Nodes, NEW n \in Elems, removeChild(s, n)
      PROVE  DOMStep(Lists(links), Lists(links'))
  <2>1. PICK f \in Fresh(domRemoveChild(links, s, n), {s}) :
          links' = xmlAddChild(domRemoveChild(links, s, n), f, n)
    BY <1>7 DEF removeChild
  <2>2. domRemoveChild(links, s, n) = domUnlinkNode(links, n)
    BY <1>7 DEF removeChild, domRemoveChild
  <2>. QED BY <2>1, <2>2, RemoveDOM
<1>8. ASSUME NEW s \in Nodes, NEW n \in Elems, addChild(s, n)
      PROVE  DOMStep(Lists(links), Lists(links'))
  BY <1>8, AddChildDOM
<1>9. ASSUME NEW n \in Elems, unbindNode(n)
      PROVE  DOMStep(Lists(links), Lists(links'))
  <2>1. PICK f \in Fresh(domUnlinkNode(links, n), {}) :
          links' = xmlAddChild(domUnlinkNode(links, n), f, n)
    BY <1>9 DEF unbindNode
  <2>. QED BY <2>1, RemoveDOM
<1>10. ASSUME NEW s \in Nodes, removeChildNodes(s)
       PROVE  DOMStep(Lists(links), Lists(links'))
  BY <1>10, RemoveAllDOM
<1>11. CASE UNCHANGED vars
  <2>1. links' = links
    BY <1>11 DEF vars
  <2>. QED BY <2>1 DEF DOMStep
<1>. QED BY <1>1, <1>2, <1>3, <1>4, <1>5, <1>6, <1>7, <1>8, <1>9, <1>10, <1>11 DEF Next

(* Without a reference node the new node becomes the last child. *)
LEMMA InsertedAtEnd ==
  ASSUME NEW l, Good(l), NEW s \in Nodes, NEW n \in Elems, NotUnder(l, s, n),
         Listed(l, s) # <<n>>
  PROVE  domInsertBefore(l, s, n, NULL).last[s] = n
<1>. DEFINE cut == domUnlinkNode(l, n)
            c   == domInsertBefore(l, s, n, NULL)
            x   == cut.last[s]
            L   == Listed(cut, s)
            u   == <<n>>
            v   == Listed(c, s)
<1>1. /\ n \in Nodes /\ n \notin Frags /\ n # NULL /\ NULL \in Ends
      /\ DOM!Items(Lists(cut), n) = u
  BY KindsAssumption DEF Nodes, Ends, DOM!Items
<1>2. /\ Good(cut) /\ cut.parent[n] = NULL
      /\ \A z \in Nodes : z # n => cut.parent[z] = l.parent[z]
  BY <1>1, UnlinkGood
<1>3. Good(c)
  BY <1>1, InsertGood
<1>4. IsPut(cut, n, s, x, NULL, c)
  <2>1. CASE l.children[s] = NULL
    <3>1. c = domAppendChild(l, s, n)
      BY <1>1, <2>1 DEF domInsertBefore
    <3>2. IsPut(cut, n, s, x, NULL, domAppendChild(l, s, n))
      BY <1>1, AppendGood
    <3>. QED BY <3>1, <3>2
  <2>2. CASE l.children[s] # NULL
    <3>1. c = domAddNodeToList(cut, n, x, NULL)
      BY <1>1, <2>2 DEF domInsertBefore
    <3>. HIDE DEF cut, c
    <3>2. cut.children[s] # NULL
      <4>. SUFFICES ASSUME cut.children[s] = NULL PROVE FALSE
        OBVIOUS
      <4>1. IsList(l, s, Listed(l, s))
        BY ListFacts
      <4>2. Listed(cut, s) = DOM!Without(Listed(l, s), n)
        BY <1>1, UnlinkLists DEF cut
      <4>3. Len(DOM!Without(Listed(l, s), n)) = 0
        BY <1>2, <4>2, EmptyListed
      <4>4. Listed(l, s) # <<>>
        BY <2>2, <4>1, EmptySeq DEF IsList, Spells
      <4>5. Listed(l, s) \in Seq(Nodes) /\ Distinct(Listed(l, s))
        BY <4>1 DEF IsList
      <4>. QED BY <1>1, <4>3, <4>4, <4>5, OnlyMember
    <3>3. x # NULL /\ IsGap(cut, s, x, NULL)
      BY <1>2, <3>2, NoChildren, LastGap
    <3>4. NotUnder(cut, s, n)
      <4>1. \A z \in Nodes : cut.parent[z] = l.parent[z] \/ cut.parent[z] = NULL
        BY <1>2
      <4>. QED BY <4>1, NotUnderKept
    <3>. HIDE DEF x
    <3>. QED BY <1>1, <1>2, <3>1, <3>3, <3>4, AddGood
  <2>. QED BY <2>1, <2>2
<1>. HIDE DEF cut, c, x
<1>5. IsList(cut, s, L) /\ IsList(c, s, v)
  BY <1>2, <1>3, ListFacts
<1>6. PICK i \in 0..Len(L) : IsBetween(L, i, x, NULL) /\ PutAt(cut, n, s, i, c)
  BY <1>4 DEF IsPut
<1>7. v = DOM!Spliced(L, i, u, i + 1)
  BY <1>1, <1>6 DEF PutAt
<1>8. u \in Seq(Nodes) /\ Len(u) = 1 /\ u[1] = n
  BY <1>1
<1>. HIDE DEF L, u, v
<1>9. L \in Seq(Nodes) /\ Len(L) \in Nat
  BY <1>5 DEF IsList
<1>10. i = Len(L)
  <2>1. i # Len(L) => i + 1 \in 1..Len(L) /\ L[i + 1] \in Nodes
    BY <1>9, ElementOfSeq
  <2>. QED BY <1>6, <2>1, NodesCounted DEF IsBetween
<1>11. IsSpliced(L, i, u, i + 1, v)
  <2>1. i + 1 \in (i + 1)..(Len(L) + 1)
    BY <1>9, <1>10
  <2>. QED BY <1>7, <1>8, <1>9, <2>1, SplicedIs
<1>12. Len(v) = Len(L) + 1
  <2>1. Len(v) = i + Len(u) + (Len(L) - (i + 1) + 1)
    BY <1>11 DEF IsSpliced
  <2>. QED BY <1>8, <1>9, <1>10, <2>1
<1>13. v[Len(L) + 1] = n
  <2>1. v[Len(L) + 1] = IF Len(L) + 1 <= i THEN L[Len(L) + 1]
                        ELSE IF Len(L) + 1 <= i + Len(u) THEN u[(Len(L) + 1) - i]
                        ELSE L[(Len(L) + 1) - (i + Len(u)) + (i + 1) - 1]
    <3>1. Len(L) + 1 \in 1..Len(v)
      BY <1>9, <1>12
    <3>. QED BY <1>11, <3>1 DEF IsSpliced
  <2>2. ~ Len(L) + 1 <= i /\ Len(L) + 1 <= i + Len(u) /\ (Len(L) + 1) - i = 1
    BY <1>8, <1>9, <1>10
  <2>. QED BY <1>8, <2>1, <2>2
<1>14. c.last[s] = IF Len(v) = 0 THEN NULL ELSE v[Len(v)]
  BY <1>5 DEF IsList
<1>. QED BY <1>9, <1>12, <1>13, <1>14 DEF c

-----------------------------------------------------------------------------
(* The theorems.  A replaceChild of a node that is no child of the target  *)
(* is left out: the code does not keep the lists then.  Where a theorem    *)
(* says what the lists are it also leaves out the insertion of an only     *)
(* child before no node, for which the code does not do what the DOM says. *)

(* The links are good in every state: no operation of dom.c, and no        *)
(* sequence of them, leaves pointers that disagree or walks without an end. *)
THEOREM AlwaysGood ==
  ASSUME "StrangeChild" \notin Uses
  PROVE  Spec => []Good(links)
<1>1. Init => Good(links)
  BY InitGood
<1>2. Good(links) /\ [Next]_vars => Good(links)'
  BY NextGood
<1>. QED BY <1>1, <1>2, PTL DEF Spec

(* The pointers keep the types of the C structure and a fragment is in no  *)
(* list.                                                                   *)
THEOREM PointersTyped ==
  ASSUME "StrangeChild" \notin Uses
  PROVE  Spec => []TypeOK
<1>1. Good(links) => TypeOK
  <2>1. ASSUME Good(links) PROVE TypeOK
    <3>1. links \in Links
      BY <2>1 DEF Good
    <3>2. ASSUME NEW f \in Frags
          PROVE  links.parent[f] = NULL /\ links.next[f] = NULL /\ links.prev[f] = NULL
      BY <2>1, GoodFacts DEF Shaped, Nodes
    <3>. QED BY <3>1, <3>2 DEF TypeOK
  <2>. QED BY <2>1
<1>. QED BY <1>1, AlwaysGood, PTL

(* The five pointers agree: the list of a node's children, walked forward  *)
(* or backward, has exactly the nodes that call it their parent, once each. *)
THEOREM AlwaysWellLinked ==
  ASSUME "StrangeChild" \notin Uses
  PROVE  Spec => []WellLinked
<1>1. ASSUME Good(links) PROVE WellLinked
  <2>1. ASSUME NEW p \in Nodes PROVE ListLinked(links, p, Listed(links, p))
    BY <1>1, GoodLists
  <2>2. WellLinked <=> \A p \in Nodes : ListLinked(links, p, Listed(links, p))
    BY Zenon DEF WellLinked, ListLinked
  <2>. QED BY <2>1, <2>2
<1>. QED BY <1>1, AlwaysGood, PTL

(* No sequence of calls puts a node above itself: the test of the hierarchy *)
(* in dom.c is enough.                                                     *)
THEOREM NeverCyclic ==
  ASSUME "StrangeChild" \notin Uses
  PROVE  Spec => []NoCycles
<1>1. Good(links) => NoCycles
  BY GoodAncestors DEF NoCycles
<1>. QED BY <1>1, AlwaysGood, PTL

(* The pointers implement the lists of the DOM: every operation of dom.c   *)
(* and every handler moves the nodes it names to one place and changes no  *)
(* other list, on any number of nodes.  The two calls that DomList lists   *)
(* as risky are left out.                                                  *)
THEOREM ListsImplemented ==
  ASSUME Uses = {}
  PROVE  Spec => ImplementsDOM
<1>0. "StrangeChild" \notin Uses
  OBVIOUS
<1>1. Init => DOM!Init
  BY InitDOM
<1>2. ASSUME Good(links), [Next]_vars
      PROVE  [DOM!Next]_([p \in Nodes |-> Listed(links, p)])
  <2>1. DOMStep(Lists(links), Lists(links'))
    BY <1>2, NextDOM
  <2>2. /\ Lists(links) = [p \in Nodes |-> Listed(links, p)]
        /\ Lists(links') = [p \in Nodes |-> Listed(links, p)]'
    BY DEF Lists
  <2>3. CASE Lists(links') = Lists(links)
    BY <2>2, <2>3
  <2>4. CASE ~ Lists(links') = Lists(links)
    <3>1. \/ \E s, n \in Nodes : \/ DOM!Insert(Lists(links), Lists(links'), s, n)
                                 \/ DOM!Replace(Lists(links), Lists(links'), s, n)
          \/ \E n \in Elems : DOM!RemoveOne(Lists(links), Lists(links'), n)
          \/ \E s \in Nodes : DOM!RemoveAll(Lists(links), Lists(links'), s)
      BY <2>1, <2>4 DEF DOMStep
    <3>2. DOM!Next
      BY <2>2, <3>1, SameNodes DEF DOM!Next
    <3>. QED BY <3>2
  <2>. QED BY <2>3, <2>4
<1>3. Spec => []Good(links)
  BY <1>0, AlwaysGood
<1>. QED BY <1>1, <1>2, <1>3, PTL DEF Spec, ImplementsDOM, DOM!Spec

(* Node.pod on insertBefore without a reference node: the new node is the  *)
(* last child afterwards, for any nodes, unless it was the only child.     *)
THEOREM AlwaysInsertedLast ==
  ASSUME "OnlyChild" \notin Uses, "StrangeChild" \notin Uses
  PROVE  Spec => InsertedLast
<1>1. ASSUME Good(links), NEW s \in Nodes, NEW n \in Elems, insertLast(s, n)
      PROVE  links'.last[s] = n
  <2>1. n \in Nodes
    BY DEF Nodes
  <2>2. NotUnder(links, s, n)
    BY <1>1, <2>1, HierarchyAbove DEF insertLast, HierarchyOK
  <2>3. Listed(links, s) # <<n>> /\ links' = domInsertBefore(links, s, n, NULL)
    BY <1>1 DEF insertLast
  <2>. QED BY <1>1, <2>2, <2>3, InsertedAtEnd
<1>2. Good(links) /\ [Next]_vars
        => [\A s \in Nodes, n \in Elems : insertLast(s, n) => links'.last[s] = n]_vars
  BY <1>1
<1>. QED BY <1>2, AlwaysGood, PTL DEF Spec, InsertedLast

(* Node.pod on replaceChild: the node that was replaced is unbound, and in *)
(* no list but the one it is the only child of, as long as what is to be   *)
(* replaced is a child of the target.                                      *)
THEOREM AlwaysReplacedUnbound ==
  ASSUME "StrangeChild" \notin Uses
  PROVE  Spec => ReplacedUnbound
<1>1. ASSUME Good(links), NEW s \in Nodes, NEW n \in Nodes, NEW old \in Elems,
             replaceChild(s, n, old), NEW p \in Nodes, links'.children[p] = old
      PROVE  links'.parent[old] = p
  <2>1. Good(links')
    BY <1>1, ReplaceStep
  <2>2. old \in Nodes /\ old # NULL
    BY NodesCounted DEF Nodes
  <2>. QED BY <1>1, <2>1, <2>2, GoodFacts DEF Shaped
<1>2. Good(links) /\ [Next]_vars
        => [\A s, n \in Nodes, old \in Elems :
              replaceChild(s, n, old) =>
                \A p \in Nodes : links'.children[p] = old => links'.parent[old] = p]_vars
  BY <1>1
<1>. QED BY <1>2, AlwaysGood, PTL DEF Spec, ReplacedUnbound
=============================================================================
