-------------------------- MODULE NamespacesProofs --------------------------
(***************************************************************************)
(* Proofs about Namespaces: as long as no node is unbound that uses a      *)
(* declaration from above, every name points to a declaration of its       *)
(* element or of one above it, every declaration is in one list, and a     *)
(* move changes no name, neither for the pointers nor for who reads the    *)
(* declarations.                                                           *)
(***************************************************************************)
EXTENDS Namespaces, InductionLemmas

-----------------------------------------------------------------------------
(* Trees.                                                                  *)

Ends == Nodes \cup {NULL}

Tree(up) == up \in [Nodes -> Ends] /\ Rooted(Nodes, up)

(* The recursion in Above defines a chain. *)
LEMMA AboveIsChain ==
  ASSUME NEW up, Tree(up), NEW n \in Ends
  PROVE  Above(up, n) = Chain(Nodes, NULL, up, n)
<1>. DEFINE Rec(w) == w = [m \in Ends |-> IF m = NULL THEN {} ELSE {m} \cup w[up[m]]]
            f == CHOOSE w : Rec(w)
            g == [m \in Ends |-> Chain(Nodes, NULL, up, m)]
<1>1. Above(up, n) = f[n]
  BY Zenon DEF Above, Ends
<1>2. /\ IsFiniteSet(Nodes) /\ NULL \notin Nodes /\ Rooted(Nodes, up)
      /\ up \in [Nodes -> Nodes \cup {NULL}]
  BY NamesAssumption DEF Tree, Ends
<1>3. /\ Chain(Nodes, NULL, up, NULL) = {}
      /\ \A m \in Nodes : Chain(Nodes, NULL, up, m) = {m} \cup Chain(Nodes, NULL, up, up[m])
  BY <1>2, ChainUnfolds
<1>4. Rec(g)
  BY <1>2, <1>3 DEF Ends
<1>5. Rec(f)
  <2>. HIDE DEF Rec
  <2>. QED BY <1>4
<1>. HIDE DEF f
<1>6. f[NULL] = {} /\ \A m \in Nodes : f[m] = {m} \cup f[up[m]]
  BY <1>2, <1>5 DEF Ends
<1>. DEFINE Bad == {m \in Nodes : f[m] # Chain(Nodes, NULL, up, m)}
<1>7. \A m \in Bad : up[m] \in Bad
  BY <1>2, <1>3, <1>6
<1>8. Bad = {}
  BY <1>2, <1>7 DEF Rooted
<1>. QED BY <1>1, <1>2, <1>3, <1>6, <1>8 DEF Ends

(* What is above a node. *)
LEMMA AboveFacts ==
  ASSUME NEW up, Tree(up)
  PROVE  /\ Above(up, NULL) = {}
         /\ \A n \in Ends : Above(up, n) \in SUBSET Nodes
         /\ \A n \in Nodes : Above(up, n) = {n} \cup Above(up, up[n]) /\ up[n] \in Ends
         /\ \A n \in Nodes : n \notin Above(up, up[n]) /\ n \in Above(up, n)
<1>1. /\ IsFiniteSet(Nodes) /\ NULL \notin Nodes /\ Rooted(Nodes, up)
      /\ up \in [Nodes -> Nodes \cup {NULL}]
  BY NamesAssumption DEF Tree, Ends
<1>2. \A n \in Ends : Above(up, n) = Chain(Nodes, NULL, up, n)
  BY AboveIsChain
<1>3. \A n \in Nodes : n \in Ends /\ up[n] \in Ends
  BY <1>1 DEF Ends
<1>4. NULL \in Ends
  BY DEF Ends
<1>5. /\ Chain(Nodes, NULL, up, NULL) = {}
      /\ \A n \in Nodes \cup {NULL} : Chain(Nodes, NULL, up, n) \in SUBSET Nodes
      /\ \A n \in Nodes : Chain(Nodes, NULL, up, n) = {n} \cup Chain(Nodes, NULL, up, up[n])
      /\ \A n \in Nodes : n \notin Chain(Nodes, NULL, up, up[n])
  BY <1>1, ChainUnfolds
<1>. QED BY <1>2, <1>3, <1>4, <1>5 DEF Ends

LEMMA AbovePath ==
  ASSUME NEW up, Tree(up), NEW n \in Ends, NEW a \in Above(up, n)
  PROVE  /\ a \in Nodes /\ Above(up, a) \subseteq Above(up, n)
         /\ \A b \in Above(up, a) : a \in Above(up, b) => b = a
         /\ \A b \in Above(up, n) : a \in Above(up, b) \/ b \in Above(up, a)
<1>1. /\ IsFiniteSet(Nodes) /\ NULL \notin Nodes /\ Rooted(Nodes, up)
      /\ up \in [Nodes -> Nodes \cup {NULL}]
  BY NamesAssumption DEF Tree, Ends
<1>2. \A m \in Ends : Above(up, m) = Chain(Nodes, NULL, up, m)
  BY AboveIsChain
<1>3. n \in Nodes /\ a \in Nodes /\ \A b \in Above(up, n) : b \in Nodes
  BY AboveFacts DEF Ends
<1>4. \A m \in Nodes : m \in Ends
  BY DEF Ends
<1>5. Chain(Nodes, NULL, up, a) \subseteq Chain(Nodes, NULL, up, n)
  BY <1>1, <1>2, <1>3, ChainFacts
<1>6. \A b \in Above(up, a) : a \in Above(up, b) => b = a
  BY <1>1, <1>2, <1>3, <1>4, <1>5, ChainOneWay
<1>7. \A b \in Above(up, n) : a \in Above(up, b) \/ b \in Above(up, a)
  BY <1>1, <1>2, <1>3, <1>4, ChainOrdered
<1>. QED BY <1>2, <1>3, <1>4, <1>5, <1>6, <1>7

(* A node comes under another one, or loses its parent. *)
Hanging(up, n, q, v) ==
  /\ Tree(up)
  /\ n \in Nodes /\ q \in Ends /\ n \notin Above(up, q)
  /\ v = [up EXCEPT ![n] = q]

(* What is below n keeps the nodes up to n above it, and all else stays. *)
Rehung(up, n, v) ==
  /\ \A m \in Ends : n \notin Above(up, m) => Above(v, m) = Above(up, m)
  /\ \A m \in Ends : n \in Above(up, m) =>
       /\ n \in Above(v, m)
       /\ \A a \in Above(up, m) : n \in Above(up, a) => a \in Above(v, m)

LEMMA Repointed ==
  ASSUME NEW up, NEW n, NEW q, NEW v, Hanging(up, n, q, v)
  PROVE  Tree(v) /\ Rehung(up, n, v)
<1>. n \in Nodes /\ q \in Ends /\ Tree(up) /\ n \notin Above(up, q)
  BY DEF Hanging
<1>0. v = [up EXCEPT ![n] = q]
  BY DEF Hanging
<1>1. /\ IsFiniteSet(Nodes) /\ NULL \notin Nodes /\ Rooted(Nodes, up)
      /\ up \in [Nodes -> Nodes \cup {NULL}] /\ v \in [Nodes -> Nodes \cup {NULL}]
      /\ \A m \in Nodes : v[m] = IF m = n THEN q ELSE up[m]
  BY <1>0, NamesAssumption DEF Tree, Ends
<1>2. Rooted(Nodes, v)
  <2>. SUFFICES ASSUME NEW X \in SUBSET Nodes, X # {}, \A m \in X : v[m] \in X
                PROVE  FALSE
    BY DEF Rooted
  <2>1. n \in X
    BY <1>1 DEF Rooted
  <2>2. q \in X /\ q \in Nodes
    BY <2>1, <1>1
  <2>. DEFINE Y == X \cap Above(up, q)
  <2>3. q \in Y
    BY <2>2, AboveFacts
  <2>4. ASSUME NEW m \in Y PROVE up[m] \in Y
    <3>1. m # n /\ m \in X /\ m \in Nodes
      OBVIOUS
    <3>2. up[m] \in X /\ up[m] \in Nodes
      BY <3>1, <1>1
    <3>3. up[m] \in Above(up, up[m]) /\ Above(up, m) = {m} \cup Above(up, up[m])
      BY <3>1, <3>2, AboveFacts
    <3>4. Above(up, m) \subseteq Above(up, q)
      BY AbovePath
    <3>. QED BY <3>2, <3>3, <3>4
  <2>. HIDE DEF Y
  <2>5. Y \in SUBSET Nodes
    BY DEF Y
  <2>. QED BY <1>1, <2>3, <2>4, <2>5 DEF Rooted
<1>3. Tree(v)
  BY <1>1, <1>2 DEF Tree, Ends
<1>4. ASSUME NEW m \in Ends, n \notin Above(up, m) PROVE Above(v, m) = Above(up, m)
  <2>1. CASE m \in Nodes
    <3>1. Above(up, m) = Chain(Nodes, NULL, up, m) /\ Above(v, m) = Chain(Nodes, NULL, v, m)
      BY <1>3, AboveIsChain
    <3>2. \A x \in Chain(Nodes, NULL, up, m) : v[x] = up[x]
      <4>1. \A x \in Above(up, m) : x \in Nodes /\ x # n
        BY <1>4, AboveFacts
      <4>. QED BY <4>1, <3>1, <1>1
    <3>3. Chain(Nodes, NULL, v, m) = Chain(Nodes, NULL, up, m)
      <4>. DEFINE N == Nodes
      <4>1. /\ IsFiniteSet(N) /\ NULL \notin N /\ up \in [N -> N \cup {NULL}] /\ Rooted(N, up)
            /\ v \in [N -> N \cup {NULL}] /\ Rooted(N, v) /\ m \in N
            /\ \A x \in Chain(N, NULL, up, m) : v[x] = up[x]
        BY <1>1, <1>2, <2>1, <3>2
      <4>. HIDE DEF N
      <4>2. Chain(N, NULL, v, m) = Chain(N, NULL, up, m)
        BY ONLY <4>1, ChainAgrees
      <4>. QED BY <4>2 DEF N
    <3>. QED BY <3>1, <3>3
  <2>2. CASE m = NULL
    BY <2>2, <1>3, AboveFacts
  <2>. QED BY <2>1, <2>2 DEF Ends
<1>. DEFINE Ok(m) == n \in Above(up, m) =>
                       /\ n \in Above(v, m)
                       /\ \A a \in Above(up, m) : n \in Above(up, a) => a \in Above(v, m)
            Bad == {m \in Nodes : ~ Ok(m)}
<1>5. ASSUME NEW m \in Bad PROVE up[m] \in Bad
  <2>1. m \in Nodes /\ n \in Above(up, m)
    OBVIOUS
  <2>2. /\ Above(up, m) = {m} \cup Above(up, up[m]) /\ up[m] \in Ends
        /\ Above(v, m) = {m} \cup Above(v, v[m])
    BY <1>3, <2>1, AboveFacts
  <2>3. m # n
    <3>1. SUFFICES ASSUME m = n PROVE FALSE
      OBVIOUS
    <3>2. n \in Above(v, n)
      BY <1>3, AboveFacts
    <3>3. \A a \in Above(up, n) : n \in Above(up, a) => a = n
      BY AbovePath DEF Ends
    <3>. QED BY <3>1, <3>2, <3>3
  <2>4. v[m] = up[m] /\ n \in Above(up, up[m])
    BY <1>1, <2>1, <2>2, <2>3
  <2>5. up[m] \in Nodes
    BY <2>2, <2>4, AboveFacts DEF Ends
  <2>6. ~ Ok(up[m])
    BY <2>1, <2>2, <2>4
  <2>. QED BY <2>5, <2>6
<1>6. Bad = {}
  <2>. HIDE DEF Bad
  <2>1. Bad \in SUBSET Nodes
    BY DEF Bad
  <2>. QED BY <1>1, <1>5, <2>1 DEF Rooted
<1>7. \A m \in Ends : Ok(m)
  <2>1. Ok(NULL)
    BY AboveFacts
  <2>. QED BY <1>6, <2>1 DEF Ends
<1>. QED BY <1>3, <1>4, <1>7 DEF Rehung

(* Of the nodes of a set, one is above no other. *)
LEMMA LowestExists ==
  ASSUME NEW up, Tree(up), NEW S \in SUBSET Nodes, S # {}
  PROVE  /\ Lowest(up, S) \in S
         /\ \A k \in S : Lowest(up, S) \in Above(up, k) => k = Lowest(up, S)
<1>. DEFINE G == {Nodes \ Above(up, x) : x \in S}
<1>1. G \in SUBSET SUBSET Nodes /\ G # {}
  OBVIOUS
<1>2. IsFiniteSet(Nodes)
  BY NamesAssumption
<1>3. PICK y \in G : \A z \in G : z \subseteq y => z = y
  <2>. HIDE DEF G
  <2>. QED BY <1>1, <1>2, Minimal
<1>4. PICK x \in S : y = Nodes \ Above(up, x)
  BY <1>3
<1>5. ASSUME NEW k \in S, x \in Above(up, k) PROVE k = x
  <2>1. k \in Ends /\ x \in Ends /\ k \in Above(up, k)
    BY AboveFacts DEF Ends
  <2>2. Above(up, x) \subseteq Above(up, k)
    BY <1>5, <2>1, AbovePath
  <2>3. Nodes \ Above(up, k) = Nodes \ Above(up, x)
    <3>1. Nodes \ Above(up, k) \in G
      OBVIOUS
    <3>2. Nodes \ Above(up, k) \subseteq y
      BY <1>4, <2>2
    <3>. HIDE DEF G
    <3>. QED BY <1>3, <1>4, <3>1, <3>2
  <2>4. k \in Above(up, x)
    BY <2>1, <2>3
  <2>. QED BY <1>5, <2>1, <2>4, AbovePath
<1>. QED BY <1>5 DEF Lowest

(* A set of nodes on a path has a first one. *)
LEMMA FirstExists ==
  ASSUME NEW up, Tree(up), NEW n \in Ends, NEW S \in SUBSET Above(up, n), S # {}
  PROVE  \E x \in S : S \subseteq Above(up, x)
<1>1. S \in SUBSET Nodes
  BY AboveFacts
<1>2. PICK x \in S : \A k \in S : x \in Above(up, k) => k = x
  BY <1>1, LowestExists
<1>3. ASSUME NEW k \in S PROVE k \in Above(up, x)
  <2>1. x \in Above(up, k) \/ k \in Above(up, x)
    BY AbovePath
  <2>2. x \in Above(up, x)
    BY <1>1, AboveFacts
  <2>. QED BY <1>2, <2>1, <2>2
<1>. QED BY <1>3

-----------------------------------------------------------------------------
(* Lists of declarations.                                                  *)

Unrepeated(s) == \A i, j \in DOMAIN s : s[i] = s[j] => i = j

(* A set of indexes has a least one. *)
LEMMA LeastIndex ==
  ASSUME NEW n \in Nat, NEW T \in SUBSET (1..n), T # {}
  PROVE  Min(T) \in T
<1>1. \E x \in T : \A y \in T : x <= y
  BY Smallest
<1>. QED BY <1>1 DEF Min

(* A list without one of its members *)
LEMMA RemovedFromList ==
  ASSUME NEW s \in Seq(Decls), Unrepeated(s), NEW d
  PROVE  /\ RemoveFirst(s, d) \in Seq(Decls) /\ Unrepeated(RemoveFirst(s, d))
         /\ ToSet(RemoveFirst(s, d)) = ToSet(s) \ {d}
<1>1. Len(s) \in Nat /\ DOMAIN s = 1..Len(s) /\ \A i \in 1..Len(s) : s[i] \in Decls
  BY LenProperties, ElementOfSeq
<1>2. CASE \A i \in 1..Len(s) : s[i] # d
  BY <1>1, <1>2 DEF RemoveFirst, ToSet
<1>3. CASE \E i \in 1..Len(s) : s[i] = d
  <2>. DEFINE I == {i \in 1..Len(s) : s[i] = d}
              k == Min(I)
              r == RemoveFirst(s, d)
              a == SubSeq(s, 1, k - 1)
              b == SubSeq(s, k + 1, Len(s))
  <2>1. I \in SUBSET (1..Len(s)) /\ I # {}
    BY <1>3
  <2>2. k \in I
    <3>. HIDE DEF I
    <3>. QED BY <1>1, <2>1, LeastIndex
  <2>3. r = a \o b
    BY <1>3, <2>1 DEF RemoveFirst, RemoveAt, SelectInSeq
  <2>4. k \in 1..Len(s) /\ s[k] = d
    BY <2>2
  <2>. HIDE DEF k, I
  <2>5. /\ a \in Seq(Decls) /\ Len(a) = k - 1 /\ \A i \in 1..(k - 1) : a[i] = s[i]
    <3>1. 1 \in Int /\ k - 1 \in Int /\ \A i \in 1..(k - 1) : i \in 1..Len(s)
      BY <1>1, <2>4
    <3>. QED BY <1>1, <2>4, <3>1, SubSeqProperties
  <2>6. /\ b \in Seq(Decls) /\ Len(b) = Len(s) - k
        /\ \A i \in 1..(Len(s) - k) : b[i] = s[i + k]
    <3>1. k + 1 \in Int /\ Len(s) \in Int /\ \A i \in (k + 1)..Len(s) : i \in 1..Len(s)
      BY <1>1, <2>4
    <3>2. /\ b \in Seq(Decls) /\ Len(b) = IF k + 1 <= Len(s) THEN Len(s) - (k + 1) + 1 ELSE 0
          /\ \A i \in 1..(Len(s) - (k + 1) + 1) : b[i] = s[k + 1 + i - 1]
      BY <1>1, <2>4, <3>1, SubSeqProperties
    <3>3. /\ Len(s) - (k + 1) + 1 = Len(s) - k
          /\ \A i \in 1..(Len(s) - k) : k + 1 + i - 1 = i + k
      BY <1>1, <2>4
    <3>4. Len(b) = Len(s) - k
      <4>1. k \in Int /\ Len(s) \in Int /\ k <= Len(s)
        BY <1>1, <2>4
      <4>2. CASE k + 1 <= Len(s)
        BY <3>2, <3>3, <4>2
      <4>3. CASE ~ (k + 1 <= Len(s))
        <5>1. Len(s) - k = 0
          BY <4>1, <4>3
        <5>. QED BY <3>2, <4>3, <5>1
      <4>. QED BY <4>2, <4>3
    <3>. QED BY <3>2, <3>3, <3>4
  <2>. HIDE DEF a, b, r
  <2>7. /\ r \in Seq(Decls) /\ Len(r) = Len(s) - 1
        /\ \A i \in 1..(Len(s) - 1) : r[i] = IF i < k THEN s[i] ELSE s[i + 1]
    <3>1. /\ r \in Seq(Decls) /\ Len(r) = Len(a) + Len(b)
          /\ \A i \in 1..(Len(a) + Len(b)) : r[i] = IF i <= Len(a) THEN a[i] ELSE b[i - Len(a)]
      BY <2>3, <2>5, <2>6, ConcatProperties
    <3>2. Len(a) + Len(b) = Len(s) - 1
      BY <1>1, <2>4, <2>5, <2>6
    <3>3. ASSUME NEW i \in 1..(Len(s) - 1) PROVE r[i] = IF i < k THEN s[i] ELSE s[i + 1]
      <4>1. CASE i < k
        BY <1>1, <2>4, <2>5, <3>1, <3>2, <4>1
      <4>2. CASE ~ (i < k)
        <5>1. i - (k - 1) \in 1..(Len(s) - k) /\ (i - (k - 1)) + k = i + 1
          BY <1>1, <2>4, <4>2
        <5>2. r[i] = b[i - (k - 1)]
          BY <1>1, <2>4, <2>5, <3>1, <3>2, <4>2
        <5>. QED BY <2>6, <4>2, <5>1, <5>2
      <4>. QED BY <4>1, <4>2
    <3>. QED BY <3>1, <3>2, <3>3
  <2>8. DOMAIN r = 1..(Len(s) - 1)
    BY <2>7, LenProperties
  <2>9. Unrepeated(r)
    <3>. SUFFICES ASSUME NEW i \in 1..(Len(s) - 1), NEW j \in 1..(Len(s) - 1), r[i] = r[j]
                  PROVE  i = j
      BY <2>8 DEF Unrepeated
    <3>1. \A x, y \in 1..Len(s) : s[x] = s[y] => x = y
      BY <1>1 DEF Unrepeated
    <3>2. \A x \in 1..(Len(s) - 1) : x \in 1..Len(s) /\ x + 1 \in 1..Len(s)
      BY <1>1
    <3>3. CASE i < k /\ j < k
      BY <2>7, <3>1, <3>2, <3>3
    <3>4. CASE ~ (i < k) /\ ~ (j < k)
      <4>1. i + 1 = j + 1
        BY <2>7, <3>1, <3>2, <3>4
      <4>. QED BY <4>1
    <3>5. CASE i < k /\ ~ (j < k)
      <4>1. i = j + 1
        BY <2>7, <3>1, <3>2, <3>5
      <4>. QED BY <1>1, <2>4, <3>5, <4>1
    <3>6. CASE ~ (i < k) /\ j < k
      <4>1. i + 1 = j
        BY <2>7, <3>1, <3>2, <3>6
      <4>. QED BY <1>1, <2>4, <3>6, <4>1
    <3>. QED BY <3>3, <3>4, <3>5, <3>6
  <2>10. ToSet(r) = ToSet(s) \ {d}
    <3>1. \A x, y \in 1..Len(s) : s[x] = s[y] => x = y
      BY <1>1 DEF Unrepeated
    <3>2. ASSUME NEW i \in 1..(Len(s) - 1) PROVE r[i] \in ToSet(s) \ {d}
      <4>1. i \in 1..Len(s) /\ i + 1 \in 1..Len(s)
        BY <1>1
      <4>2. CASE i < k
        <5>1. r[i] = s[i] /\ i # k
          BY <2>4, <2>7, <4>2
        <5>. QED BY <1>1, <2>4, <3>1, <4>1, <5>1 DEF ToSet
      <4>3. CASE ~ (i < k)
        <5>1. r[i] = s[i + 1] /\ i + 1 # k
          BY <1>1, <2>4, <2>7, <4>3
        <5>. QED BY <1>1, <2>4, <3>1, <4>1, <5>1 DEF ToSet
      <4>. QED BY <4>2, <4>3
    <3>3. ASSUME NEW x \in ToSet(s) \ {d} PROVE x \in ToSet(r)
      <4>1. PICK i \in 1..Len(s) : x = s[i]
        BY <1>1 DEF ToSet
      <4>2. i # k
        BY <2>4, <4>1
      <4>3. CASE i < k
        <5>1. i \in 1..(Len(s) - 1) /\ r[i] = s[i]
          BY <1>1, <2>4, <2>7, <4>3
        <5>. QED BY <2>8, <4>1, <5>1 DEF ToSet
      <4>4. CASE i > k
        <5>1. i - 1 \in 1..(Len(s) - 1) /\ r[i - 1] = s[(i - 1) + 1] /\ (i - 1) + 1 = i
          BY <1>1, <2>4, <2>7, <4>4
        <5>. QED BY <2>8, <4>1, <5>1 DEF ToSet
      <4>. QED BY <1>1, <2>4, <4>2, <4>3, <4>4
    <3>. QED BY <2>8, <3>2, <3>3 DEF ToSet
  <2>. QED BY <2>7, <2>9, <2>10 DEF r
<1>. QED BY <1>2, <1>3

(* A list with one more member, at its front *)
LEMMA PutInFront ==
  ASSUME NEW s \in Seq(Decls), Unrepeated(s), NEW d \in Decls, d \notin ToSet(s)
  PROVE  /\ <<d>> \o s \in Seq(Decls) /\ Unrepeated(<<d>> \o s)
         /\ ToSet(<<d>> \o s) = ToSet(s) \cup {d}
<1>. DEFINE r == <<d>> \o s
<1>1. Len(s) \in Nat /\ DOMAIN s = 1..Len(s)
  BY LenProperties
<1>2. <<d>> \in Seq(Decls) /\ Len(<<d>>) = 1 /\ <<d>>[1] = d
  OBVIOUS
<1>3. /\ r \in Seq(Decls) /\ Len(r) = 1 + Len(s)
      /\ \A i \in 1..(1 + Len(s)) : r[i] = IF i <= 1 THEN <<d>>[i] ELSE s[i - 1]
  BY <1>2, ConcatProperties
<1>4. DOMAIN r = 1..(1 + Len(s))
  BY <1>3, LenProperties
<1>5. r[1] = d /\ \A i \in 1..Len(s) : r[i + 1] = s[i]
  BY <1>1, <1>2, <1>3
<1>. HIDE DEF r
<1>6. \A x, y \in 1..Len(s) : s[x] = s[y] => x = y
  BY <1>1 DEF Unrepeated
<1>7. \A i \in 1..Len(s) : s[i] # d
  BY <1>1 DEF ToSet
<1>8. \A i \in 2..(1 + Len(s)) : i - 1 \in 1..Len(s) /\ r[i] = s[i - 1]
  BY <1>1, <1>3
<1>9. Unrepeated(r)
  <2>. SUFFICES ASSUME NEW i \in 1..(1 + Len(s)), NEW j \in 1..(1 + Len(s)), r[i] = r[j]
                PROVE  i = j
    BY <1>4 DEF Unrepeated
  <2>1. CASE i = 1 \/ j = 1
    BY <1>1, <1>5, <1>7, <1>8, <2>1
  <2>2. CASE i # 1 /\ j # 1
    <3>1. i \in 2..(1 + Len(s)) /\ j \in 2..(1 + Len(s))
      BY <1>1, <2>2
    <3>. QED BY <1>6, <1>8, <3>1
  <2>. QED BY <2>1, <2>2
<1>10. ToSet(r) = ToSet(s) \cup {d}
  <2>1. ASSUME NEW i \in 1..(1 + Len(s)) PROVE r[i] \in ToSet(s) \cup {d}
    <3>1. i = 1 \/ i \in 2..(1 + Len(s))
      BY <1>1
    <3>. QED BY <1>1, <1>5, <1>8, <3>1 DEF ToSet
  <2>2. d \in ToSet(r)
    BY <1>1, <1>4, <1>5 DEF ToSet
  <2>3. ASSUME NEW i \in 1..Len(s) PROVE s[i] \in ToSet(r)
    <3>1. i + 1 \in 1..(1 + Len(s))
      BY <1>1
    <3>. QED BY <1>4, <1>5, <3>1 DEF ToSet
  <2>. QED BY <1>1, <1>4, <2>1, <2>2, <2>3 DEF ToSet
<1>. QED BY <1>3, <1>9, <1>10 DEF r

(* A list with one more member, at its end *)
LEMMA PutAtEnd ==
  ASSUME NEW s \in Seq(Decls), Unrepeated(s), NEW d \in Decls, d \notin ToSet(s)
  PROVE  /\ Append(s, d) \in Seq(Decls) /\ Unrepeated(Append(s, d))
         /\ ToSet(Append(s, d)) = ToSet(s) \cup {d}
<1>. DEFINE r == Append(s, d)
<1>1. Len(s) \in Nat /\ DOMAIN s = 1..Len(s)
  BY LenProperties
<1>2. /\ r \in Seq(Decls) /\ Len(r) = Len(s) + 1
      /\ \A i \in 1..Len(s) : r[i] = s[i]
      /\ r[Len(s) + 1] = d
  BY AppendProperties
<1>3. DOMAIN r = 1..(Len(s) + 1)
  BY <1>2, LenProperties
<1>. HIDE DEF r
<1>4. \A x, y \in 1..Len(s) : s[x] = s[y] => x = y
  BY <1>1 DEF Unrepeated
<1>5. \A i \in 1..Len(s) : s[i] # d
  BY <1>1 DEF ToSet
<1>6. \A i \in 1..(Len(s) + 1) : i \in 1..Len(s) \/ i = Len(s) + 1
  BY <1>1
<1>7. Unrepeated(r)
  BY <1>2, <1>3, <1>4, <1>5, <1>6 DEF Unrepeated
<1>8. ToSet(r) = ToSet(s) \cup {d}
  <2>1. ASSUME NEW i \in 1..(Len(s) + 1) PROVE r[i] \in ToSet(s) \cup {d}
    BY <1>1, <1>2, <1>6 DEF ToSet
  <2>2. d \in ToSet(r)
    <3>1. Len(s) + 1 \in 1..(Len(s) + 1)
      BY <1>1
    <3>. QED BY <1>2, <1>3, <3>1 DEF ToSet
  <2>3. ASSUME NEW i \in 1..Len(s) PROVE s[i] \in ToSet(r)
    <3>1. i \in 1..(Len(s) + 1)
      BY <1>1
    <3>. QED BY <1>2, <1>3, <3>1 DEF ToSet
  <2>. QED BY <1>1, <1>3, <2>1, <2>2, <2>3 DEF ToSet
<1>. QED BY <1>2, <1>7, <1>8 DEF r

-----------------------------------------------------------------------------
(* The search for a prefix.                                                *)

(* The declarations that a search from n meets at a, and the place of the  *)
(* first of them that binds prefix *)
Met(st, n, a) == st.def[a] \o IF a = n \/ st.ns[a] = NULL THEN <<>> ELSE <<st.ns[a]>>

Binding(st, n, a, prefix) == {i \in 1..Len(Met(st, n, a)) : Matches(st, Met(st, n, a)[i], prefix)}

Hit(st, n, a, prefix) ==
  IF Binding(st, n, a, prefix) # {} THEN Min(Binding(st, n, a, prefix)) ELSE 0

Hits(st, up, n, m, prefix) == {a \in Above(up, m) : Hit(st, n, a, prefix) # 0}

(* The first of them upwards from m *)
FirstHit(st, up, n, m, prefix) ==
  CHOOSE a \in Hits(st, up, n, m, prefix) : Hits(st, up, n, m, prefix) \subseteq Above(up, a)

Answer(st, up, n, m, prefix) ==
  IF Hits(st, up, n, m, prefix) = {} THEN NULL
  ELSE Met(st, n, FirstHit(st, up, n, m, prefix))
         [Hit(st, n, FirstHit(st, up, n, m, prefix), prefix)]

(* The recursion in SearchNs finds the first hit. *)
LEMMA SearchFinds ==
  ASSUME NEW up, Tree(up), NEW n \in Ends, NEW st, NEW prefix
  PROVE  SearchNs(st, up, n, prefix) = Answer(st, up, n, n, prefix)
<1>. DEFINE Rec(w) == w = [a \in Ends |->
                             IF a = NULL THEN NULL
                             ELSE IF Hit(st, n, a, prefix) # 0
                                  THEN Met(st, n, a)[Hit(st, n, a, prefix)] ELSE w[up[a]]]
            f == CHOOSE w : Rec(w)
            g == [a \in Ends |-> Answer(st, up, n, a, prefix)]
            H(m) == Hits(st, up, n, m, prefix)
<1>1. SearchNs(st, up, n, prefix) = f[n]
  BY Zenon DEF SearchNs, Ends, Hit, Binding, Met, SelectInSeq
<1>2. NULL \notin Nodes /\ IsFiniteSet(Nodes) /\ Rooted(Nodes, up)
  BY NamesAssumption DEF Tree
<1>3. Answer(st, up, n, NULL, prefix) = NULL
  BY AboveFacts DEF Answer, Hits
<1>4. ASSUME NEW m \in Nodes, Hit(st, n, m, prefix) # 0
      PROVE  Answer(st, up, n, m, prefix) = Met(st, n, m)[Hit(st, n, m, prefix)]
  <2>1. m \in H(m) /\ H(m) \subseteq Above(up, m) /\ m \in Ends
    BY <1>4, AboveFacts DEF Hits, Ends
  <2>2. ASSUME NEW a \in H(m), H(m) \subseteq Above(up, a) PROVE a = m
    <3>1. a \in Above(up, m) /\ m \in Above(up, a) /\ m \in Above(up, m)
      BY <2>1, <2>2
    <3>. QED BY <2>1, <3>1, AbovePath
  <2>3. FirstHit(st, up, n, m, prefix) = m
    BY <2>1, <2>2 DEF FirstHit
  <2>. QED BY <2>1, <2>3 DEF Answer
<1>5. ASSUME NEW m \in Nodes, Hit(st, n, m, prefix) = 0
      PROVE  Answer(st, up, n, m, prefix) = Answer(st, up, n, up[m], prefix)
  <2>1. H(m) = H(up[m])
    BY <1>5, AboveFacts DEF Hits
  <2>. QED BY <2>1 DEF Answer, FirstHit
<1>6. Rec(g)
  <2>1. ASSUME NEW a \in Ends
        PROVE  Answer(st, up, n, a, prefix) =
                 IF a = NULL THEN NULL
                 ELSE IF Hit(st, n, a, prefix) # 0
                      THEN Met(st, n, a)[Hit(st, n, a, prefix)] ELSE g[up[a]]
    <3>1. CASE a = NULL
      BY <1>3, <3>1
    <3>2. CASE a # NULL
      <4>1. a \in Nodes /\ up[a] \in Ends
        BY <3>2, AboveFacts DEF Ends
      <4>. QED BY <1>4, <1>5, <3>2, <4>1
    <3>. QED BY <3>1, <3>2
  <2>. QED BY <2>1
<1>7. Rec(f)
  <2>. HIDE DEF Rec
  <2>. QED BY <1>6
<1>. HIDE DEF f
<1>8. \A a \in Ends : f[a] = IF a = NULL THEN NULL
                             ELSE IF Hit(st, n, a, prefix) # 0
                                  THEN Met(st, n, a)[Hit(st, n, a, prefix)] ELSE f[up[a]]
  BY <1>7
<1>. HIDE DEF Rec
<1>. DEFINE Bad == {m \in Nodes : f[m] # Answer(st, up, n, m, prefix)}
<1>9. ASSUME NEW m \in Bad PROVE up[m] \in Bad
  <2>1. m \in Nodes /\ m \in Ends /\ m # NULL /\ up[m] \in Ends
    BY <1>2, AboveFacts DEF Ends
  <2>2. Hit(st, n, m, prefix) = 0
    BY <1>4, <1>8, <2>1
  <2>3. f[up[m]] # Answer(st, up, n, up[m], prefix)
    BY <1>5, <1>8, <2>1, <2>2
  <2>4. up[m] # NULL
    BY <1>3, <1>8, <2>1, <2>3
  <2>. QED BY <2>1, <2>3, <2>4 DEF Ends
<1>10. Bad = {}
  <2>. HIDE DEF Bad
  <2>1. Bad \in SUBSET Nodes
    BY DEF Bad
  <2>. QED BY <1>2, <1>9, <2>1 DEF Rooted
<1>11. f[NULL] = NULL
  BY <1>8 DEF Ends
<1>. QED BY <1>1, <1>3, <1>10, <1>11 DEF Ends

(* The first hit is one. *)
LEMMA HitFirst ==
  ASSUME NEW up, Tree(up), NEW n \in Ends, NEW st, NEW m, NEW prefix,
         Hits(st, up, m, n, prefix) # {}
  PROVE  /\ FirstHit(st, up, m, n, prefix) \in Hits(st, up, m, n, prefix)
         /\ Hits(st, up, m, n, prefix) \subseteq Above(up, FirstHit(st, up, m, n, prefix))
<1>. DEFINE H == Hits(st, up, m, n, prefix)
<1>1. H \in SUBSET Above(up, n)
  BY DEF Hits
<1>. HIDE DEF H
<1>2. \E x \in H : H \subseteq Above(up, x)
  BY <1>1, FirstExists DEF H
<1>. QED BY <1>2 DEF FirstHit, H

(* A search misses no element that declares the prefix. *)
LEMMA BindsHit ==
  ASSUME NEW up, NEW n, NEW st \in Names, NEW prefix, NEW m, NEW b \in Above(up, m), b \in Nodes,
         Binds(st, b, prefix)
  PROVE  b \in Hits(st, up, n, m, prefix)
<1>. DEFINE s == st.def[b]
            e == IF b = n \/ st.ns[b] = NULL THEN <<>> ELSE <<st.ns[b]>>
            met == Met(st, n, b)
            I == Binding(st, n, b, prefix)
<1>1. s \in Seq(Decls) /\ e \in Seq(Decls)
  BY DEF Names
<1>2. met = s \o e
  BY DEF Met
<1>3. PICK d \in ToSet(s) : Matches(st, d, prefix)
  BY DEF Binds
<1>. HIDE DEF s, e, met
<1>4. /\ Len(s) \in Nat /\ Len(e) \in Nat /\ DOMAIN s = 1..Len(s)
      /\ met \in Seq(Decls) /\ Len(met) = Len(s) + Len(e)
      /\ \A i \in 1..(Len(s) + Len(e)) : met[i] = IF i <= Len(s) THEN s[i] ELSE e[i - Len(s)]
  BY <1>1, <1>2, LenProperties, ConcatProperties
<1>5. PICK i \in 1..Len(s) : s[i] = d
  BY <1>3, <1>4 DEF ToSet
<1>6. i \in 1..Len(met) /\ met[i] = d
  BY <1>4, <1>5
<1>7. I \in SUBSET (1..Len(met)) /\ i \in I
  BY <1>3, <1>6 DEF Binding, met
<1>. HIDE DEF I
<1>8. Min(I) \in 1..Len(met) /\ Len(met) \in Nat
  <2>1. Len(met) \in Nat
    BY <1>4
  <2>2. Min(I) \in I
    BY <1>7, <2>1, LeastIndex
  <2>. QED BY <1>7, <2>1, <2>2
<1>9. Hit(st, n, b, prefix) # 0
  BY <1>7, <1>8 DEF Hit, I
<1>. QED BY <1>9 DEF Hits

(* What a search finds binds the prefix, and is declared or used above, by *)
(* an element that has every one declaring the prefix at it or above it. *)
Nearest(st, up, n, prefix, a) == \A b \in Above(up, n) : Binds(st, b, prefix) => b \in Above(up, a)

Landed(st, up, n, r) == \E a \in Above(up, n) : r \in ToSet(st.def[a]) \/ (r = st.ns[a] /\ r # NULL)

LEMMA SearchLands ==
  ASSUME NEW up, Tree(up), NEW n \in Ends, NEW st \in Names, NEW prefix,
         NEW r, r = SearchNs(st, up, n, prefix), r # NULL
  PROVE  /\ r \in Decls /\ Matches(st, r, prefix) /\ Landed(st, up, n, r)
         /\ \E a \in Above(up, n) : /\ r \in ToSet(st.def[a]) \/ r = st.ns[a]
                                   /\ Nearest(st, up, n, prefix, a)
<1>1. r = Answer(st, up, n, n, prefix)
  BY SearchFinds
<1>. DEFINE H == Hits(st, up, n, n, prefix)
            a == FirstHit(st, up, n, n, prefix)
            I == Binding(st, n, a, prefix)
<1>2. H # {}
  BY <1>1 DEF Answer
<1>4. a \in H /\ H \subseteq Above(up, a)
  BY <1>2, HitFirst
<1>3. Nearest(st, up, n, prefix, a)
  <2>1. Above(up, n) \in SUBSET Nodes
    BY AboveFacts
  <2>. QED BY <1>4, <2>1, BindsHit DEF Nearest
<1>5. a \in Above(up, n) /\ a \in Nodes /\ Hit(st, n, a, prefix) # 0
  BY <1>4, AboveFacts DEF Hits
<1>6. r = Met(st, n, a)[Hit(st, n, a, prefix)]
  BY <1>1, <1>2 DEF Answer
<1>. HIDE DEF a, H
<1>7. Hit(st, n, a, prefix) = Min(I) /\ I # {}
  BY <1>5 DEF Hit
<1>. DEFINE s == st.def[a]
            e == IF a = n \/ st.ns[a] = NULL THEN <<>> ELSE <<st.ns[a]>>
            met == Met(st, n, a)
<1>8. s \in Seq(Decls) /\ st.ns[a] \in Decls \cup {NULL}
  BY <1>5 DEF Names
<1>9. e \in Seq(Decls) /\ Len(s) \in Nat /\ Len(e) \in Nat /\ DOMAIN s = 1..Len(s)
  BY <1>8, LenProperties
<1>10. met = s \o e
  BY DEF Met
<1>. HIDE DEF e, s, met
<1>11. /\ met \in Seq(Decls) /\ Len(met) = Len(s) + Len(e)
       /\ \A i \in 1..(Len(s) + Len(e)) : met[i] = IF i <= Len(s) THEN s[i] ELSE e[i - Len(s)]
  BY <1>8, <1>9, <1>10, ConcatProperties DEF s
<1>12. Min(I) \in I
  <2>1. I \in SUBSET (1..Len(met)) /\ Len(met) \in Nat
    BY <1>9, <1>11 DEF Binding, met
  <2>. HIDE DEF I
  <2>. QED BY <1>7, <2>1, LeastIndex
<1>13. PICK i : i \in 1..Len(met) /\ r = met[i] /\ Matches(st, r, prefix)
  BY <1>6, <1>7, <1>12 DEF Binding, met
<1>14. r \in Decls
  BY <1>11, <1>13, ElementOfSeq
<1>15. CASE i <= Len(s)
  <2>1. r = s[i] /\ i \in DOMAIN s
    BY <1>9, <1>11, <1>13, <1>15
  <2>. QED BY <1>3, <1>5, <1>13, <1>14, <2>1 DEF Landed, ToSet, s
<1>16. CASE ~ (i <= Len(s))
  <2>1. r = e[i - Len(s)] /\ i - Len(s) \in 1..Len(e)
    BY <1>9, <1>11, <1>13, <1>16
  <2>2. st.ns[a] # NULL /\ e = <<st.ns[a]>>
    BY <2>1 DEF e
  <2>3. r = st.ns[a]
    BY <2>1, <2>2
  <2>. QED BY <1>3, <1>5, <1>13, <1>14, <2>3, NamesAssumption DEF Landed
<1>. QED BY <1>15, <1>16, <1>9, <1>13

(* A search depends on the declarations and on the elements above only. *)
LEMMA SearchAgrees ==
  ASSUME NEW up, Tree(up), NEW n \in Ends, NEW st, NEW u, NEW prefix,
         u.decl = st.decl,
         \A a \in Above(up, n) : u.def[a] = st.def[a] /\ u.ns[a] = st.ns[a]
  PROVE  SearchNs(u, up, n, prefix) = SearchNs(st, up, n, prefix)
<1>1. \A a \in Above(up, n) : Met(u, n, a) = Met(st, n, a)
  BY DEF Met
<1>2. \A a \in Above(up, n) : Binding(u, n, a, prefix) = Binding(st, n, a, prefix)
  BY <1>1 DEF Binding, Matches
<1>3. \A a \in Above(up, n) : Hit(u, n, a, prefix) = Hit(st, n, a, prefix)
  BY <1>2 DEF Hit
<1>4. Hits(u, up, n, n, prefix) = Hits(st, up, n, n, prefix)
  BY <1>3 DEF Hits
<1>5. FirstHit(u, up, n, n, prefix) = FirstHit(st, up, n, n, prefix)
  BY <1>4 DEF FirstHit
<1>6. Answer(u, up, n, n, prefix) = Answer(st, up, n, n, prefix)
  <2>1. CASE Hits(st, up, n, n, prefix) = {}
    BY <1>4, <2>1 DEF Answer
  <2>2. CASE Hits(st, up, n, n, prefix) # {}
    <3>1. FirstHit(st, up, n, n, prefix) \in Above(up, n)
      BY <2>2, HitFirst DEF Hits
    <3>. QED BY <1>1, <1>3, <1>4, <1>5, <2>2, <3>1 DEF Answer
  <2>. QED BY <2>1, <2>2
<1>. QED BY <1>6, SearchFinds

-----------------------------------------------------------------------------
(* Stores.                                                                 *)

Held(st, n) == ToSet(st.def[n])

DeclRecords == [prefix : NsPrefixes, href : URIs \cup {NULL}]

(* Each allocated declaration is in one list, of an element in l, and in   *)
(* it once, or it is one of U.                                             *)
Placed(st, l, U) ==
  /\ st \in Names
  /\ U \subseteq Decls
  /\ \A n \in Nodes : Unrepeated(st.def[n])
  /\ \A n \in Nodes : \A d \in Held(st, n) : n \in l /\ st.decl[d] # NULL /\ d \notin U
  /\ \A n, m \in Nodes : \A d \in Held(st, n) \cap Held(st, m) : n = m
  /\ \A d \in U : st.decl[d] # NULL
  /\ \A d \in Decls : st.decl[d] # NULL => d \in U \/ \E n \in Nodes : d \in Held(st, n)
  /\ \A n \in Nodes \ l : st.ns[n] = NULL /\ st.attr[n] = NULL

(* What a store is made of. *)
LEMMA StoreTypes ==
  ASSUME NEW st \in Names
  PROVE  /\ st.def \in [Nodes -> Seq(Decls)]
         /\ st.decl \in [Decls -> {NULL} \cup DeclRecords]
         /\ \A r \in Refs : st[r] \in [Nodes -> Decls \cup {NULL}]
         /\ NULL \notin Decls /\ NULL \notin DeclRecords
         /\ \A d \in Decls : st.decl[d] # NULL => st.decl[d] \in DeclRecords
         /\ \A n \in Nodes : Held(st, n) \subseteq Decls
         /\ st.ns = st["ns"] /\ st.attr = st["attr"]
<1>1. /\ st.def \in [Nodes -> Seq(Decls)]
      /\ st.decl \in [Decls -> {NULL} \cup DeclRecords]
      /\ st.ns = st["ns"] /\ st.attr = st["attr"]
      /\ st.ns \in [Nodes -> Decls \cup {NULL}] /\ st.attr \in [Nodes -> Decls \cup {NULL}]
  BY DEF Names, DeclRecords
<1>2. \A r \in Refs : st[r] \in [Nodes -> Decls \cup {NULL}]
  BY <1>1 DEF Refs
<1>3. NULL \notin Decls /\ NULL \notin DeclRecords
  BY NamesAssumption DEF DeclRecords
<1>4. ASSUME NEW n \in Nodes PROVE Held(st, n) \subseteq Decls
  <2>1. st.def[n] \in Seq(Decls)
    BY <1>1
  <2>. QED BY <2>1, LenProperties, ElementOfSeq DEF Held, ToSet
<1>. QED BY <1>1, <1>2, <1>3, <1>4

(* A pointer is set. *)
Redirect(st, r, n, to) == [st EXCEPT ![r][n] = to]

LEMMA Redirected ==
  ASSUME NEW st \in Names, NEW r \in Refs, NEW n \in Nodes, NEW to \in Decls \cup {NULL},
         NEW u, u = Redirect(st, r, n, to)
  PROVE  /\ u \in Names /\ u.def = st.def /\ u.decl = st.decl
         /\ u[r] = [st[r] EXCEPT ![n] = to]
         /\ \A q \in Refs \ {r} : u[q] = st[q]
<1>1. CASE r = "ns"
  BY <1>1 DEF Refs, Names, Redirect
<1>2. CASE r = "attr"
  BY <1>2 DEF Refs, Names, Redirect
<1>. QED BY <1>1, <1>2 DEF Refs

(* The list of one element is replaced by one of its members, of members   *)
(* of U and of new declarations.                                           *)
LEMMA Relisted ==
  ASSUME NEW st, NEW l, NEW U, Placed(st, l, U), NEW n \in Nodes, n \in l,
         NEW list \in Seq(Decls), Unrepeated(list), NEW W \in SUBSET Decls,
         NEW u \in Names, u.def = [st.def EXCEPT ![n] = list],
         \A d \in Decls : st.decl[d] # NULL => u.decl[d] # NULL,
         ToSet(list) \cap W = {},
         ToSet(list) \cup W =
           Held(st, n) \cup U \cup {d \in Decls : st.decl[d] = NULL /\ u.decl[d] # NULL},
         \A m \in Nodes \ l : u.ns[m] = NULL /\ u.attr[m] = NULL
  PROVE  Placed(u, l, W)
<1>1. /\ st \in Names
      /\ U \subseteq Decls
      /\ \A m \in Nodes : Unrepeated(st.def[m])
      /\ \A m \in Nodes : \A d \in Held(st, m) : m \in l /\ st.decl[d] # NULL /\ d \notin U
      /\ \A m, k \in Nodes : \A d \in Held(st, m) \cap Held(st, k) : m = k
      /\ \A d \in U : st.decl[d] # NULL
      /\ \A d \in Decls : st.decl[d] # NULL => d \in U \/ \E m \in Nodes : d \in Held(st, m)
  BY DEF Placed
<1>2. st.def \in [Nodes -> Seq(Decls)] /\ \A m \in Nodes : Held(st, m) \subseteq Decls
  BY <1>1, StoreTypes
<1>3. \A m \in Nodes : Held(u, m) = IF m = n THEN ToSet(list) ELSE Held(st, m)
  BY <1>2 DEF Held
<1>4. \A m \in Nodes : Unrepeated(u.def[m])
  BY <1>1, <1>2
<1>5. \A d \in Held(st, n) \cup U : d \in Decls /\ u.decl[d] # NULL
  BY <1>1, <1>2
<1>6. \A d \in ToSet(list) \cup W : d \in Decls /\ u.decl[d] # NULL
  BY <1>5
<1>7. \A m \in Nodes \ {n} : \A d \in Held(st, m) : d \notin ToSet(list) \cup W
  <2>. SUFFICES ASSUME NEW m \in Nodes \ {n}, NEW d \in Held(st, m), d \in ToSet(list) \cup W
                PROVE  FALSE
    OBVIOUS
  <2>1. d \notin Held(st, n)
    BY <1>1
  <2>2. d \notin U /\ st.decl[d] # NULL
    BY <1>1
  <2>. QED BY <2>1, <2>2
<1>8. \A m \in Nodes : \A d \in Held(u, m) : m \in l /\ u.decl[d] # NULL /\ d \notin W
  BY <1>1, <1>2, <1>3, <1>6, <1>7
<1>9. \A m, k \in Nodes : \A d \in Held(u, m) \cap Held(u, k) : m = k
  BY <1>1, <1>3, <1>7
<1>10. ASSUME NEW d \in Decls, u.decl[d] # NULL
       PROVE  d \in W \/ \E m \in Nodes : d \in Held(u, m)
  <2>1. CASE d \in ToSet(list) \cup W
    BY <1>3, <2>1
  <2>2. CASE d \notin ToSet(list) \cup W
    <3>1. st.decl[d] # NULL /\ d \notin Held(st, n) \cup U
      BY <1>10, <2>2
    <3>2. PICK m \in Nodes : d \in Held(st, m)
      BY <1>1, <3>1
    <3>. QED BY <1>3, <3>1, <3>2
  <2>. QED BY <2>1, <2>2
<1>. QED BY <1>4, <1>6, <1>8, <1>9, <1>10 DEF Placed

(* A declaration that is not allocated is found when there is one. *)
LEMMA FreshExists ==
  ASSUME NEW st, Unused(st) # {}
  PROVE  FreshDecl(st) \in Decls /\ st.decl[FreshDecl(st)] = NULL
<1>1. Unused(st) \in SUBSET Nat
  BY NamesAssumption DEF Unused, Decls
<1>2. \E d \in Unused(st) : \A e \in Unused(st) : d <= e
  BY <1>1, Smallest
<1>. QED BY <1>2 DEF FreshDecl, Unused

(* A declaration is allocated. *)
LEMMA AllocatedFacts ==
  ASSUME NEW st \in Names, Unused(st) # {}, NEW prefix \in NsPrefixes,
         NEW href \in URIs \cup {NULL}, NEW u, u = Allocated(st, prefix, href)
  PROVE  /\ u \in Names /\ u.def = st.def /\ u.ns = st.ns /\ u.attr = st.attr
         /\ FreshDecl(st) \in Decls /\ st.decl[FreshDecl(st)] = NULL
         /\ \A d \in Decls : u.decl[d] = IF d = FreshDecl(st) THEN [prefix |-> prefix, href |-> href]
                                         ELSE st.decl[d]
         /\ u.decl[FreshDecl(st)] # NULL
<1>1. FreshDecl(st) \in Decls /\ st.decl[FreshDecl(st)] = NULL
  BY FreshExists
<1>. DEFINE e == FreshDecl(st)
            rec == [prefix |-> prefix, href |-> href]
<1>2. rec \in DeclRecords
  BY DEF DeclRecords
<1>3. u = [st EXCEPT !.decl[e] = rec] /\ e \in Decls
  BY <1>1 DEF Allocated
<1>. HIDE DEF e, rec
<1>4. /\ u \in Names /\ u.def = st.def /\ u.ns = st.ns /\ u.attr = st.attr
      /\ \A d \in Decls : u.decl[d] = IF d = e THEN rec ELSE st.decl[d]
  <2>1. Names = [def : [Nodes -> Seq(Decls)], ns : [Nodes -> Decls \cup {NULL}],
                 attr : [Nodes -> Decls \cup {NULL}], decl : [Decls -> {NULL} \cup DeclRecords]]
    BY DEF Names, DeclRecords
  <2>. QED BY <1>2, <1>3, <2>1
<1>5. rec # NULL
  BY <1>2, NamesAssumption DEF DeclRecords
<1>. QED BY <1>1, <1>4, <1>5 DEF e, rec

-----------------------------------------------------------------------------
(* One pointer is reconciled.                                              *)

(* What is in scope above n for the prefix of d, and whether it is the     *)
(* same name *)
Outer(st, up, n, d) == SearchNs(st, up, up[n], st.decl[d].prefix)

Agrees(st, up, n, d) ==
  Outer(st, up, n, d) # NULL /\ st.decl[Outer(st, up, n, d)].href = st.decl[d].href

(* Nothing else changes. *)
Elsewhere(st, u, n, ref) ==
  /\ \A m \in Nodes \ {n} : u.def[m] = st.def[m]
  /\ \A r \in Refs : \A m \in Nodes : r # ref \/ m # n => u[r][m] = st[r][m]

(* What may become of a pointer to d *)
Taken(w, v, up, n, ref, d) ==
  /\ Agrees(w.store, up, n, d)
  /\ v.store.decl = w.store.decl
  /\ Held(v.store, n) = Held(w.store, n) \ {d}
  /\ v.store[ref][n] \in Decls
  /\ v.store[ref][n] = Outer(w.store, up, n, d)
  /\ Matches(w.store, v.store[ref][n], w.store.decl[d].prefix)
  /\ Landed(w.store, up, up[n], v.store[ref][n])

Stayed(w, v, up, n, ref, d) ==
  /\ ~ Agrees(w.store, up, n, d)
  /\ d \in Held(w.store, n)
  /\ v.store.decl = w.store.decl
  /\ Held(v.store, n) = Held(w.store, n)
  /\ v.store[ref][n] = d

Copied(w, v, up, n, ref, d, e) ==
  /\ ~ Agrees(w.store, up, n, d)
  /\ d \notin Held(w.store, n)
  /\ e \in Decls /\ w.store.decl[e] = NULL
  /\ \A c \in Decls : c # e => v.store.decl[c] = w.store.decl[c]
  /\ v.store.decl[e] # NULL /\ v.store.decl[e] = w.store.decl[d]
  /\ Held(v.store, n) = Held(w.store, n) \cup {e}
  /\ v.store[ref][n] = e

Renaming(w, l, up, n, ref, d, v) ==
  /\ Placed(w.store, l, w.unused)
  /\ Tree(up)
  /\ n \in Nodes /\ n \in l /\ ref \in Refs
  /\ d \in Decls /\ d = w.store[ref][n]
  /\ v = ReconcileRef(w, up, n, ref)

(* It takes the declaration above, *)
LEMMA RefTaken ==
  ASSUME NEW w, NEW l, NEW up, NEW n, NEW ref, NEW d, NEW v, Renaming(w, l, up, n, ref, d, v),
         Agrees(w.store, up, n, d)
  PROVE  /\ Placed(v.store, l, v.unused)
         /\ Elsewhere(w.store, v.store, n, ref)
         /\ Taken(w, v, up, n, ref, d)
<1>0. /\ Placed(w.store, l, w.unused) /\ Tree(up) /\ n \in Nodes /\ n \in l /\ ref \in Refs
      /\ d \in Decls /\ d = w.store[ref][n] /\ v = ReconcileRef(w, up, n, ref)
  BY DEF Renaming
<1>. DEFINE st == w.store
            U == w.unused
            o == Outer(w.store, up, n, d)
            list == RemoveFirst(st.def[n], d)
            x == [st EXCEPT !.def[n] = list]
            u == [x EXCEPT ![ref][n] = o]
            W == U \cup IF d \in Held(st, n) THEN {d} ELSE {}
<1>1. st \in Names /\ d # NULL
  BY <1>0, StoreTypes DEF Placed
<1>2. v.store = u /\ v.unused = W
  <2>1. v = [store |-> u, unused |-> W]
    BY <1>0, <1>1 DEF ReconcileRef, Agrees, Outer, RemoveNsDef, Held
  <2>. QED BY <1>0, <2>1
<1>3. up[n] \in Ends
  BY <1>0, AboveFacts
<1>4. o \in Decls /\ Landed(st, up, up[n], o) /\ Matches(st, o, st.decl[d].prefix)
  BY <1>0, <1>1, <1>3, SearchLands DEF Agrees, Outer
<1>5. /\ list \in Seq(Decls) /\ Unrepeated(list)
      /\ ToSet(list) = Held(st, n) \ {d}
  <2>1. st.def[n] \in Seq(Decls) /\ Unrepeated(st.def[n])
    BY <1>0, <1>1, StoreTypes DEF Placed
  <2>. QED BY <1>0, <2>1, RemovedFromList DEF Held
<1>. HIDE DEF st, U, o, list
<1>6. /\ x \in Names /\ x.def = [st.def EXCEPT ![n] = list] /\ x.decl = st.decl
      /\ x.ns = st.ns /\ x.attr = st.attr
  BY <1>0, <1>1, <1>5 DEF Names
<1>7. \A r \in Refs : x[r] = st[r]
  BY <1>0, <1>1, <1>6 DEF Refs, Names
<1>. HIDE DEF x
<1>8. /\ u \in Names /\ u.def = x.def /\ u.decl = x.decl
      /\ u[ref] = [x[ref] EXCEPT ![n] = o]
      /\ \A q \in Refs \ {ref} : u[q] = x[q]
  <2>1. u = Redirect(x, ref, n, o)
    BY <1>0 DEF Redirect
  <2>. HIDE DEF u
  <2>. QED BY <1>0, <1>4, <1>6, <2>1, Redirected
<1>. HIDE DEF u
<1>9. \A r \in Refs : \A m \in Nodes : u[r][m] = IF r = ref /\ m = n THEN o ELSE st[r][m]
  <2>1. \A r \in Refs : st[r] \in [Nodes -> Decls \cup {NULL}]
    BY <1>0, <1>1, StoreTypes
  <2>. QED BY <1>0, <1>7, <1>8, <2>1
<1>10. st.def \in [Nodes -> Seq(Decls)]
  BY <1>0, <1>1, StoreTypes
<1>11. W \in SUBSET Decls /\ ToSet(list) \cap W = {}
       /\ ToSet(list) \cup W = Held(st, n) \cup U
  BY <1>0, <1>5 DEF Placed, st, U
<1>12. \A m \in Nodes \ l : u.ns[m] = NULL /\ u.attr[m] = NULL
  <2>1. \A m \in Nodes \ l : st["ns"][m] = NULL /\ st["attr"][m] = NULL
    BY <1>0, <1>1, StoreTypes DEF Placed, st
  <2>2. u.ns = u["ns"] /\ u.attr = u["attr"]
    BY <1>0, <1>8, StoreTypes
  <2>. QED BY <1>0, <1>9, <2>1, <2>2 DEF Refs
<1>13. Placed(st, l, U)
  BY <1>0 DEF st, U
<1>14. Placed(u, l, W)
  <2>. HIDE DEF W
  <2>1. u.def = [st.def EXCEPT ![n] = list] /\ u.decl = st.decl
    BY <1>0, <1>6, <1>8
  <2>2. {e \in Decls : st.decl[e] = NULL /\ u.decl[e] # NULL} = {}
    BY <1>0, <2>1
  <2>. QED BY <1>0, <1>5, <1>8, <1>11, <1>12, <1>13, <2>1, <2>2, Relisted
<1>15. Held(u, n) = Held(st, n) \ {d}
  BY <1>0, <1>5, <1>6, <1>8, <1>10 DEF Held
<1>16. Elsewhere(st, u, n, ref)
  BY <1>0, <1>6, <1>8, <1>9, <1>10 DEF Elsewhere
<1>17. v.store.decl = st.decl /\ v.store[ref][n] = o /\ Held(v.store, n) = Held(st, n) \ {d}
  BY <1>0, <1>2, <1>6, <1>8, <1>9, <1>15
<1>18. Taken(w, v, up, n, ref, d)
  BY <1>0, <1>4, <1>17 DEF Taken, st, o
<1>. QED BY <1>2, <1>14, <1>16, <1>18 DEF st

(* or stays with a declaration of its element, *)
LEMMA RefKept ==
  ASSUME NEW w, NEW l, NEW up, NEW n, NEW ref, NEW d, NEW v, Renaming(w, l, up, n, ref, d, v),
         ~ Agrees(w.store, up, n, d), d \in Held(w.store, n)
  PROVE  /\ Placed(v.store, l, v.unused)
         /\ Elsewhere(w.store, v.store, n, ref)
         /\ Stayed(w, v, up, n, ref, d)
<1>0. /\ Placed(w.store, l, w.unused) /\ Tree(up) /\ n \in Nodes /\ n \in l /\ ref \in Refs
      /\ d \in Decls /\ d = w.store[ref][n] /\ v = ReconcileRef(w, up, n, ref)
  BY DEF Renaming
<1>. DEFINE st == w.store
            U == w.unused
            rest == RemoveFirst(st.def[n], d)
            list == <<d>> \o rest
            x == [st EXCEPT !.def[n] = list]
            u == [x EXCEPT ![ref][n] = d]
<1>1. st \in Names /\ d # NULL /\ st.def[n] \in Seq(Decls) /\ Unrepeated(st.def[n])
  BY <1>0, StoreTypes DEF Placed
<1>2. /\ rest \in Seq(Decls) /\ Unrepeated(rest)
      /\ ToSet(rest) = Held(st, n) \ {d}
  BY <1>0, <1>1, RemovedFromList DEF Held
<1>3. /\ list \in Seq(Decls) /\ Unrepeated(list)
      /\ ToSet(list) = Held(st, n)
  <2>1. d \notin ToSet(rest)
    BY <1>0, <1>2
  <2>. HIDE DEF rest
  <2>2. /\ list \in Seq(Decls) /\ Unrepeated(list)
        /\ ToSet(list) = ToSet(rest) \cup {d}
    BY <1>0, <1>2, <2>1, PutInFront
  <2>. QED BY <1>0, <1>2, <2>2
<1>4. v.store = u /\ v.unused = U
  <2>1. RemoveNsDef(st, n, d) = [st EXCEPT !.def[n] = rest]
    BY <1>0 DEF RemoveNsDef
  <2>2. d \notin ToSet(rest)
    BY <1>0, <1>2
  <2>. HIDE DEF rest
  <2>3. st.def \in [Nodes -> Seq(Decls)]
    BY <1>0, <1>1, StoreTypes
  <2>4. AddNsDef([st EXCEPT !.def[n] = rest], n, d) = x
    BY <1>0, <1>1, <1>2, <2>2, <2>3 DEF AddNsDef, Names
  <2>. HIDE DEF list, x
  <2>5. v = [w EXCEPT !.store = [AddNsDef(RemoveNsDef(st, n, d), n, d) EXCEPT ![ref][n] = d]]
    BY <1>0, <1>1 DEF ReconcileRef, Agrees, Outer, Held
  <2>6. v = [w EXCEPT !.store = u]
    BY <1>0, <2>1, <2>4, <2>5
  <2>. HIDE DEF u
  <2>. QED BY <1>0, <2>6
<1>. HIDE DEF st, U, rest, list
<1>6. /\ x \in Names /\ x.def = [st.def EXCEPT ![n] = list] /\ x.decl = st.decl
      /\ x.ns = st.ns /\ x.attr = st.attr
  BY <1>0, <1>1, <1>3 DEF Names
<1>7. \A r \in Refs : x[r] = st[r]
  BY <1>0, <1>1, <1>6 DEF Refs, Names
<1>. HIDE DEF x
<1>8. /\ u \in Names /\ u.def = x.def /\ u.decl = x.decl
      /\ u[ref] = [x[ref] EXCEPT ![n] = d]
      /\ \A q \in Refs \ {ref} : u[q] = x[q]
  <2>1. u = Redirect(x, ref, n, d)
    BY <1>0 DEF Redirect
  <2>. HIDE DEF u
  <2>. QED BY <1>0, <1>6, <2>1, Redirected
<1>. HIDE DEF u
<1>9. \A r \in Refs : \A m \in Nodes : u[r][m] = st[r][m]
  <2>1. \A r \in Refs : st[r] \in [Nodes -> Decls \cup {NULL}]
    BY <1>0, <1>1, StoreTypes
  <2>. QED BY <1>0, <1>7, <1>8, <2>1 DEF st
<1>10. st.def \in [Nodes -> Seq(Decls)]
  BY <1>0, <1>1, StoreTypes
<1>11. U \in SUBSET Decls /\ ToSet(list) \cap U = {}
  BY <1>0, <1>3 DEF Placed, st, U
<1>12. \A m \in Nodes \ l : u.ns[m] = NULL /\ u.attr[m] = NULL
  <2>1. \A m \in Nodes \ l : st["ns"][m] = NULL /\ st["attr"][m] = NULL
    BY <1>0, <1>1, StoreTypes DEF Placed, st
  <2>2. u.ns = u["ns"] /\ u.attr = u["attr"]
    BY <1>0, <1>8, StoreTypes
  <2>. QED BY <1>0, <1>9, <2>1, <2>2 DEF Refs
<1>13. Placed(st, l, U)
  BY <1>0 DEF st, U
<1>14. Placed(u, l, U)
  <2>1. u.def = [st.def EXCEPT ![n] = list] /\ u.decl = st.decl
    BY <1>0, <1>6, <1>8
  <2>2. {e \in Decls : st.decl[e] = NULL /\ u.decl[e] # NULL} = {}
    BY <1>0, <2>1
  <2>3. ToSet(list) \cup U =
          Held(st, n) \cup U \cup {e \in Decls : st.decl[e] = NULL /\ u.decl[e] # NULL}
    BY <1>0, <1>3, <2>2
  <2>. QED BY <1>0, <1>3, <1>8, <1>11, <1>12, <1>13, <2>1, <2>3, Relisted
<1>15. Held(u, n) = Held(st, n)
  BY <1>0, <1>3, <1>6, <1>8, <1>10 DEF Held
<1>16. Elsewhere(st, u, n, ref)
  BY <1>0, <1>6, <1>8, <1>9, <1>10 DEF Elsewhere
<1>17. v.store.decl = st.decl /\ v.store[ref][n] = d /\ Held(v.store, n) = Held(st, n)
  BY <1>0, <1>4, <1>6, <1>8, <1>9, <1>15 DEF st
<1>18. Stayed(w, v, up, n, ref, d)
  BY <1>0, <1>17 DEF Stayed, st
<1>. QED BY <1>4, <1>14, <1>16, <1>18 DEF st

(* or gets a copy that its element declares. *)
LEMMA RefCopied ==
  ASSUME NEW w, NEW l, NEW up, NEW n, NEW ref, NEW d, NEW v, Renaming(w, l, up, n, ref, d, v),
         ~ Agrees(w.store, up, n, d), d \notin Held(w.store, n),
         w.store.decl[d] # NULL, Unused(w.store) # {}
  PROVE  /\ Placed(v.store, l, v.unused)
         /\ Elsewhere(w.store, v.store, n, ref)
         /\ \E e : Copied(w, v, up, n, ref, d, e)
<1>0. /\ Placed(w.store, l, w.unused) /\ Tree(up) /\ n \in Nodes /\ n \in l /\ ref \in Refs
      /\ d \in Decls /\ d = w.store[ref][n] /\ v = ReconcileRef(w, up, n, ref)
  BY DEF Renaming
<1>. DEFINE st == w.store
            U == w.unused
            e == FreshDecl(st)
            y == Allocated(st, st.decl[d].prefix, st.decl[d].href)
            list == <<e>> \o st.def[n]
            x == [y EXCEPT !.def[n] = list]
            u == [x EXCEPT ![ref][n] = e]
<1>1. st \in Names /\ d # NULL /\ st.def[n] \in Seq(Decls) /\ Unrepeated(st.def[n])
  BY <1>0, StoreTypes DEF Placed
<1>2. /\ st.decl[d].prefix \in NsPrefixes /\ st.decl[d].href \in URIs \cup {NULL}
      /\ st.decl[d] = [prefix |-> st.decl[d].prefix, href |-> st.decl[d].href]
  <2>1. st.decl[d] \in DeclRecords
    BY <1>0, <1>1, StoreTypes
  <2>. QED BY <1>0, <2>1 DEF DeclRecords
<1>3. /\ y \in Names /\ y.def = st.def /\ y.ns = st.ns /\ y.attr = st.attr
      /\ e \in Decls /\ st.decl[e] = NULL
      /\ \A c \in Decls : c # e => y.decl[c] = st.decl[c]
      /\ y.decl[e] # NULL /\ y.decl[e] = st.decl[d]
  <2>. HIDE DEF st
  <2>1. Unused(st) # {}
    BY <1>0 DEF st
  <2>2. PICK a \in NsPrefixes, b \in URIs \cup {NULL} : a = st.decl[d].prefix /\ b = st.decl[d].href
    BY <1>0, <1>2
  <2>3. y = Allocated(st, a, b)
    BY <1>0, <2>2
  <2>. HIDE DEF y
  <2>4. /\ y \in Names /\ y.def = st.def /\ y.ns = st.ns /\ y.attr = st.attr
        /\ e \in Decls /\ st.decl[e] = NULL /\ y.decl[e] # NULL
        /\ \A c \in Decls : y.decl[c] = IF c = e THEN [prefix |-> a, href |-> b] ELSE st.decl[c]
    BY <1>0, <1>1, <2>1, <2>3, AllocatedFacts
  <2>5. y.decl[e] = [prefix |-> a, href |-> b]
    <3>. HIDE DEF e
    <3>. QED BY <2>4
  <2>. QED BY <1>0, <1>2, <2>2, <2>4, <2>5
<1>4. e \notin Held(st, n)
  BY <1>0, <1>3 DEF Placed
<1>5. /\ list \in Seq(Decls) /\ Unrepeated(list)
      /\ ToSet(list) = Held(st, n) \cup {e}
  <2>. HIDE DEF e
  <2>. QED BY <1>0, <1>1, <1>3, <1>4, PutInFront DEF Held
<1>6. v.store = u /\ v.unused = U
  <2>1. e \notin ToSet(y.def[n])
    BY <1>0, <1>3, <1>4 DEF Held
  <2>2. v = [w EXCEPT !.store = [AddNsDef(y, n, e) EXCEPT ![ref][n] = e]]
    BY <1>0, <1>1 DEF ReconcileRef, Agrees, Outer, Held
  <2>. HIDE DEF y, e
  <2>3. AddNsDef(y, n, e) = x
    BY <1>0, <1>3, <2>1, StoreTypes DEF AddNsDef
  <2>4. v = [w EXCEPT !.store = u]
    BY <1>0, <2>2, <2>3
  <2>. HIDE DEF u
  <2>. QED BY <1>0, <2>4
<1>. HIDE DEF st, U, e, y, list
<1>7. /\ x \in Names /\ x.def = [st.def EXCEPT ![n] = list] /\ x.decl = y.decl
      /\ x.ns = st.ns /\ x.attr = st.attr
  BY <1>0, <1>3, <1>5 DEF Names
<1>8. \A r \in Refs : x[r] = st[r]
  BY <1>0, <1>1, <1>3, <1>7 DEF Refs, Names
<1>. HIDE DEF x
<1>9. /\ u \in Names /\ u.def = x.def /\ u.decl = x.decl
      /\ u[ref] = [x[ref] EXCEPT ![n] = e]
      /\ \A q \in Refs \ {ref} : u[q] = x[q]
  <2>1. u = Redirect(x, ref, n, e)
    BY <1>0 DEF Redirect
  <2>. HIDE DEF u
  <2>. QED BY <1>0, <1>3, <1>7, <2>1, Redirected
<1>. HIDE DEF u
<1>10. \A r \in Refs : \A m \in Nodes : u[r][m] = IF r = ref /\ m = n THEN e ELSE st[r][m]
  <2>1. \A r \in Refs : st[r] \in [Nodes -> Decls \cup {NULL}]
    BY <1>0, <1>1, StoreTypes
  <2>. QED BY <1>0, <1>8, <1>9, <2>1
<1>11. st.def \in [Nodes -> Seq(Decls)]
  BY <1>0, <1>1, StoreTypes
<1>12. U \in SUBSET Decls /\ ToSet(list) \cap U = {}
  BY <1>0, <1>3, <1>5 DEF Placed, st, U
<1>13. \A m \in Nodes \ l : u.ns[m] = NULL /\ u.attr[m] = NULL
  <2>1. \A m \in Nodes \ l : st["ns"][m] = NULL /\ st["attr"][m] = NULL
    BY <1>0, <1>1, StoreTypes DEF Placed, st
  <2>2. u.ns = u["ns"] /\ u.attr = u["attr"]
    BY <1>0, <1>9, StoreTypes
  <2>. QED BY <1>0, <1>10, <2>1, <2>2 DEF Refs
<1>14. Placed(st, l, U)
  BY <1>0 DEF st, U
<1>15. Placed(u, l, U)
  <2>1. u.def = [st.def EXCEPT ![n] = list] /\ u.decl = y.decl
    BY <1>0, <1>7, <1>9
  <2>2. {c \in Decls : st.decl[c] = NULL /\ u.decl[c] # NULL} = {e}
    BY <1>0, <1>3, <2>1
  <2>3. ToSet(list) \cup U =
          Held(st, n) \cup U \cup {c \in Decls : st.decl[c] = NULL /\ u.decl[c] # NULL}
    BY <1>0, <1>5, <2>2
  <2>4. \A c \in Decls : st.decl[c] # NULL => u.decl[c] # NULL
    BY <1>0, <1>3, <2>1
  <2>. QED BY <1>0, <1>5, <1>9, <1>12, <1>13, <1>14, <2>1, <2>3, <2>4, Relisted
<1>16. Held(u, n) = Held(st, n) \cup {e}
  BY <1>0, <1>5, <1>7, <1>9, <1>11 DEF Held
<1>17. Elsewhere(st, u, n, ref)
  BY <1>0, <1>7, <1>9, <1>10, <1>11 DEF Elsewhere
<1>18. u.decl = y.decl /\ u[ref][n] = e
  BY <1>0, <1>7, <1>9, <1>10
<1>19. \A c \in Decls : c # e => u.decl[c] = st.decl[c]
  BY <1>0, <1>3, <1>18
<1>20. Copied(w, v, up, n, ref, d, e)
  BY <1>0, <1>3, <1>6, <1>16, <1>18, <1>19 DEF Copied, st
<1>. QED BY <1>6, <1>15, <1>17, <1>20 DEF st

-----------------------------------------------------------------------------
(* The pointers of one element are reconciled.                             *)

(* What an allocated declaration says stays as it is. *)
Says(st, u) == \A c \in Decls : st.decl[c] # NULL => u.decl[c] = st.decl[c]

Outcome(w, v, up, n, ref, d) ==
  \/ d = NULL /\ v = w
  \/ d # NULL /\ Taken(w, v, up, n, ref, d)
  \/ d # NULL /\ Stayed(w, v, up, n, ref, d)
  \/ d # NULL /\ \E e : Copied(w, v, up, n, ref, d, e)

(* There is a declaration left when a copy is needed. *)
Affordable(w, up, n, d) ==
  d # NULL /\ ~ Agrees(w.store, up, n, d) /\ d \notin Held(w.store, n) => Unused(w.store) # {}

Visiting(w, l, up, n, ref, d, v) ==
  /\ Placed(w.store, l, w.unused)
  /\ Tree(up)
  /\ n \in Nodes /\ n \in l /\ ref \in Refs
  /\ d = w.store[ref][n]
  /\ d # NULL => d \in Decls /\ w.store.decl[d] # NULL
  /\ v = ReconcileRef(w, up, n, ref)

(* What happens to a pointer *)
LEMMA RefStep ==
  ASSUME NEW w, NEW l, NEW up, NEW n, NEW ref, NEW d, NEW v,
         Visiting(w, l, up, n, ref, d, v), Affordable(w, up, n, d)
  PROVE  /\ Placed(v.store, l, v.unused)
         /\ Elsewhere(w.store, v.store, n, ref)
         /\ Says(w.store, v.store)
         /\ Outcome(w, v, up, n, ref, d)
<1>1. CASE d = NULL
  <2>1. v = w
    BY <1>1 DEF ReconcileRef, Visiting
  <2>. QED BY <1>1, <2>1 DEF Elsewhere, Says, Visiting, Outcome
<1>. SUFFICES ASSUME d # NULL
              PROVE  /\ Placed(v.store, l, v.unused)
                     /\ Elsewhere(w.store, v.store, n, ref)
                     /\ Says(w.store, v.store)
                     /\ Outcome(w, v, up, n, ref, d)
  BY <1>1
<1>2. Renaming(w, l, up, n, ref, d, v) /\ w.store.decl[d] # NULL
  BY DEF Renaming, Visiting
<1>3. CASE Agrees(w.store, up, n, d)
  <2>1. /\ Placed(v.store, l, v.unused)
        /\ Elsewhere(w.store, v.store, n, ref)
        /\ Taken(w, v, up, n, ref, d)
    BY <1>2, <1>3, RefTaken
  <2>. QED BY <2>1 DEF Says, Outcome, Taken
<1>4. CASE ~ Agrees(w.store, up, n, d) /\ d \in Held(w.store, n)
  <2>1. /\ Placed(v.store, l, v.unused)
        /\ Elsewhere(w.store, v.store, n, ref)
        /\ Stayed(w, v, up, n, ref, d)
    BY <1>2, <1>4, RefKept
  <2>. QED BY <2>1 DEF Says, Outcome, Stayed
<1>5. CASE ~ Agrees(w.store, up, n, d) /\ d \notin Held(w.store, n)
  <2>1. Unused(w.store) # {}
    BY <1>5 DEF Affordable
  <2>2. /\ Placed(v.store, l, v.unused)
        /\ Elsewhere(w.store, v.store, n, ref)
        /\ \E e : Copied(w, v, up, n, ref, d, e)
    BY <1>2, <1>5, <2>1, RefCopied
  <2>3. Says(w.store, v.store)
    BY <2>2 DEF Says, Copied
  <2>. QED BY <2>2, <2>3 DEF Outcome
<1>. QED BY <1>3, <1>4, <1>5

(* A step of a reconciliation, for one pointer *)
Stepping(w, v, l, up, n, ref) ==
  /\ Placed(w.store, l, w.unused) /\ Placed(v.store, l, v.unused)
  /\ Elsewhere(w.store, v.store, n, ref)
  /\ Says(w.store, v.store)
  /\ Outcome(w, v, up, n, ref, w.store[ref][n])

(* Every pointer is to an allocated declaration. *)
Pointing(st) ==
  \A m \in Nodes, r \in Refs : st[r][m] # NULL => st.decl[st[r][m]] # NULL

(* What a pointer says in st it says in u. *)
SameName(st, u, m, r) ==
  IF st[r][m] = NULL THEN u[r][m] = NULL
  ELSE /\ u[r][m] # NULL
       /\ u.decl[u[r][m]] # NULL
       /\ u.decl[u[r][m]] = st.decl[st[r][m]]

SameNames(st, u) == \A m \in Nodes, r \in Refs : SameName(st, u, m, r)

LEMMA SameNamesCompose ==
  ASSUME NEW st, NEW t, NEW u, SameNames(st, t), SameNames(t, u)
  PROVE  SameNames(st, u)
BY DEF SameNames, SameName

LEMMA SameNamesPointing ==
  ASSUME NEW st, NEW u, SameNames(st, u)
  PROVE  Pointing(u)
BY DEF SameNames, SameName, Pointing

LEMMA PointingSame ==
  ASSUME NEW st, Pointing(st)
  PROVE  SameNames(st, st)
BY DEF SameNames, SameName, Pointing

(* What is found in scope is allocated. *)
LEMMA LandedAllocated ==
  ASSUME NEW st, NEW l, NEW U, Placed(st, l, U), Pointing(st),
         NEW up, Tree(up), NEW n \in Ends, NEW d, Landed(st, up, n, d)
  PROVE  st.decl[d] # NULL
<1>1. Above(up, n) \in SUBSET Nodes
  BY AboveFacts
<1>2. PICK a \in Above(up, n) : d \in ToSet(st.def[a]) \/ (d = st.ns[a] /\ d # NULL)
  BY DEF Landed
<1>3. a \in Nodes /\ st.ns = st["ns"] /\ "ns" \in Refs
  BY <1>1, StoreTypes DEF Placed, Refs
<1>. QED BY <1>2, <1>3 DEF Placed, Held, Pointing

(* A reconciled pointer says what it said before. *)
LEMMA RefSays ==
  ASSUME NEW w, NEW l, NEW up, Tree(up), NEW n \in Nodes, NEW ref \in Refs, NEW v,
         Stepping(w, v, l, up, n, ref), Pointing(w.store)
  PROVE  SameNames(w.store, v.store)
<1>. DEFINE d == w.store[ref][n]
<1>1. /\ Placed(w.store, l, w.unused) /\ w.store \in Names /\ Tree(up)
      /\ n \in Nodes /\ ref \in Refs /\ d = w.store[ref][n]
  BY DEF Stepping, Placed
<1>2. /\ Elsewhere(w.store, v.store, n, ref) /\ Says(w.store, v.store)
      /\ Outcome(w, v, up, n, ref, d)
  BY DEF Stepping
<1>. HIDE DEF d
<1>3. ASSUME NEW m \in Nodes, NEW r \in Refs, r # ref \/ m # n
      PROVE  SameName(w.store, v.store, m, r)
  <2>1. v.store[r][m] = w.store[r][m]
    BY <1>2, <1>3 DEF Elsewhere
  <2>2. w.store[r][m] \in Decls \cup {NULL}
    BY <1>1, StoreTypes
  <2>3. w.store[r][m] # NULL => w.store.decl[w.store[r][m]] # NULL
    BY DEF Pointing
  <2>. QED BY <1>2, <2>1, <2>2, <2>3 DEF SameName, Says
<1>4. SameName(w.store, v.store, n, ref)
  <2>1. CASE d = NULL /\ v = w
    BY <1>1, <2>1 DEF SameName
  <2>. SUFFICES ASSUME d # NULL PROVE SameName(w.store, v.store, n, ref)
    BY <1>2, <2>1 DEF Outcome, Taken, Stayed, Copied
  <2>2. CASE Taken(w, v, up, n, ref, d)
    <3>. DEFINE o == v.store[ref][n]
    <3>1. /\ o \in Decls /\ v.store.decl = w.store.decl
          /\ w.store.decl[o].href = w.store.decl[d].href
          /\ w.store.decl[o].prefix = w.store.decl[d].prefix
          /\ Landed(w.store, up, up[n], o)
      BY <2>2 DEF Taken, Agrees, Matches
    <3>2. up[n] \in Ends
      BY <1>1, AboveFacts
    <3>3. w.store.decl[o] # NULL
      BY <1>1, <3>1, <3>2, LandedAllocated
    <3>4. o # NULL
      BY <3>1, NamesAssumption
    <3>5. w.store.decl[d] # NULL /\ d \in Decls
      BY <1>1, StoreTypes DEF Pointing
    <3>6. w.store.decl[o] \in DeclRecords /\ w.store.decl[d] \in DeclRecords
      BY <1>1, <3>1, <3>3, <3>5, StoreTypes
    <3>7. w.store.decl[o] = w.store.decl[d]
      <4>. DEFINE x == w.store.decl[o]
                  y == w.store.decl[d]
      <4>1. /\ x \in [prefix : NsPrefixes, href : URIs \cup {NULL}] /\ x.prefix = y.prefix
            /\ y \in [prefix : NsPrefixes, href : URIs \cup {NULL}] /\ x.href = y.href
        BY <3>1, <3>6 DEF DeclRecords
      <4>. HIDE DEF x, y
      <4>2. x = y
        BY <4>1
      <4>. QED BY <4>2 DEF x, y
    <3>. QED BY <1>1, <3>1, <3>3, <3>4, <3>7 DEF SameName
  <2>3. CASE Stayed(w, v, up, n, ref, d)
    <3>1. w.store.decl[d] # NULL
      BY <1>1 DEF Pointing
    <3>. QED BY <1>1, <2>3, <3>1 DEF SameName, Stayed
  <2>4. CASE \E e : Copied(w, v, up, n, ref, d, e)
    <3>1. PICK e : Copied(w, v, up, n, ref, d, e)
      BY <2>4
    <3>2. e # NULL
      BY <3>1, NamesAssumption DEF Copied
    <3>. QED BY <1>1, <3>1, <3>2 DEF SameName, Copied
  <2>. QED BY <1>2, <2>2, <2>3, <2>4 DEF Outcome
<1>. QED BY <1>3, <1>4 DEF SameNames

(* A pointer leaves its element. *)
Loan(st, n, ref) == st[ref][n] \notin Held(st, n) \cup {NULL}

Loans(st, n) == {r \in Refs : Loan(st, n, r)}

(* A pointer is in order: it is to a declaration of its element or to one  *)
(* that is met above. *)
InOrder(st, old, up, n, r) ==
  \/ st[r][n] = NULL
  \/ st[r][n] \in Held(st, n)
  \/ Landed(old, up, up[n], st[r][n])

(* A step takes one declaration at most, for a loan. *)
LEMMA StepSpends ==
  ASSUME NEW w, NEW v, NEW up, NEW n, NEW ref, NEW d, d = w.store[ref][n],
         Outcome(w, v, up, n, ref, d)
  PROVE  /\ Cardinality(Unused(v.store)) \in Nat /\ Cardinality(Unused(w.store)) \in Nat
         /\ \/ Cardinality(Unused(v.store)) >= Cardinality(Unused(w.store))
            \/ /\ Loan(w.store, n, ref)
               /\ Cardinality(Unused(v.store)) >= Cardinality(Unused(w.store)) - 1
<1>1. IsFiniteSet(Decls)
  BY NamesAssumption, FS_Interval DEF Decls
<1>2. Unused(w.store) \in SUBSET Decls /\ Unused(v.store) \in SUBSET Decls
  BY DEF Unused
<1>3. IsFiniteSet(Unused(w.store)) /\ IsFiniteSet(Unused(v.store))
  BY <1>1, <1>2, FS_Subset
<1>4. Cardinality(Unused(w.store)) \in Nat /\ Cardinality(Unused(v.store)) \in Nat
  BY <1>3, FS_CardinalityType
<1>5. CASE v.store.decl = w.store.decl
  <2>1. Unused(v.store) = Unused(w.store)
    BY <1>5 DEF Unused
  <2>. QED BY <1>4, <2>1
<1>6. CASE d # NULL /\ \E e : Copied(w, v, up, n, ref, d, e)
  <2>1. PICK e : Copied(w, v, up, n, ref, d, e)
    BY <1>6
  <2>2. Unused(w.store) \ {e} \subseteq Unused(v.store) /\ e \in Unused(w.store)
    BY <2>1 DEF Copied, Unused
  <2>3. Cardinality(Unused(w.store) \ {e}) = Cardinality(Unused(w.store)) - 1
    BY <1>3, <2>2, FS_RemoveElement
  <2>4. Cardinality(Unused(w.store) \ {e}) <= Cardinality(Unused(v.store))
    BY <1>3, <2>2, FS_Subset
  <2>5. Loan(w.store, n, ref)
    BY <1>6, <2>1 DEF Loan, Copied
  <2>. QED BY <1>4, <2>3, <2>4, <2>5
<1>. QED BY <1>5, <1>6 DEF Taken, Stayed, Outcome

(* How many loans an element has *)
LEMMA LoansCounted ==
  ASSUME NEW st, NEW n
  PROVE  /\ IsFiniteSet(Loans(st, n)) /\ Cardinality(Loans(st, n)) \in Nat
         /\ Loan(st, n, "ns") \/ Loan(st, n, "attr") => Cardinality(Loans(st, n)) >= 1
         /\ Loan(st, n, "ns") /\ Loan(st, n, "attr") => Cardinality(Loans(st, n)) = 2
<1>0. Refs = {"ns"} \cup {"attr"} /\ "attr" \notin {"ns"}
  BY DEF Refs
<1>1. IsFiniteSet(Refs) /\ Cardinality(Refs) = 2 /\ Loans(st, n) \subseteq Refs
  <2>1. IsFiniteSet({"ns"}) /\ Cardinality({"ns"}) = 1
    BY FS_Singleton
  <2>2. IsFiniteSet(Refs) /\ Cardinality(Refs) = 1 + 1
    BY <1>0, <2>1, FS_AddElement
  <2>. QED BY <2>2 DEF Loans
<1>2. IsFiniteSet(Loans(st, n)) /\ Cardinality(Loans(st, n)) \in Nat
  BY <1>1, FS_Subset, FS_CardinalityType
<1>3. CASE Loan(st, n, "ns") /\ Loan(st, n, "attr")
  <2>1. Loans(st, n) = Refs
    BY <1>3 DEF Loans, Refs
  <2>. QED BY <1>1, <1>2, <2>1
<1>4. CASE (Loan(st, n, "ns") \/ Loan(st, n, "attr")) /\ ~ (Loan(st, n, "ns") /\ Loan(st, n, "attr"))
  <2>1. Loans(st, n) # {}
    BY <1>4 DEF Loans, Refs
  <2>2. Cardinality(Loans(st, n)) # 0
    BY <1>2, <2>1, FS_EmptySet
  <2>. QED BY <1>2, <1>4, <2>2
<1>. QED BY <1>2, <1>3, <1>4

(* What stands above n is not changed by a step at n. *)
LEMMA AboveStays ==
  ASSUME NEW st \in Names, NEW u \in Names, NEW up, Tree(up), NEW n \in Nodes, NEW ref \in Refs,
         Elsewhere(st, u, n, ref)
  PROVE  /\ \A a \in Above(up, up[n]) : u.def[a] = st.def[a] /\ u.ns[a] = st.ns[a]
         /\ \A x : Landed(u, up, up[n], x) => Landed(st, up, up[n], x)
         /\ u.decl = st.decl => \A d : Agrees(u, up, n, d) = Agrees(st, up, n, d)
<1>1. up[n] \in Ends /\ n \notin Above(up, up[n]) /\ Above(up, up[n]) \in SUBSET Nodes
  BY AboveFacts
<1>2. u.ns = u["ns"] /\ st.ns = st["ns"] /\ "ns" \in Refs
  BY StoreTypes DEF Refs
<1>3. \A a \in Above(up, up[n]) : u.def[a] = st.def[a] /\ u.ns[a] = st.ns[a]
  BY <1>1, <1>2 DEF Elsewhere
<1>4. \A x : Landed(u, up, up[n], x) => Landed(st, up, up[n], x)
  BY <1>3 DEF Landed
<1>5. ASSUME u.decl = st.decl, NEW d PROVE Agrees(u, up, n, d) = Agrees(st, up, n, d)
  <2>1. Outer(u, up, n, d) = Outer(st, up, n, d)
    <3>1. u.decl[d].prefix = st.decl[d].prefix
      BY <1>5
    <3>2. SearchNs(u, up, up[n], st.decl[d].prefix) = SearchNs(st, up, up[n], st.decl[d].prefix)
      BY <1>1, <1>3, <1>5, SearchAgrees
    <3>. QED BY <3>1, <3>2 DEF Outer
  <2>. QED BY <1>5, <2>1 DEF Agrees
<1>. QED BY <1>3, <1>4, <1>5

(* The names of n point to allocated declarations, and there is one left   *)
(* for each loan. *)
NodeVisit(w, l, up, n) ==
  /\ Placed(w.store, l, w.unused)
  /\ Tree(up)
  /\ n \in Nodes /\ n \in l
  /\ \A r \in Refs : w.store[r][n] # NULL => w.store.decl[w.store[r][n]] # NULL
  /\ Cardinality(Unused(w.store)) >= Cardinality(Loans(w.store, n))

(* Nothing changes but n. *)
Around(st, u, n) ==
  \A m \in Nodes \ {n} : u.def[m] = st.def[m] /\ \A r \in Refs : u[r][m] = st[r][m]

LEMMA NodeStep ==
  ASSUME NEW w, NEW l, NEW up, NEW n, NodeVisit(w, l, up, n),
         NEW v, v = ReconcileNode(w, up, n)
  PROVE  /\ Placed(v.store, l, v.unused)
         /\ Around(w.store, v.store, n)
         /\ Says(w.store, v.store)
         /\ Cardinality(Unused(v.store)) \in Nat /\ Cardinality(Unused(w.store)) \in Nat
         /\ Cardinality(Unused(v.store)) >= Cardinality(Unused(w.store)) - Cardinality(Loans(w.store, n))
         /\ \A r \in Refs : InOrder(v.store, w.store, up, n, r)
         /\ Pointing(w.store) => SameNames(w.store, v.store)
         /\ \E u : Stepping(w, u, l, up, n, "ns") /\ Stepping(u, v, l, up, n, "attr")
<1>. DEFINE w1 == ReconcileRef(w, up, n, "ns")
            d1 == w.store["ns"][n]
            d2 == w.store["attr"][n]
            k0 == Cardinality(Unused(w.store))
            k1 == Cardinality(Unused(w1.store))
            k2 == Cardinality(Unused(v.store))
            c  == Cardinality(Loans(w.store, n))
<1>1. /\ Placed(w.store, l, w.unused) /\ Tree(up) /\ n \in Nodes /\ n \in l /\ k0 >= c
      /\ w.store \in Names
  BY DEF NodeVisit, Placed
<1>2. /\ d1 # NULL => d1 \in Decls /\ w.store.decl[d1] # NULL
      /\ d2 # NULL => d2 \in Decls /\ w.store.decl[d2] # NULL
      /\ "ns" \in Refs /\ "attr" \in Refs /\ "ns" # "attr"
  BY <1>1, StoreTypes DEF NodeVisit, Refs
<1>3. v = ReconcileRef(w1, up, n, "attr")
  BY DEF ReconcileNode
<1>. HIDE DEF w1, d1, d2
<1>4. /\ c \in Nat
      /\ Loan(w.store, n, "ns") \/ Loan(w.store, n, "attr") => c >= 1
      /\ Loan(w.store, n, "ns") /\ Loan(w.store, n, "attr") => c = 2
  BY LoansCounted
<1>5. IsFiniteSet(Unused(w.store)) /\ k0 \in Nat
  <2>1. IsFiniteSet(Decls)
    BY NamesAssumption, FS_Interval DEF Decls
  <2>. QED BY <2>1, FS_Subset, FS_CardinalityType DEF Unused
<1>6. Affordable(w, up, n, d1)
  <2>. SUFFICES ASSUME d1 # NULL, d1 \notin Held(w.store, n) PROVE Unused(w.store) # {}
    BY DEF Affordable
  <2>1. Loan(w.store, n, "ns")
    BY DEF Loan, d1
  <2>2. k0 # 0
    BY <1>1, <1>4, <1>5, <2>1
  <2>. QED BY <2>2, FS_EmptySet
<1>7. Visiting(w, l, up, n, "ns", d1, w1)
  BY <1>1, <1>2 DEF Visiting, d1, w1
<1>8. /\ Placed(w1.store, l, w1.unused)
      /\ Elsewhere(w.store, w1.store, n, "ns")
      /\ Says(w.store, w1.store)
      /\ Outcome(w, w1, up, n, "ns", d1)
  BY <1>6, <1>7, RefStep
<1>9. w1.store \in Names /\ d2 = w1.store["attr"][n] /\ d1 = w.store["ns"][n]
  <2>1. w1.store["attr"][n] = w.store["attr"][n]
    BY <1>1, <1>2, <1>8 DEF Elsewhere
  <2>. QED BY <1>8, <2>1 DEF Placed, d2, d1
<1>10. /\ k1 \in Nat
       /\ \/ k1 >= k0
          \/ Loan(w.store, n, "ns") /\ k1 >= k0 - 1
  BY <1>8, <1>9, StepSpends
<1>11. /\ \A x : Landed(w1.store, up, up[n], x) => Landed(w.store, up, up[n], x)
       /\ w1.store.decl = w.store.decl => \A d : Agrees(w1.store, up, n, d) = Agrees(w.store, up, n, d)
  <2>1. PICK st \in Names, u \in Names : st = w.store /\ u = w1.store
    BY <1>1, <1>9
  <2>2. Elsewhere(st, u, n, "ns")
    BY <1>8, <2>1
  <2>3. /\ \A x : Landed(u, up, up[n], x) => Landed(st, up, up[n], x)
        /\ u.decl = st.decl => \A d : Agrees(u, up, n, d) = Agrees(st, up, n, d)
    BY <1>1, <1>2, <2>2, AboveStays
  <2>. QED BY <2>1, <2>3
<1>12. ASSUME d2 # NULL, ~ Agrees(w1.store, up, n, d2), d2 \notin Held(w1.store, n)
       PROVE  Loan(w.store, n, "attr")
  <2>. SUFFICES ASSUME d2 \in Held(w.store, n) PROVE FALSE
    BY <1>12 DEF Loan, d2
  <2>1. CASE d1 = NULL /\ w1 = w
    BY <1>12, <2>1
  <2>2. CASE Taken(w, w1, up, n, "ns", d1)
    <3>1. d2 = d1
      BY <1>12, <2>2 DEF Taken
    <3>. QED BY <1>11, <1>12, <2>2, <3>1 DEF Taken
  <2>3. CASE Stayed(w, w1, up, n, "ns", d1)
    BY <1>12, <2>3 DEF Stayed
  <2>4. CASE \E e : Copied(w, w1, up, n, "ns", d1, e)
    BY <1>12, <2>4 DEF Copied
  <2>. QED BY <1>8, <2>1, <2>2, <2>3, <2>4 DEF Outcome
<1>13. Affordable(w1, up, n, d2)
  <2>. SUFFICES ASSUME d2 # NULL, ~ Agrees(w1.store, up, n, d2), d2 \notin Held(w1.store, n)
                PROVE  Unused(w1.store) # {}
    BY DEF Affordable
  <2>1. Loan(w.store, n, "attr")
    BY <1>12
  <2>2. k1 # 0
    BY <1>1, <1>4, <1>5, <1>10, <2>1
  <2>. QED BY <2>2, FS_EmptySet
<1>14. Visiting(w1, l, up, n, "attr", d2, v)
  <2>1. d2 # NULL => d2 \in Decls /\ w1.store.decl[d2] # NULL
    BY <1>2, <1>8 DEF Says
  <2>. QED BY <1>1, <1>2, <1>3, <1>8, <1>9, <2>1 DEF Visiting
<1>15. /\ Placed(v.store, l, v.unused)
       /\ Elsewhere(w1.store, v.store, n, "attr")
       /\ Says(w1.store, v.store)
       /\ Outcome(w1, v, up, n, "attr", d2)
  BY <1>13, <1>14, RefStep
<1>16. /\ k2 \in Nat
       /\ \/ k2 >= k1
          \/ Loan(w1.store, n, "attr") /\ k2 >= k1 - 1
  BY <1>9, <1>15, StepSpends
<1>17. k2 >= k1 \/ (Loan(w.store, n, "attr") /\ k2 >= k1 - 1)
  <2>1. CASE v.store.decl = w1.store.decl
    <3>1. Unused(v.store) = Unused(w1.store)
      BY <2>1 DEF Unused
    <3>. QED BY <1>10, <3>1
  <2>2. CASE d2 # NULL /\ \E e : Copied(w1, v, up, n, "attr", d2, e)
    <3>1. Loan(w.store, n, "attr")
      BY <1>12, <2>2 DEF Copied
    <3>. QED BY <1>10, <1>16, <3>1
  <2>. QED BY <1>15, <2>1, <2>2 DEF Outcome, Taken, Stayed
<1>18. k2 >= k0 - c
  BY <1>4, <1>5, <1>10, <1>16, <1>17
<1>19. Around(w.store, v.store, n)
  BY <1>8, <1>15 DEF Around, Elsewhere
<1>20. Says(w.store, v.store)
  BY <1>8, <1>15 DEF Says
<1>21. InOrder(v.store, w.store, up, n, "attr")
  <2>1. CASE d2 = NULL /\ v = w1
    BY <1>9, <2>1 DEF InOrder
  <2>2. CASE Taken(w1, v, up, n, "attr", d2)
    BY <1>11, <2>2 DEF InOrder, Taken
  <2>3. CASE Stayed(w1, v, up, n, "attr", d2)
    BY <2>3 DEF InOrder, Stayed
  <2>4. CASE \E e : Copied(w1, v, up, n, "attr", d2, e)
    BY <2>4 DEF InOrder, Copied
  <2>. QED BY <1>15, <2>1, <2>2, <2>3, <2>4 DEF Outcome
<1>22. v.store["ns"][n] = w1.store["ns"][n]
  BY <1>1, <1>2, <1>15 DEF Elsewhere
<1>23. ASSUME w1.store["ns"][n] \in Held(w1.store, n), w1.store["ns"][n] # d2 \/ ~ Agrees(w1.store, up, n, d2)
       PROVE  InOrder(v.store, w.store, up, n, "ns")
  <2>1. w1.store["ns"][n] \in Held(v.store, n)
    BY <1>15, <1>23 DEF Outcome, Taken, Stayed, Copied
  <2>. QED BY <1>22, <2>1 DEF InOrder
<1>24. InOrder(v.store, w.store, up, n, "ns")
  <2>1. CASE d1 = NULL /\ w1 = w
    BY <1>9, <1>22, <2>1 DEF InOrder
  <2>2. CASE Taken(w, w1, up, n, "ns", d1)
    BY <1>22, <2>2 DEF InOrder, Taken
  <2>3. CASE Stayed(w, w1, up, n, "ns", d1)
    <3>1. w1.store["ns"][n] = d1 /\ d1 \in Held(w1.store, n)
      BY <2>3 DEF Stayed
    <3>2. ~ Agrees(w1.store, up, n, d1)
      BY <1>11, <2>3 DEF Stayed
    <3>. QED BY <1>23, <3>1, <3>2
  <2>4. CASE \E e : Copied(w, w1, up, n, "ns", d1, e)
    <3>1. PICK e : Copied(w, w1, up, n, "ns", d1, e)
      BY <2>4
    <3>2. w1.store["ns"][n] = e /\ e \in Held(w1.store, n) /\ w.store.decl[e] = NULL /\ e \in Decls
      BY <3>1 DEF Copied
    <3>3. e # d2
      BY <1>1, <1>2, <3>2, StoreTypes
    <3>. QED BY <1>23, <3>2, <3>3
  <2>. QED BY <1>8, <2>1, <2>2, <2>3, <2>4 DEF Outcome
<1>25. \A r \in Refs : InOrder(v.store, w.store, up, n, r)
  BY <1>21, <1>24 DEF Refs
<1>27. Stepping(w, w1, l, up, n, "ns") /\ Stepping(w1, v, l, up, n, "attr")
  BY <1>1, <1>8, <1>9, <1>15 DEF Stepping
<1>26. Pointing(w.store) => SameNames(w.store, v.store)
  <2>. SUFFICES ASSUME Pointing(w.store) PROVE SameNames(w.store, v.store)
    OBVIOUS
  <2>1. SameNames(w.store, w1.store)
    BY <1>1, <1>2, <1>27, RefSays
  <2>2. Pointing(w1.store)
    BY <2>1, SameNamesPointing
  <2>3. SameNames(w1.store, v.store)
    BY <1>1, <1>2, <1>27, <2>2, RefSays
  <2>. QED BY <2>1, <2>3, SameNamesCompose
<1>. QED BY <1>5, <1>15, <1>16, <1>18, <1>19, <1>20, <1>25, <1>26, <1>27

-----------------------------------------------------------------------------
(* What a reader makes of the names.                                       *)

(* No declaration of n for the prefix of name says another name. *)
OwnSays(st, n, name) ==
  \A d \in ToSet(st.def[n]) : Matches(st, d, name.prefix) => st.decl[d] = name

(* Who reads a name at n reads no other one for its prefix, *)
LEMMA ReadsOne ==
  ASSUME NEW st, NEW up, Tree(up), NEW n \in Ends, NEW x, NEW y,
         Reads(st, up, n, x), Reads(st, up, n, y), x.prefix = y.prefix
  PROVE  x = y
<1>1. PICK a \in Above(up, n) :
        /\ Binds(st, a, x.prefix) /\ OwnSays(st, a, x)
        /\ \A b \in Above(up, n) : Binds(st, b, x.prefix) => b \in Above(up, a)
  BY DEF Reads, OwnSays
<1>2. PICK c \in Above(up, n) :
        /\ Binds(st, c, y.prefix) /\ OwnSays(st, c, y)
        /\ \A b \in Above(up, n) : Binds(st, b, y.prefix) => b \in Above(up, c)
  BY DEF Reads, OwnSays
<1>3. a \in Above(up, c) /\ c \in Above(up, a)
  BY <1>1, <1>2
<1>4. a = c
  BY <1>3, AbovePath
<1>. QED BY <1>1, <1>2, <1>4 DEF Binds, OwnSays

(* and n declares no other. *)
LEMMA ReadsOwn ==
  ASSUME NEW st, NEW up, Tree(up), NEW n \in Nodes, NEW x, Reads(st, up, n, x)
  PROVE  OwnSays(st, n, x) /\ x.href # NULL
<1>1. PICK a \in Above(up, n) :
        /\ Binds(st, a, x.prefix) /\ OwnSays(st, a, x)
        /\ \A b \in Above(up, n) : Binds(st, b, x.prefix) => b \in Above(up, a)
  BY DEF Reads, OwnSays
<1>2. n \in Ends /\ n \in Above(up, n)
  BY AboveFacts DEF Ends
<1>3. ASSUME Binds(st, n, x.prefix) PROVE a = n
  <2>1. n \in Above(up, a)
    BY <1>1, <1>2, <1>3
  <2>. QED BY <1>1, <1>2, <2>1, AbovePath
<1>4. x.href # NULL
  BY <1>1 DEF Binds, OwnSays, Matches
<1>5. OwnSays(st, n, x)
  <2>. SUFFICES ASSUME NEW d \in ToSet(st.def[n]), Matches(st, d, x.prefix) PROVE st.decl[d] = x
    BY DEF OwnSays
  <2>1. a = n
    BY <1>3 DEF Binds
  <2>. QED BY <1>1, <2>1 DEF OwnSays
<1>. QED BY <1>4, <1>5

(* What n declares, or else what is read above it, is read at n. *)
LEMMA ReadsHere ==
  ASSUME NEW st, NEW up, Tree(up), NEW n \in Nodes, NEW x, OwnSays(st, n, x),
         Binds(st, n, x.prefix) \/ Reads(st, up, up[n], x)
  PROVE  Reads(st, up, n, x)
<1>1. Above(up, n) = {n} \cup Above(up, up[n])
  BY AboveFacts
<1>2. CASE Binds(st, n, x.prefix)
  BY <1>1, <1>2 DEF Reads, OwnSays
<1>3. CASE ~ Binds(st, n, x.prefix) /\ Reads(st, up, up[n], x)
  BY <1>1, <1>3 DEF Reads
<1>. QED BY <1>2, <1>3

(* Where the names are readable a search finds what a reader reads. *)
LEMMA SearchReads ==
  ASSUME NEW st \in Names, NEW up, Tree(up), NEW n \in Ends, NEW prefix,
         \A a \in Above(up, n) : Readable(st, up, a),
         NEW r, r = SearchNs(st, up, n, prefix), r # NULL
  PROVE  Reads(st, up, n, st.decl[r])
<1>1. PICK a \in Above(up, n) : /\ r \in ToSet(st.def[a]) \/ r = st.ns[a]
                                /\ Nearest(st, up, n, prefix, a)
  BY SearchLands
<1>2. Matches(st, r, prefix)
  BY SearchLands
<1>3. a \in Nodes /\ a \in Ends /\ a \in Above(up, a)
  BY <1>1, AboveFacts DEF Ends
<1>4. st.decl[r].prefix = prefix /\ st.decl[r].href # NULL
  BY <1>2 DEF Matches
<1>5. CASE r \in ToSet(st.def[a])
  <2>1. Readable(st, up, a)
    BY <1>1
  <2>2. \A d \in ToSet(st.def[a]) : Matches(st, d, prefix) => st.decl[d] = st.decl[r]
    BY <1>4, <1>5, <2>1 DEF Readable
  <2>3. Binds(st, a, prefix)
    BY <1>2, <1>5 DEF Binds
  <2>. QED BY <1>1, <1>4, <2>2, <2>3 DEF Reads, Nearest
<1>6. CASE r = st.ns[a]
  <2>1. st["ns"][a] = r /\ "ns" \in Refs
    BY <1>6, StoreTypes DEF Refs
  <2>2. Reads(st, up, a, st.decl[r])
    BY <1>1, <2>1 DEF Readable
  <2>3. PICK c \in Above(up, a) :
          /\ Binds(st, c, prefix)
          /\ \A d \in ToSet(st.def[c]) : Matches(st, d, prefix) => st.decl[d] = st.decl[r]
          /\ \A b \in Above(up, a) : Binds(st, b, prefix) => b \in Above(up, c)
    BY <1>4, <2>2 DEF Reads
  <2>4. c \in Above(up, n)
    BY <1>1, <2>3, AbovePath
  <2>5. \A b \in Above(up, n) : Binds(st, b, prefix) => b \in Above(up, c)
    BY <1>1, <2>3 DEF Nearest
  <2>. QED BY <1>4, <2>3, <2>4, <2>5 DEF Reads
<1>. QED BY <1>1, <1>5, <1>6

(* A reading depends on the lists of the elements from n upwards, *)
SameList(st, u, a) == u.def[a] = st.def[a] /\ \A d \in ToSet(st.def[a]) : u.decl[d] = st.decl[d]

LEMMA ReadsStays ==
  ASSUME NEW st, NEW u, NEW up, NEW n, NEW x, \A a \in Above(up, n) : SameList(st, u, a),
         Reads(st, up, n, x)
  PROVE  Reads(u, up, n, x)
<1>1. PICK a \in Above(up, n) :
        /\ Binds(st, a, x.prefix)
        /\ \A d \in ToSet(st.def[a]) : Matches(st, d, x.prefix) => st.decl[d] = x
        /\ \A b \in Above(up, n) : Binds(st, b, x.prefix) => b \in Above(up, a)
  BY DEF Reads
<1>2. \A b \in Above(up, n) : Binds(u, b, x.prefix) <=> Binds(st, b, x.prefix)
  BY DEF Binds, Matches, SameList
<1>3. \A d \in ToSet(u.def[a]) : Matches(u, d, x.prefix) => u.decl[d] = x
  BY <1>1 DEF SameList, Matches
<1>. QED BY <1>1, <1>2, <1>3 DEF Reads

(* and whether names are readable on their pointers too. *)
SameRefs(st, u, n) ==
  \A r \in Refs : /\ u[r][n] = st[r][n]
                  /\ st[r][n] # NULL => u.decl[st[r][n]] = st.decl[st[r][n]]

LEMMA ReadableStays ==
  ASSUME NEW st, NEW u, NEW up, Tree(up), NEW n \in Nodes, \A a \in Above(up, n) : SameList(st, u, a),
         SameRefs(st, u, n), Readable(st, up, n)
  PROVE  Readable(u, up, n)
<1>1. ASSUME NEW r \in Refs, u[r][n] # NULL PROVE Reads(u, up, n, u.decl[u[r][n]])
  <2>1. u[r][n] = st[r][n] /\ u.decl[st[r][n]] = st.decl[st[r][n]]
    BY <1>1 DEF SameRefs
  <2>2. Reads(st, up, n, st.decl[st[r][n]])
    BY <1>1, <2>1 DEF Readable
  <2>. QED BY <2>1, <2>2, ReadsStays
<1>2. SameList(st, u, n)
  BY AboveFacts
<1>. QED BY <1>1, <1>2 DEF Readable, SameList, Matches

(* The elements above n may be at another place in the forest. *)
LEMMA ReadableMoved ==
  ASSUME NEW st, NEW up, Tree(up), NEW v, Tree(v), NEW n \in Nodes,
         \A a \in Above(up, n) : Above(v, a) = Above(up, a), Readable(st, up, n)
  PROVE  Readable(st, v, n)
<1>1. Above(v, n) = Above(up, n)
  BY AboveFacts
<1>2. \A x : Reads(st, up, n, x) => Reads(st, v, n, x)
  BY <1>1 DEF Reads
<1>. QED BY <1>2 DEF Readable

(* The names of the pointers of n *)
NamesOf(st, n) == {st.decl[st[r][n]] : r \in {q \in Refs : st[q][n] # NULL}}

(* n declares no prefix for two names, of its own ones or of those in X. *)
Ordered(st, n, X) ==
  /\ \A x \in X : OwnSays(st, n, x) /\ x.href # NULL
  /\ \A x, y \in X : x.prefix = y.prefix => x = y
  /\ \A d, e \in ToSet(st.def[n]) :
       st.decl[d].href # NULL /\ Matches(st, e, st.decl[d].prefix) => st.decl[d] = st.decl[e]

LEMMA ReadableOrdered ==
  ASSUME NEW st, NEW up, Tree(up), NEW n \in Nodes, Readable(st, up, n)
  PROVE  Ordered(st, n, NamesOf(st, n))
<1>1. n \in Ends
  BY DEF Ends
<1>2. \A x \in NamesOf(st, n) : Reads(st, up, n, x)
  BY DEF NamesOf, Readable
<1>3. \A x \in NamesOf(st, n) : OwnSays(st, n, x) /\ x.href # NULL
  BY <1>2, ReadsOwn
<1>4. \A x, y \in NamesOf(st, n) : x.prefix = y.prefix => x = y
  BY <1>1, <1>2, ReadsOne
<1>. QED BY <1>3, <1>4 DEF Ordered, Readable

(* A pointer is to a declaration of n, or says what is read above. *)
Backed(st, up, n, r) ==
  st[r][n] # NULL => st[r][n] \in Held(st, n) \/ Reads(st, up, up[n], st.decl[st[r][n]])

LEMMA BackedReadable ==
  ASSUME NEW st, NEW up, Tree(up), NEW n \in Nodes, Ordered(st, n, NamesOf(st, n)),
         \A r \in Refs : Backed(st, up, n, r)
  PROVE  Readable(st, up, n)
<1>1. ASSUME NEW r \in Refs, st[r][n] # NULL PROVE Reads(st, up, n, st.decl[st[r][n]])
  <2>. DEFINE x == st.decl[st[r][n]]
  <2>1. x \in NamesOf(st, n)
    BY <1>1 DEF NamesOf
  <2>2. OwnSays(st, n, x) /\ x.href # NULL
    BY <2>1 DEF Ordered
  <2>3. Binds(st, n, x.prefix) \/ Reads(st, up, up[n], x)
    <3>1. CASE st[r][n] \in Held(st, n)
      BY <2>2, <3>1 DEF Binds, Held, Matches
    <3>. QED BY <1>1, <3>1 DEF Backed
  <2>. QED BY <2>2, <2>3, ReadsHere
<1>. QED BY <1>1 DEF Readable, Ordered

(* Where lists and pointers stay, what they say stays. *)
LEMMA SaysSame ==
  ASSUME NEW st, NEW l, NEW U, Placed(st, l, U), Pointing(st), NEW u, Says(st, u), NEW n \in Nodes,
         u.def[n] = st.def[n], \A r \in Refs : u[r][n] = st[r][n]
  PROVE  SameList(st, u, n) /\ SameRefs(st, u, n)
<1>1. \A d \in Held(st, n) : d \in Decls /\ st.decl[d] # NULL
  BY StoreTypes DEF Placed
<1>2. \A r \in Refs : st[r][n] # NULL => st[r][n] \in Decls /\ st.decl[st[r][n]] # NULL
  BY StoreTypes DEF Pointing, Placed
<1>. QED BY <1>1, <1>2 DEF SameList, SameRefs, Says, Held

LEMMA OrderedStays ==
  ASSUME NEW st, NEW u, NEW n, SameList(st, u, n), SameRefs(st, u, n),
         Ordered(st, n, NamesOf(st, n))
  PROVE  Ordered(u, n, NamesOf(u, n))
<1>1. NamesOf(u, n) = NamesOf(st, n)
  BY DEF NamesOf, SameRefs
<1>. QED BY <1>1 DEF Ordered, OwnSays, SameList, Matches

(* What a step at n changes is not above n. *)
LEMMA StepAlike ==
  ASSUME NEW w, NEW v, NEW l, NEW up, Tree(up), NEW n \in Nodes, NEW ref \in Refs,
         Stepping(w, v, l, up, n, ref), Pointing(w.store)
  PROVE  \A a \in Above(up, up[n]) :
           /\ a \in Nodes /\ SameRefs(w.store, v.store, a)
           /\ \A b \in Above(up, a) : SameList(w.store, v.store, b)
<1>1. up[n] \in Ends /\ n \notin Above(up, up[n]) /\ Above(up, up[n]) \in SUBSET Nodes
  BY AboveFacts
<1>2. /\ Placed(w.store, l, w.unused) /\ w.store \in Names
      /\ Elsewhere(w.store, v.store, n, ref) /\ Says(w.store, v.store)
  BY DEF Stepping, Placed
<1>3. ASSUME NEW b \in Nodes \ {n}
      PROVE  SameList(w.store, v.store, b) /\ SameRefs(w.store, v.store, b)
  <2>1. v.store.def[b] = w.store.def[b] /\ \A r \in Refs : v.store[r][b] = w.store[r][b]
    BY <1>2 DEF Elsewhere
  <2>. QED BY <1>2, <2>1, SaysSame
<1>5. ASSUME NEW a \in Above(up, up[n]) PROVE Above(up, a) \subseteq Above(up, up[n])
  BY <1>1, AbovePath
<1>. QED BY <1>1, <1>3, <1>5

(* A step keeps the declarations of n ordered, and backs its pointer. *)
LEMMA RefReads ==
  ASSUME NEW w, NEW v, NEW l, NEW up, Tree(up), NEW n \in Nodes, NEW ref \in Refs,
         Stepping(w, v, l, up, n, ref), Pointing(w.store),
         \A a \in Above(up, up[n]) : Readable(w.store, up, a),
         NEW X, Ordered(w.store, n, X), NamesOf(w.store, n) \subseteq X
  PROVE  /\ Ordered(v.store, n, X)
         /\ \A a \in Above(up, up[n]) : Readable(v.store, up, a)
         /\ Backed(v.store, up, n, ref)
         /\ \A r \in Refs \ {ref} : Backed(w.store, up, n, r) => Backed(v.store, up, n, r)
<1>. DEFINE st == w.store
            u  == v.store
            d  == w.store[ref][n]
            q  == up[n]
<1>1. /\ Placed(st, l, w.unused) /\ Placed(u, l, v.unused) /\ st \in Names /\ u \in Names
      /\ Elsewhere(st, u, n, ref) /\ Says(st, u) /\ Outcome(w, v, up, n, ref, d)
  BY DEF Stepping, Placed
<1>2. q \in Ends /\ Above(up, q) \in SUBSET Nodes
  BY AboveFacts
<1>3. \A a \in Above(up, q) :
        a \in Nodes /\ SameRefs(st, u, a) /\ \A b \in Above(up, a) : SameList(st, u, b)
  BY StepAlike
<1>4. \A a \in Above(up, q) : Readable(u, up, a)
  BY <1>3, ReadableStays
<1>5. ASSUME NEW x, Reads(st, up, q, x) PROVE Reads(u, up, q, x)
  <2>1. \A a \in Above(up, q) : SameList(st, u, a)
    BY <1>3, AboveFacts
  <2>. QED BY <1>5, <2>1, ReadsStays
<1>6. SameNames(st, u)
  BY RefSays
<1>7. d # NULL => u[ref][n] # NULL /\ u.decl[u[ref][n]] = st.decl[d] /\ st.decl[d] \in X
  BY <1>6 DEF SameNames, SameName, NamesOf
<1>8. \A c \in Held(st, n) : c \in Decls /\ u.decl[c] = st.decl[c]
  BY <1>1, StoreTypes DEF Placed, Says
<1>9. ASSUME d # NULL, Taken(w, v, up, n, ref, d)
      PROVE  Reads(st, up, q, st.decl[d])
  <2>. DEFINE o == u[ref][n]
  <2>1. o = SearchNs(st, up, q, st.decl[d].prefix) /\ o # NULL /\ u.decl = st.decl
    BY <1>9 DEF Taken, Outer, Agrees
  <2>2. Reads(st, up, q, st.decl[o])
    <3>. HIDE DEF o, st, q
    <3>. QED BY <1>1, <1>2, <2>1, SearchReads DEF st, q
  <2>. QED BY <1>7, <1>9, <2>1, <2>2
<1>. HIDE DEF st, u, d, q
<1>10. \A c \in Held(u, n) : \/ c \in Held(st, n) /\ u.decl[c] = st.decl[c]
                             \/ u.decl[c] \in X
  <2>1. CASE Held(u, n) \subseteq Held(st, n)
    BY <1>8, <2>1
  <2>2. CASE d # NULL /\ \E e : Copied(w, v, up, n, ref, d, e)
    BY <1>7, <1>8, <2>2 DEF Copied, st, u
  <2>3. CASE d = NULL /\ v = w
    BY <1>8, <2>3 DEF st, u
  <2>. QED BY <1>1, <2>1, <2>2, <2>3 DEF Outcome, Taken, Stayed, st, u
<1>11. Ordered(u, n, X)
  <2>1. /\ \A x \in X : OwnSays(st, n, x) /\ x.href # NULL
        /\ \A x, y \in X : x.prefix = y.prefix => x = y
        /\ \A c, e \in Held(st, n) :
             st.decl[c].href # NULL /\ Matches(st, e, st.decl[c].prefix) => st.decl[c] = st.decl[e]
    BY DEF Ordered, Held, st
  <2>2. ASSUME NEW x \in X PROVE OwnSays(u, n, x)
    <3>. SUFFICES ASSUME NEW c \in Held(u, n), Matches(u, c, x.prefix) PROVE u.decl[c] = x
      BY DEF OwnSays, Held
    <3>1. CASE c \in Held(st, n) /\ u.decl[c] = st.decl[c]
      <4>1. c \in ToSet(st.def[n]) /\ Matches(st, c, x.prefix)
        BY <3>1 DEF Held, Matches
      <4>. QED BY <2>1, <3>1, <4>1 DEF OwnSays
    <3>2. CASE u.decl[c] \in X
      BY <2>1, <3>2 DEF Matches
    <3>. QED BY <1>10, <3>1, <3>2
  <2>3. ASSUME NEW c \in Held(u, n), NEW e \in Held(u, n), u.decl[c].href # NULL,
               Matches(u, e, u.decl[c].prefix)
        PROVE  u.decl[c] = u.decl[e]
    <3>1. CASE u.decl[c] \in X
      BY <2>2, <2>3, <3>1 DEF OwnSays, Held
    <3>2. CASE u.decl[e] \in X
      <4>1. Matches(u, c, u.decl[e].prefix)
        BY <2>3 DEF Matches
      <4>. QED BY <2>2, <3>2, <4>1 DEF OwnSays, Held
    <3>3. CASE /\ c \in Held(st, n) /\ u.decl[c] = st.decl[c]
               /\ e \in Held(st, n) /\ u.decl[e] = st.decl[e]
      BY <2>1, <2>3, <3>3 DEF Matches
    <3>. QED BY <1>10, <3>1, <3>2, <3>3
  <2>. QED BY <2>1, <2>2, <2>3 DEF Ordered, Held
<1>12. Backed(u, up, n, ref)
  <2>1. CASE d = NULL /\ v = w
    BY <2>1 DEF Backed, u, st, d
  <2>2. CASE d # NULL /\ Taken(w, v, up, n, ref, d)
    BY <1>5, <1>7, <1>9, <2>2 DEF Backed, q
  <2>3. CASE d # NULL /\ Stayed(w, v, up, n, ref, d)
    BY <2>3 DEF Backed, Stayed, u
  <2>4. CASE d # NULL /\ \E e : Copied(w, v, up, n, ref, d, e)
    BY <2>4 DEF Backed, Copied, u
  <2>. QED BY <1>1, <2>1, <2>2, <2>3, <2>4 DEF Outcome
<1>13. ASSUME NEW r \in Refs \ {ref}, Backed(st, up, n, r) PROVE Backed(u, up, n, r)
  <2>. SUFFICES ASSUME u[r][n] # NULL
                PROVE  u[r][n] \in Held(u, n) \/ Reads(u, up, q, u.decl[u[r][n]])
    BY DEF Backed, q
  <2>1. u[r][n] = st[r][n] /\ u.decl[u[r][n]] = st.decl[st[r][n]]
    BY <1>1, <1>6 DEF Elsewhere, SameNames, SameName
  <2>2. CASE Reads(st, up, q, st.decl[st[r][n]])
    BY <1>5, <2>1, <2>2
  <2>3. CASE st[r][n] \in Held(st, n)
    <3>1. CASE d = NULL /\ v = w
      BY <2>1, <2>3, <3>1 DEF u, st
    <3>2. CASE d # NULL /\ Taken(w, v, up, n, ref, d)
      <4>1. CASE st[r][n] = d
        BY <1>5, <1>9, <2>1, <3>2, <4>1
      <4>2. CASE st[r][n] # d
        BY <2>1, <2>3, <3>2, <4>2 DEF Taken, u, st
      <4>. QED BY <4>1, <4>2
    <3>3. CASE d # NULL /\ Stayed(w, v, up, n, ref, d)
      BY <2>1, <2>3, <3>3 DEF Stayed, u, st
    <3>4. CASE d # NULL /\ \E e : Copied(w, v, up, n, ref, d, e)
      BY <2>1, <2>3, <3>4 DEF Copied, u, st
    <3>. QED BY <1>1, <3>1, <3>2, <3>3, <3>4 DEF Outcome
  <2>. QED BY <1>13, <2>1, <2>2, <2>3 DEF Backed, q
<1>. QED BY <1>4, <1>11, <1>12, <1>13 DEF st, u, q

(* The names of n are readable when its pointers are reconciled. *)
LEMMA NodeReads ==
  ASSUME NEW w, NEW v, NEW l, NEW up, Tree(up), NEW n \in Nodes, Pointing(w.store),
         \E u : Stepping(w, u, l, up, n, "ns") /\ Stepping(u, v, l, up, n, "attr"),
         \A a \in Above(up, up[n]) : Readable(w.store, up, a),
         Ordered(w.store, n, NamesOf(w.store, n))
  PROVE  Readable(v.store, up, n)
<1>1. PICK u : Stepping(w, u, l, up, n, "ns") /\ Stepping(u, v, l, up, n, "attr")
  OBVIOUS
<1>2. "ns" \in Refs /\ "attr" \in Refs /\ Refs \ {"ns"} = {"attr"} /\ Refs \ {"attr"} = {"ns"}
  BY DEF Refs
<1>. DEFINE X == NamesOf(w.store, n)
<1>3. SameNames(w.store, u.store) /\ Pointing(u.store)
  BY <1>1, <1>2, RefSays, SameNamesPointing
<1>4. SameNames(u.store, v.store)
  BY <1>1, <1>2, <1>3, RefSays
<1>5. NamesOf(u.store, n) = X /\ NamesOf(v.store, n) = X
  BY <1>3, <1>4 DEF NamesOf, SameNames, SameName
<1>. HIDE DEF X
<1>6. /\ Ordered(u.store, n, X)
      /\ \A a \in Above(up, up[n]) : Readable(u.store, up, a)
      /\ Backed(u.store, up, n, "ns")
  <2>1. Ordered(w.store, n, X) /\ NamesOf(w.store, n) \subseteq X
    BY DEF X
  <2>. QED BY <1>1, <1>2, <2>1, RefReads
<1>7. /\ Ordered(v.store, n, X)
      /\ Backed(v.store, up, n, "attr") /\ Backed(v.store, up, n, "ns")
  BY <1>1, <1>2, <1>3, <1>5, <1>6, RefReads
<1>8. \A r \in Refs : Backed(v.store, up, n, r)
  BY <1>7 DEF Refs
<1>. QED BY <1>5, <1>7, <1>8, BackedReadable

-----------------------------------------------------------------------------
(* A subtree is reconciled.                                                *)

(* A pointer is to a declaration of its element or of one above. *)
Scoped(st, up, m, r) ==
  st[r][m] # NULL => \E a \in Above(up, m) : st[r][m] \in Held(st, a)

(* The pointers of S that leave their element *)
LoansOf(st, S) == {p \in S \X Refs : Loan(st, p[1], p[2])}

(* Before: the elements T of a subtree are to be visited, every pointer is *)
(* to an allocated declaration, and outside T to one in scope. *)
Unreconciled(st, l, up, T) ==
  /\ Placed(st, l, {})
  /\ Tree(up)
  /\ T \subseteq Nodes /\ T \subseteq l
  /\ \A m \in T, r \in Refs : st[r][m] # NULL => st.decl[st[r][m]] # NULL
  /\ \A m \in Nodes \ T : Above(up, m) \cap T = {} /\ \A r \in Refs : Scoped(st, up, m, r)
  /\ Cardinality(Unused(st)) >= Cardinality(LoansOf(st, T))

(* The elements of T have their declarations in order, and those above     *)
(* them are readable. *)
Tidy(st, up, T) ==
  \A m \in T : /\ Ordered(st, m, NamesOf(st, m))
              /\ \A a \in Above(up, m) \ T : Readable(st, up, a)

(* The elements of s have been visited. *)
Visited(st, l, up, T, w, s) ==
  /\ Placed(w.store, l, w.unused)
  /\ \A m \in Nodes \ s : w.store.def[m] = st.def[m] /\ \A r \in Refs : w.store[r][m] = st[r][m]
  /\ Says(st, w.store)
  /\ SameNames(st, w.store)
  /\ Cardinality(Unused(w.store)) >= Cardinality(LoansOf(st, T \ s))
  /\ (\A m \in s : Above(up, m) \cap T \subseteq s) => \A m \in s, r \in Refs : Scoped(w.store, up, m, r)
  /\ Tidy(st, up, T) /\ (\A m \in s : Above(up, m) \cap T \subseteq s) =>
       \A m \in s : Readable(w.store, up, m)

LEMMA UnreconciledPointing ==
  ASSUME NEW st, NEW l, NEW up, NEW T, Unreconciled(st, l, up, T)
  PROVE  Pointing(st)
<1>. SUFFICES ASSUME NEW m \in Nodes, NEW r \in Refs, st[r][m] # NULL
              PROVE  st.decl[st[r][m]] # NULL
  BY DEF Pointing
<1>1. CASE m \in T
  BY <1>1 DEF Unreconciled
<1>2. CASE m \notin T
  <2>1. Above(up, m) \in SUBSET Nodes
    BY AboveFacts DEF Unreconciled, Ends
  <2>2. PICK a \in Above(up, m) : st[r][m] \in Held(st, a)
    BY <1>2 DEF Unreconciled, Scoped
  <2>. QED BY <2>1, <2>2 DEF Unreconciled, Placed
<1>. QED BY <1>1, <1>2

(* The loans of one more element *)
LEMMA LoansOfMore ==
  ASSUME NEW st, NEW S \in SUBSET Nodes, NEW x \in Nodes, x \notin S
  PROVE  /\ Cardinality(LoansOf(st, S)) \in Nat
         /\ Cardinality(LoansOf(st, S \cup {x})) =
              Cardinality(LoansOf(st, S)) + Cardinality(Loans(st, x))
<1>. DEFINE A == LoansOf(st, S)
            B == {x} \X Loans(st, x)
<1>1. IsFiniteSet(S) /\ IsFiniteSet(Refs)
  <2>1. Refs = {"ns"} \cup {"attr"}
    BY DEF Refs
  <2>2. IsFiniteSet(Refs)
    BY <2>1, FS_Singleton, FS_AddElement
  <2>. QED BY <2>2, NamesAssumption, FS_Subset
<1>2. IsFiniteSet(S \X Refs)
  BY <1>1, FS_Product
<1>3. A \subseteq S \X Refs
  BY DEF LoansOf
<1>4. IsFiniteSet(A) /\ Cardinality(A) \in Nat
  BY <1>2, <1>3, FS_Subset, FS_CardinalityType
<1>5. IsFiniteSet(Loans(st, x)) /\ Cardinality(Loans(st, x)) \in Nat
  BY LoansCounted
<1>6. IsFiniteSet(B) /\ Cardinality(B) = Cardinality(Loans(st, x))
  <2>1. IsFiniteSet({x}) /\ Cardinality({x}) = 1
    BY FS_Singleton
  <2>2. IsFiniteSet(B) /\ Cardinality(B) = Cardinality({x}) * Cardinality(Loans(st, x))
    BY <1>5, <2>1, FS_Product
  <2>. QED BY <1>5, <2>1, <2>2
<1>7. LoansOf(st, S \cup {x}) = A \cup B
  BY DEF LoansOf, Loans
<1>8. A \cap B = {}
  BY DEF LoansOf
<1>9. Cardinality(A \cup B) = Cardinality(A) + Cardinality(B) - Cardinality(A \cap B)
  BY <1>4, <1>6, FS_Union
<1>10. Cardinality(A \cap B) = 0
  BY <1>8, FS_EmptySet
<1>. HIDE DEF A, B
<1>11. Cardinality(A \cup B) = Cardinality(A) + Cardinality(Loans(st, x))
  BY <1>4, <1>5, <1>6, <1>9, <1>10
<1>. QED BY <1>4, <1>7, <1>11 DEF A

(* One more element is visited. *)
LEMMA VisitOne ==
  ASSUME NEW st, NEW l, NEW up, NEW T, Unreconciled(st, l, up, T),
         NEW s \in SUBSET T, s # {}, NEW x, x = Lowest(up, s),
         NEW w, Visited(st, l, up, T, w, s \ {x}), NEW v, v = ReconcileNode(w, up, x)
  PROVE  x \in s /\ Visited(st, l, up, T, v, s)
<1>1. /\ Placed(st, l, {}) /\ Tree(up) /\ T \subseteq Nodes /\ T \subseteq l
      /\ \A m \in T, r \in Refs : st[r][m] # NULL => st.decl[st[r][m]] # NULL
      /\ \A m \in Nodes \ T : Above(up, m) \cap T = {} /\ \A r \in Refs : Scoped(st, up, m, r)
  BY DEF Unreconciled
<1>2. x \in s /\ \A k \in s : x \in Above(up, k) => k = x
  BY <1>1, LowestExists
<1>3. /\ x \in Nodes /\ x \in l /\ x \in T
  BY <1>1, <1>2
<1>4. /\ Placed(w.store, l, w.unused)
      /\ \A m \in Nodes \ (s \ {x}) : /\ w.store.def[m] = st.def[m]
                                      /\ \A r \in Refs : w.store[r][m] = st[r][m]
      /\ Says(st, w.store) /\ SameNames(st, w.store)
      /\ Cardinality(Unused(w.store)) >= Cardinality(LoansOf(st, T \ (s \ {x})))
  BY DEF Visited
<1>5. w.store \in Names /\ st \in Names
  BY <1>1, <1>4 DEF Placed
<1>6. w.store.def[x] = st.def[x] /\ \A r \in Refs : w.store[r][x] = st[r][x]
  BY <1>3, <1>4
<1>7. Loans(w.store, x) = Loans(st, x)
  BY <1>6 DEF Loans, Loan, Held
<1>. DEFINE k == Cardinality(Unused(w.store))
            c == Cardinality(Loans(st, x))
            b == Cardinality(LoansOf(st, T \ s))
<1>8. b \in Nat /\ c \in Nat /\ Cardinality(LoansOf(st, T \ (s \ {x}))) = b + c
  <2>1. T \ (s \ {x}) = (T \ s) \cup {x} /\ x \notin T \ s /\ T \ s \in SUBSET Nodes
    BY <1>1, <1>2, <1>3
  <2>2. Cardinality(LoansOf(st, (T \ s) \cup {x})) = b + c /\ b \in Nat
    BY <1>3, <2>1, LoansOfMore
  <2>. QED BY <2>1, <2>2, LoansCounted
<1>9. k \in Nat
  <2>1. IsFiniteSet(Decls)
    BY NamesAssumption, FS_Interval DEF Decls
  <2>. QED BY <2>1, FS_Subset, FS_CardinalityType DEF Unused
<1>10. k >= b + c
  BY <1>4, <1>8
<1>11. NodeVisit(w, l, up, x)
  <2>1. ASSUME NEW r \in Refs, w.store[r][x] # NULL
        PROVE  w.store.decl[w.store[r][x]] # NULL
    <3>1. w.store[r][x] = st[r][x] /\ st[r][x] # NULL /\ st.decl[st[r][x]] # NULL
      BY <1>1, <1>3, <1>6, <2>1
    <3>2. st[r][x] \in Decls
      BY <1>3, <1>5, <3>1, StoreTypes
    <3>. QED BY <1>4, <3>1, <3>2 DEF Says
  <2>2. k >= c
    BY <1>8, <1>9, <1>10
  <2>. QED BY <1>1, <1>3, <1>4, <1>7, <2>1, <2>2 DEF NodeVisit
<1>12. /\ Placed(v.store, l, v.unused)
       /\ Around(w.store, v.store, x)
       /\ Says(w.store, v.store)
       /\ Cardinality(Unused(v.store)) \in Nat
       /\ Cardinality(Unused(v.store)) >= k - c
       /\ \A r \in Refs : InOrder(v.store, w.store, up, x, r)
       /\ SameNames(w.store, v.store)
       /\ \E u : Stepping(w, u, l, up, x, "ns") /\ Stepping(u, v, l, up, x, "attr")
       /\ Pointing(w.store)
  <2>1. Pointing(w.store)
    BY <1>4, SameNamesPointing
  <2>. QED BY <1>7, <1>11, <2>1, NodeStep
<1>13. \A m \in Nodes \ s : v.store.def[m] = st.def[m] /\ \A r \in Refs : v.store[r][m] = st[r][m]
  BY <1>2, <1>4, <1>12 DEF Around
<1>14. Says(st, v.store)
  BY <1>4, <1>12 DEF Says
<1>15. Cardinality(Unused(v.store)) >= b
  BY <1>8, <1>9, <1>10, <1>12
<1>16. ASSUME \A m \in s : Above(up, m) \cap T \subseteq s
       PROVE  \A m \in s, r \in Refs : Scoped(v.store, up, m, r)
  <2>1. \A m \in s \ {x} : x \notin Above(up, m)
    BY <1>2
  <2>2. \A m \in s \ {x} : Above(up, m) \cap T \subseteq s \ {x}
    BY <1>16, <2>1
  <2>3. \A m \in s \ {x}, r \in Refs : Scoped(w.store, up, m, r)
    BY <2>2 DEF Visited
  <2>4. ASSUME NEW m \in Nodes \ T, NEW r \in Refs PROVE Scoped(w.store, up, m, r)
    <3>1. Above(up, m) \cap T = {} /\ Scoped(st, up, m, r) /\ Above(up, m) \in SUBSET Nodes
      BY <1>1, AboveFacts DEF Ends
    <3>2. \A a \in Above(up, m) : Held(w.store, a) = Held(st, a)
      BY <1>4, <3>1 DEF Held
    <3>3. w.store[r][m] = st[r][m]
      BY <1>4
    <3>. QED BY <3>1, <3>2, <3>3 DEF Scoped
  <2>5. ASSUME NEW m \in s \ {x}, NEW r \in Refs PROVE Scoped(v.store, up, m, r)
    <3>1. v.store[r][m] = w.store[r][m]
      BY <1>1, <1>12 DEF Around
    <3>2. \A a \in Above(up, m) : Held(v.store, a) = Held(w.store, a)
      <4>1. \A a \in Above(up, m) : a \in Nodes \ {x}
        BY <1>1, <2>1, AboveFacts DEF Ends
      <4>. QED BY <1>12, <4>1 DEF Around, Held
    <3>. QED BY <2>3, <3>1, <3>2 DEF Scoped
  <2>6. ASSUME NEW r \in Refs PROVE Scoped(v.store, up, x, r)
    <3>. DEFINE o == v.store[r][x]
    <3>. SUFFICES ASSUME o # NULL PROVE \E a \in Above(up, x) : o \in Held(v.store, a)
      BY DEF Scoped
    <3>1. /\ Above(up, x) = {x} \cup Above(up, up[x]) /\ x \notin Above(up, up[x])
          /\ up[x] \in Ends /\ Above(up, up[x]) \in SUBSET Nodes
      BY <1>1, <1>3, AboveFacts
    <3>2. \A a \in Above(up, up[x]) : Held(v.store, a) = Held(w.store, a)
      <4>1. \A a \in Above(up, up[x]) : a \in Nodes \ {x}
        BY <3>1
      <4>. QED BY <1>12, <4>1 DEF Around, Held
    <3>3. CASE o \in Held(v.store, x)
      BY <3>1, <3>3
    <3>4. CASE Landed(w.store, up, up[x], o)
      <4>1. PICK a \in Above(up, up[x]) : o \in ToSet(w.store.def[a]) \/ (o = w.store.ns[a] /\ o # NULL)
        BY <3>4 DEF Landed
      <4>2. CASE o \in ToSet(w.store.def[a])
        <5>1. o \in Held(w.store, a)
          BY <4>2 DEF Held
        <5>. QED BY <3>1, <3>2, <5>1
      <4>3. CASE o = w.store.ns[a]
        <5>1. w.store.ns = w.store["ns"] /\ "ns" \in Refs
          BY <1>5, StoreTypes DEF Refs
        <5>2. a \in Nodes /\ a # x
          BY <3>1
        <5>3. a \in T => a \in s \ {x}
          BY <1>2, <1>16, <3>1, <5>2
        <5>4. Scoped(w.store, up, a, "ns")
          BY <2>3, <2>4, <5>1, <5>2, <5>3
        <5>5. PICK b2 \in Above(up, a) : o \in Held(w.store, b2)
          BY <4>3, <5>1, <5>4 DEF Scoped
        <5>6. Above(up, a) \subseteq Above(up, up[x])
          BY <1>1, <3>1, AbovePath
        <5>. QED BY <3>1, <3>2, <5>5, <5>6
      <4>. QED BY <4>1, <4>2, <4>3
    <3>. QED BY <1>12, <3>3, <3>4 DEF InOrder
  <2>. QED BY <2>5, <2>6
<1>17. SameNames(st, v.store)
  BY <1>4, <1>12, SameNamesCompose
<1>18. ASSUME Tidy(st, up, T), \A m \in s : Above(up, m) \cap T \subseteq s
       PROVE  \A m \in s : Readable(v.store, up, m)
  <2>1. \A m \in s \ {x} : x \notin Above(up, m)
    BY <1>2
  <2>2. \A m \in s \ {x} : Above(up, m) \cap T \subseteq s \ {x}
    BY <1>18, <2>1
  <2>3. \A m \in s \ {x} : Readable(w.store, up, m)
    BY <1>18, <2>2 DEF Visited
  <2>4. /\ Above(up, x) = {x} \cup Above(up, up[x]) /\ x \notin Above(up, up[x])
        /\ up[x] \in Ends /\ Above(up, up[x]) \in SUBSET Nodes
    BY <1>1, <1>3, AboveFacts
  <2>5. Pointing(st)
    BY UnreconciledPointing
  <2>6. \A m \in Nodes \ (s \ {x}) : SameList(st, w.store, m) /\ SameRefs(st, w.store, m)
    BY <1>1, <1>4, <2>5, SaysSame
  <2>7. ASSUME NEW a \in Above(up, up[x]) PROVE Readable(w.store, up, a)
    <3>1. CASE a \in T
      <4>1. a \in s \ {x}
        BY <1>2, <1>18, <2>4, <3>1
      <4>. QED BY <2>3, <4>1
    <3>2. CASE a \notin T
      <4>1. a \in Nodes /\ a \in Ends
        BY <2>4 DEF Ends
      <4>2. Above(up, a) \cap T = {} /\ Above(up, a) \in SUBSET Nodes
        BY <1>1, <3>2, <4>1, AboveFacts
      <4>3. Readable(st, up, a)
        BY <1>3, <1>18, <2>4, <3>2 DEF Tidy
      <4>4. SameRefs(st, w.store, a) /\ \A y \in Above(up, a) : SameList(st, w.store, y)
        BY <2>6, <3>2, <4>1, <4>2
      <4>. QED BY <1>1, <4>1, <4>3, <4>4, ReadableStays
    <3>. QED BY <3>1, <3>2
  <2>8. Ordered(w.store, x, NamesOf(w.store, x))
    <3>1. SameList(st, w.store, x) /\ SameRefs(st, w.store, x)
      BY <1>3, <2>6
    <3>2. Ordered(st, x, NamesOf(st, x))
      BY <1>3, <1>18 DEF Tidy
    <3>. QED BY <3>1, <3>2, OrderedStays
  <2>9. Readable(v.store, up, x)
    BY <1>1, <1>3, <1>12, <2>7, <2>8, NodeReads
  <2>10. \A m \in Nodes \ {x} : SameList(w.store, v.store, m) /\ SameRefs(w.store, v.store, m)
    BY <1>4, <1>12, SaysSame DEF Around
  <2>11. ASSUME NEW m \in s \ {x} PROVE Readable(v.store, up, m)
    <3>1. m \in Nodes \ {x} /\ \A a \in Above(up, m) : a \in Nodes \ {x}
      BY <1>1, <2>1, AboveFacts DEF Ends
    <3>. QED BY <1>1, <2>3, <2>10, <3>1, ReadableStays
  <2>. QED BY <2>9, <2>11
<1>. QED BY <1>2, <1>12, <1>13, <1>14, <1>15, <1>16, <1>17, <1>18 DEF Visited

(* The works of a reconciliation *)
Works == [store : Names, unused : SUBSET Decls]

IsPair(w) == \E c, d : w = [store |-> c, unused |-> d]

LEMMA WorkStep ==
  ASSUME NEW w, IsPair(w), NEW up, NEW n, NEW ref
  PROVE  IsPair(ReconcileRef(w, up, n, ref))
<1>0. PICK a, b : w = [store |-> a, unused |-> b]
  BY DEF IsPair
<1>. DEFINE t == a[ref][n]
            own == t \in ToSet(a.def[n])
            outer == SearchNs(a, up, up[n], a.decl[t].prefix)
            c1 == [RemoveNsDef(a, n, t) EXCEPT ![ref][n] = outer]
            d1 == b \cup IF own THEN {t} ELSE {}
            from == IF own THEN RemoveNsDef(a, n, t) ELSE Allocated(a, a.decl[t].prefix, a.decl[t].href)
            to == IF own THEN t ELSE FreshDecl(a)
            c2 == [AddNsDef(from, n, to) EXCEPT ![ref][n] = to]
<1>1. w.store = a /\ w.unused = b
  BY <1>0
<1>2. ReconcileRef(w, up, n, ref) =
        CASE t = NULL -> w
          [] t # NULL /\ outer # NULL /\ a.decl[outer].href = a.decl[t].href ->
               [store |-> c1, unused |-> d1]
          [] OTHER -> [w EXCEPT !.store = c2]
  BY <1>1, Zenon DEF ReconcileRef
<1>. HIDE DEF t, own, outer, c1, d1, c2, from, to
<1>3. [w EXCEPT !.store = c2] = [store |-> c2, unused |-> b]
  BY <1>0
<1>4. \/ ReconcileRef(w, up, n, ref) = w
      \/ ReconcileRef(w, up, n, ref) = [store |-> c1, unused |-> d1]
      \/ ReconcileRef(w, up, n, ref) = [store |-> c2, unused |-> b]
  BY <1>2, <1>3
<1>. QED BY <1>0, <1>4 DEF IsPair

LEMMA NodeWorks ==
  ASSUME NEW w \in Works, NEW up, NEW n, NEW v, v = ReconcileNode(w, up, n),
         v.store \in Names, v.unused \subseteq Decls
  PROVE  v \in Works
<1>. DEFINE u == ReconcileRef(w, up, n, "ns")
<1>1. IsPair(w)
  BY DEF Works, IsPair
<1>2. IsPair(u)
  BY <1>1, WorkStep
<1>3. v = ReconcileRef(u, up, n, "attr")
  BY DEF ReconcileNode
<1>. HIDE DEF u
<1>4. IsPair(v)
  BY <1>2, <1>3, WorkStep
<1>. QED BY <1>4 DEF IsPair, Works

(* h is the fold, as far as its values are works. *)
FoldsNodes(h, st, up, T) ==
  /\ h[{}] = [store |-> st, unused |-> {}]
  /\ \A s \in SUBSET T :
       s # {} /\ ReconcileNode(h[s \ {Lowest(up, s)}], up, Lowest(up, s)) \in Works =>
         h[s] = ReconcileNode(h[s \ {Lowest(up, s)}], up, Lowest(up, s))

(* Every part of it is a visit of the elements it takes. *)
LEMMA FoldVisits ==
  ASSUME NEW st, NEW l, NEW up, NEW T, Unreconciled(st, l, up, T),
         NEW h, FoldsNodes(h, st, up, T)
  PROVE  \A s \in SUBSET T :
           /\ h[s] \in Works /\ Visited(st, l, up, T, h[s], s)
           /\ s # {} => ReconcileNode(h[s \ {Lowest(up, s)}], up, Lowest(up, s)) \in Works
<1>. DEFINE x(s) == Lowest(up, s)
            next(s) == ReconcileNode(h[s \ {x(s)}], up, x(s))
            F == {s \in SUBSET T : /\ h[s] \in Works /\ Visited(st, l, up, T, h[s], s)
                                   /\ s # {} => next(s) \in Works}
<1>1. /\ Tree(up) /\ T \subseteq Nodes /\ Placed(st, l, {})
      /\ Cardinality(Unused(st)) >= Cardinality(LoansOf(st, T))
  BY DEF Unreconciled
<1>2. IsFiniteSet(T)
  BY <1>1, NamesAssumption, FS_Subset
<1>3. ASSUME NEW s \in SUBSET T, \A y \in SUBSET s : y # s => y \in F PROVE s \in F
  <2>1. CASE s = {}
    <3>1. h[s].store = st /\ h[s].unused = {} /\ h[s] = [store |-> st, unused |-> {}]
      BY <2>1 DEF FoldsNodes
    <3>2. h[s] \in Works
      BY <1>1, <3>1 DEF Works, Placed
    <3>3. T \ s = T
      BY <2>1
    <3>4. Visited(st, l, up, T, h[s], s)
      <4>1. SameNames(st, st)
        BY UnreconciledPointing, PointingSame
      <4>. QED BY <1>1, <2>1, <3>1, <3>3, <4>1 DEF Visited, Says
    <3>. QED BY <2>1, <3>2, <3>4
  <2>2. CASE s # {}
    <3>1. x(s) \in s
      BY <1>1, <2>2, LowestExists
    <3>2. s \ {x(s)} \in F
      BY <1>3, <3>1
    <3>3. h[s \ {x(s)}] \in Works /\ Visited(st, l, up, T, h[s \ {x(s)}], s \ {x(s)})
      BY <3>2
    <3>4. Visited(st, l, up, T, next(s), s)
      <4>1. PICK z, w, v : z = x(s) /\ w = h[s \ {x(s)}] /\ v = next(s)
        OBVIOUS
      <4>2. Visited(st, l, up, T, w, s \ {z}) /\ v = ReconcileNode(w, up, z) /\ z = Lowest(up, s)
        BY <3>3, <4>1
      <4>. HIDE DEF next, x
      <4>3. Visited(st, l, up, T, v, s)
        BY <2>2, <4>2, VisitOne
      <4>. QED BY <4>1, <4>3
    <3>5. next(s) \in Works
      <4>1. next(s).store \in Names /\ next(s).unused \subseteq Decls
        BY <3>4 DEF Visited, Placed
      <4>. QED BY <3>3, <4>1, NodeWorks
    <3>6. h[s] = next(s)
      BY <2>2, <3>5 DEF FoldsNodes
    <3>. QED BY <3>4, <3>5, <3>6
  <2>. QED BY <2>1, <2>2
<1>4. F = SUBSET T
  <2>. HIDE DEF F
  <2>1. F \in SUBSET SUBSET T
    BY DEF F
  <2>. QED BY <1>2, <1>3, <2>1, SubsetInduction
<1>. QED BY <1>4

(* There is such a fold, so that Reconciled is one: it visits the subtree. *)
LEMMA ReconciledVisits ==
  ASSUME NEW st, NEW up, NEW n, Unreconciled(st, live, up, Subtree(up, n))
  PROVE  Visited(st, live, up, Subtree(up, n), Reconciled(st, up, n), Subtree(up, n))
<1>. DEFINE T == Subtree(up, n)
            base == [store |-> st, unused |-> {}]
            x(s) == Lowest(up, s)
            step == [a \in T \X Works |-> IF ReconcileNode(a[2], up, a[1]) \in Works
                                          THEN ReconcileNode(a[2], up, a[1]) ELSE base]
            pick == [s \in SUBSET T |-> x(s)]
            Rec(iter) == iter = [s \in SUBSET T |->
                           IF s = {} THEN base ELSE ReconcileNode(iter[s \ {x(s)}], up, x(s))]
            f == CHOOSE iter : Rec(iter)
<1>1. Reconciled(st, up, n) = f[T]
  BY Zenon DEF Reconciled, MapThenFoldSet
<1>2. Tree(up) /\ T \subseteq Nodes /\ Placed(st, live, {})
  BY DEF Unreconciled
<1>3. IsFiniteSet(T)
  BY <1>2, NamesAssumption, FS_Subset
<1>4. base \in Works
  BY <1>2 DEF Works, Placed
<1>5. \A s \in SUBSET T : s # {} => x(s) \in s
  BY <1>2, LowestExists
<1>. HIDE DEF T, x
<1>6. step \in [T \X Works -> Works]
  <2>. HIDE DEF base
  <2>. QED BY <1>4
<1>7. PICK g \in [SUBSET T -> Works] : Folds(g, T, base, pick, step)
  <2>1. \A s \in SUBSET T : s # {} => pick[s] \in s
    BY <1>5
  <2>. HIDE DEF base, pick, step
  <2>. QED BY <1>3, <1>4, <1>6, <2>1, FoldExists
<1>8. \A a \in T, w \in Works :
        step[<<a, w>>] = IF ReconcileNode(w, up, a) \in Works THEN ReconcileNode(w, up, a) ELSE base
  <2>. HIDE DEF base
  <2>. QED OBVIOUS
<1>9. \A s \in SUBSET T : pick[s] = x(s)
  OBVIOUS
<1>. HIDE DEF step, pick, base
<1>10. ASSUME NEW s \in SUBSET T, s # {}
       PROVE  g[s] = IF ReconcileNode(g[s \ {x(s)}], up, x(s)) \in Works
                     THEN ReconcileNode(g[s \ {x(s)}], up, x(s)) ELSE base
  <2>1. g[s] = step[<<x(s), g[s \ {x(s)}]>>]
    BY <1>7, <1>9, <1>10 DEF Folds
  <2>2. x(s) \in T /\ g[s \ {x(s)}] \in Works
    BY <1>5, <1>10
  <2>. QED BY <1>8, <2>1, <2>2
<1>11. g[{}] = base
  BY <1>7 DEF Folds
<1>12. FoldsNodes(g, st, up, T)
  BY <1>10, <1>11 DEF FoldsNodes, base, x
<1>13. \A s \in SUBSET T : s # {} => ReconcileNode(g[s \ {x(s)}], up, x(s)) \in Works
  BY <1>12, FoldVisits DEF T, x
<1>14. Rec(g)
  <2>1. \A s \in SUBSET T : g[s] = IF s = {} THEN base ELSE ReconcileNode(g[s \ {x(s)}], up, x(s))
    BY <1>10, <1>11, <1>13
  <2>. QED BY <2>1
<1>15. Rec(f)
  <2>. HIDE DEF Rec
  <2>. QED BY <1>14
<1>. HIDE DEF f
<1>16. FoldsNodes(f, st, up, T)
  BY <1>15 DEF FoldsNodes, base, x
<1>. HIDE DEF Rec
<1>17. Visited(st, live, up, T, f[T], T)
  BY <1>16, FoldVisits DEF T
<1>. QED BY <1>1, <1>17 DEF T

(* What is left over is freed. *)
LEMMA FreedFacts ==
  ASSUME NEW st, NEW l, NEW U, Placed(st, l, U), NEW u, u = Freed(st, U)
  PROVE  /\ Placed(u, l, {})
         /\ u.def = st.def /\ \A r \in Refs : u[r] = st[r]
         /\ \A d \in Decls : u.decl[d] # NULL => u.decl[d] = st.decl[d]
<1>1. st \in Names
  BY DEF Placed
<1>2. /\ u \in Names /\ u.def = st.def /\ u.ns = st.ns /\ u.attr = st.attr
      /\ \A d \in Decls : u.decl[d] = IF d \in U THEN NULL ELSE st.decl[d]
  BY <1>1 DEF Freed, Names
<1>3. \A r \in Refs : u[r] = st[r]
  BY <1>1, <1>2, StoreTypes DEF Refs
<1>4. \A n \in Nodes : Held(u, n) = Held(st, n) /\ Held(st, n) \subseteq Decls
  BY <1>1, <1>2, StoreTypes DEF Held
<1>. QED BY <1>2, <1>3, <1>4 DEF Placed

(* A reconciliation leaves every pointer in scope. *)
LEMMA ReconcileNsFacts ==
  ASSUME NEW st, NEW up, NEW n, Unreconciled(st, live, up, Subtree(up, n)),
         NEW u, u = ReconcileNs(st, up, n)
  PROVE  /\ Placed(u, live, {})
         /\ \A m \in Nodes, r \in Refs : Scoped(u, up, m, r)
         /\ SameNames(st, u)
         /\ Tidy(st, up, Subtree(up, n)) => \A m \in Subtree(up, n) : Readable(u, up, m)
<1>. DEFINE T == Subtree(up, n)
            done == Reconciled(st, up, n)
<1>1. Visited(st, live, up, T, done, T)
  BY ReconciledVisits
<1>2. u = Freed(done.store, done.unused)
  BY DEF ReconcileNs
<1>. HIDE DEF done
<1>3. /\ Tree(up) /\ T \subseteq Nodes
      /\ \A m \in Nodes \ T : Above(up, m) \cap T = {} /\ \A r \in Refs : Scoped(st, up, m, r)
  BY DEF Unreconciled
<1>. HIDE DEF T
<1>4. /\ Placed(done.store, live, done.unused)
      /\ \A m \in Nodes \ T : /\ done.store.def[m] = st.def[m]
                              /\ \A r \in Refs : done.store[r][m] = st[r][m]
      /\ \A m \in T, r \in Refs : Scoped(done.store, up, m, r)
      /\ SameNames(st, done.store)
      /\ Tidy(st, up, T) => \A m \in T : Readable(done.store, up, m)
  BY <1>1 DEF Visited
<1>5. /\ Placed(u, live, {}) /\ u.def = done.store.def /\ \A r \in Refs : u[r] = done.store[r]
      /\ \A d \in Decls : u.decl[d] # NULL => u.decl[d] = done.store.decl[d]
  BY <1>2, <1>4, FreedFacts
<1>6. ASSUME NEW m \in Nodes \ T, NEW r \in Refs PROVE Scoped(done.store, up, m, r)
  <2>1. Above(up, m) \cap T = {} /\ Above(up, m) \in SUBSET Nodes /\ Scoped(st, up, m, r)
    BY <1>3, AboveFacts DEF Ends
  <2>2. \A a \in Above(up, m) : Held(done.store, a) = Held(st, a)
    BY <1>4, <2>1 DEF Held
  <2>. QED BY <1>4, <2>1, <2>2 DEF Scoped
<1>7. \A m \in Nodes, r \in Refs : Scoped(done.store, up, m, r)
  BY <1>4, <1>6
<1>8. ASSUME NEW m \in Nodes, NEW r \in Refs PROVE Scoped(u, up, m, r)
  <2>1. u[r][m] = done.store[r][m]
    BY <1>5
  <2>2. \A a : Held(u, a) = Held(done.store, a)
    BY <1>5 DEF Held
  <2>. QED BY <1>7, <2>1, <2>2 DEF Scoped
<1>9. ASSUME NEW m \in Nodes, NEW r \in Refs PROVE SameName(done.store, u, m, r)
  <2>1. u[r][m] = done.store[r][m]
    BY <1>5
  <2>. SUFFICES ASSUME u[r][m] # NULL
                PROVE  u.decl[u[r][m]] # NULL /\ u.decl[u[r][m]] = done.store.decl[u[r][m]]
    BY <2>1 DEF SameName
  <2>2. Above(up, m) \in SUBSET Nodes
    BY <1>3, AboveFacts DEF Ends
  <2>3. PICK a \in Above(up, m) : u[r][m] \in Held(u, a)
    BY <1>8 DEF Scoped
  <2>4. u[r][m] \in Decls
    BY <1>5, <2>2, <2>3, StoreTypes DEF Placed
  <2>5. u.decl[u[r][m]] # NULL
    BY <1>5, <2>2, <2>3 DEF Placed
  <2>. QED BY <1>5, <2>4, <2>5
<1>10. SameNames(st, u)
  <2>1. SameNames(done.store, u)
    BY <1>9 DEF SameNames
  <2>. QED BY <1>4, <2>1, SameNamesCompose
<1>11. ASSUME Tidy(st, up, T), NEW m \in T PROVE Readable(u, up, m)
  <2>1. m \in Nodes /\ Above(up, m) \in SUBSET Nodes
    BY <1>3, AboveFacts DEF Ends
  <2>2. \A a \in Nodes : \A d \in Held(u, a) : d \in Decls /\ u.decl[d] # NULL
    BY <1>5, StoreTypes DEF Placed
  <2>3. \A a \in Nodes : SameList(done.store, u, a)
    BY <1>5, <2>2 DEF SameList, Held
  <2>4. SameRefs(done.store, u, m)
    BY <1>5, <1>9, <2>1 DEF SameRefs, SameName
  <2>. QED BY <1>3, <1>4, <1>11, <2>1, <2>3, <2>4, ReadableStays
<1>. QED BY <1>5, <1>8, <1>10, <1>11 DEF T

-----------------------------------------------------------------------------
(* The inductive invariant.                                                *)

(* Only elements in memory are in trees. *)
Forest(up, l) ==
  /\ Tree(up)
  /\ l \subseteq Nodes
  /\ \A n \in Nodes : up[n] # NULL => {n, up[n]} \subseteq l

(* Every declaration is in one list, and every name is below its own. *)
Good(st, up, l) ==
  /\ Placed(st, l, {})
  /\ \A m \in Nodes, r \in Refs : Scoped(st, up, m, r)

Sound ==
  /\ Forest(parent, live)
  /\ Good(names, parent, live)
  /\ edits \in 0..MaxEdits

(* What is below an element in memory is in memory. *)
LEMMA BelowLive ==
  ASSUME NEW up, NEW l, Forest(up, l), NEW n \in l, NEW m \in Nodes, n \in Above(up, m)
  PROVE  m \in l
<1>1. Above(up, m) = {m} \cup Above(up, up[m]) /\ Above(up, NULL) = {}
  BY AboveFacts DEF Forest
<1>. QED BY <1>1 DEF Forest

(* The pointers of an element in memory are to allocated declarations. *)
LEMMA GoodAllocated ==
  ASSUME NEW st, NEW up, NEW l, Good(st, up, l), Tree(up), NEW m \in Nodes, NEW r \in Refs,
         st[r][m] # NULL
  PROVE  st.decl[st[r][m]] # NULL
<1>1. PICK a \in Above(up, m) : st[r][m] \in Held(st, a)
  BY DEF Good, Scoped
<1>2. a \in Nodes
  BY <1>1, AboveFacts DEF Ends
<1>. QED BY <1>1, <1>2 DEF Good, Placed

(* More elements in memory do not matter to the lists. *)
LEMMA PlacedMore ==
  ASSUME NEW st, NEW l, NEW U, Placed(st, l, U), NEW k, l \subseteq k
  PROVE  Placed(st, k, U)
BY DEF Placed

(* Names are cleared, and declarations say something else. *)
LEMMA Retained ==
  ASSUME NEW st, NEW up, NEW l, Good(st, up, l), NEW u \in Names, u.def = st.def,
         \A d \in Decls : u.decl[d] = NULL <=> st.decl[d] = NULL,
         \A m \in Nodes, r \in Refs : u[r][m] \in {NULL, st[r][m]}
  PROVE  Good(u, up, l)
<1>1. \A n : Held(u, n) = Held(st, n)
  BY DEF Held
<1>2. st \in Names /\ Placed(st, l, {})
  BY DEF Good, Placed
<1>3. \A m \in Nodes \ l : u.ns[m] = NULL /\ u.attr[m] = NULL
  <2>1. \A m \in Nodes \ l : st["ns"][m] = NULL /\ st["attr"][m] = NULL
    BY <1>2, StoreTypes DEF Placed
  <2>2. u.ns = u["ns"] /\ u.attr = u["attr"] /\ "ns" \in Refs /\ "attr" \in Refs
    BY StoreTypes DEF Refs
  <2>. QED BY <2>1, <2>2
<1>4. \A n \in Nodes : Held(st, n) \subseteq Decls
  BY <1>2, StoreTypes
<1>5. Placed(u, l, {})
  BY <1>1, <1>2, <1>3, <1>4 DEF Placed
<1>6. \A m \in Nodes, r \in Refs : Scoped(u, up, m, r)
  BY <1>1 DEF Good, Scoped
<1>. QED BY <1>5, <1>6 DEF Good

(* A name is given a declaration in scope, or none. *)
LEMMA Repaired ==
  ASSUME NEW st, NEW up, NEW l, Good(st, up, l), NEW n \in Nodes, n \in l, NEW r \in Refs, NEW to,
         to = NULL \/ \E a \in Above(up, n) : to \in Held(st, a), Tree(up),
         NEW u, u = Redirect(st, r, n, to)
  PROVE  Good(u, up, l)
<1>1. st \in Names /\ Placed(st, l, {})
  BY DEF Good, Placed
<1>2. to \in Decls \cup {NULL}
  <2>1. Above(up, n) \subseteq Nodes
    BY AboveFacts DEF Ends
  <2>. QED BY <1>1, <2>1, StoreTypes
<1>3. /\ u \in Names /\ u.def = st.def /\ u.decl = st.decl
      /\ u[r] = [st[r] EXCEPT ![n] = to]
      /\ \A q \in Refs \ {r} : u[q] = st[q]
  BY <1>1, <1>2, Redirected
<1>4. \A k : Held(u, k) = Held(st, k)
  BY <1>3 DEF Held
<1>5. \A q \in Refs : st[q] \in [Nodes -> Decls \cup {NULL}]
  BY <1>1, StoreTypes
<1>6. \A m \in Nodes, q \in Refs : u[q][m] = IF m = n /\ q = r THEN to ELSE st[q][m]
  BY <1>3, <1>5
<1>7. \A m \in Nodes \ l : u.ns[m] = NULL /\ u.attr[m] = NULL
  <2>1. \A m \in Nodes \ l : st["ns"][m] = NULL /\ st["attr"][m] = NULL
    BY <1>1, StoreTypes DEF Placed
  <2>2. u.ns = u["ns"] /\ u.attr = u["attr"] /\ "ns" \in Refs /\ "attr" \in Refs
    BY <1>3, StoreTypes DEF Refs
  <2>. QED BY <1>6, <2>1, <2>2
<1>8. Placed(u, l, {})
  BY <1>1, <1>3, <1>4, <1>7 DEF Placed
<1>9. \A m \in Nodes, q \in Refs : Scoped(u, up, m, q)
  BY <1>4, <1>6 DEF Good, Scoped
<1>. QED BY <1>8, <1>9 DEF Good

(* An element declares a prefix. *)
LEMMA Declared ==
  ASSUME NEW st, NEW up, NEW l, Good(st, up, l), Tree(up), NEW n \in Nodes, n \in l,
         Unused(st) # {}, NEW prefix \in NsPrefixes, NEW href \in URIs \cup {NULL},
         NEW u, u = NewNs(st, n, prefix, href)
  PROVE  Good(u, up, l) /\ FreshDecl(st) \in Held(u, n)
<1>. DEFINE b == Allocated(st, prefix, href)
            e == FreshDecl(st)
            list == Append(st.def[n], e)
<1>1. st \in Names /\ Placed(st, l, {})
  BY DEF Good, Placed
<1>0. b = Allocated(st, prefix, href)
  OBVIOUS
<1>5. u = [b EXCEPT !.def[n] = Append(@, e)]
  BY DEF NewNs
<1>. HIDE DEF b
<1>2. /\ b \in Names /\ b.def = st.def /\ b.ns = st.ns /\ b.attr = st.attr
      /\ e \in Decls /\ st.decl[e] = NULL /\ b.decl[e] # NULL
      /\ \A d \in Decls : d # e => b.decl[d] = st.decl[d]
  <2>1. /\ b \in Names /\ b.def = st.def /\ b.ns = st.ns /\ b.attr = st.attr
        /\ FreshDecl(st) \in Decls /\ st.decl[FreshDecl(st)] = NULL
        /\ \A d \in Decls : b.decl[d] = IF d = FreshDecl(st) THEN [prefix |-> prefix, href |-> href]
                                       ELSE st.decl[d]
        /\ b.decl[FreshDecl(st)] # NULL
    BY ONLY <1>0, <1>1, Unused(st) # {}, prefix \in NsPrefixes, href \in URIs \cup {NULL},
            AllocatedFacts
  <2>. QED BY <2>1
<1>3. st.def \in [Nodes -> Seq(Decls)] /\ st.def[n] \in Seq(Decls) /\ Unrepeated(st.def[n])
  BY <1>1, StoreTypes DEF Placed
<1>4. e \notin ToSet(st.def[n])
  BY <1>1, <1>2 DEF Placed, Held
<1>. HIDE DEF e
<1>6. list \in Seq(Decls) /\ Unrepeated(list) /\ ToSet(list) = Held(st, n) \cup {e}
  BY <1>2, <1>3, <1>4, PutAtEnd DEF Held
<1>7. u = [b EXCEPT !.def[n] = list]
  BY <1>2, <1>5 DEF Names
<1>. HIDE DEF list
<1>8. /\ u \in Names /\ u.def = [st.def EXCEPT ![n] = list]
      /\ u.decl = b.decl /\ u.ns = st.ns /\ u.attr = st.attr
  <2>1. Names = [def : [Nodes -> Seq(Decls)], ns : [Nodes -> Decls \cup {NULL}],
                 attr : [Nodes -> Decls \cup {NULL}], decl : [Decls -> {NULL} \cup DeclRecords]]
    BY DEF Names, DeclRecords
  <2>2. b \in Names /\ b.def = st.def /\ b.ns = st.ns /\ b.attr = st.attr
    BY <1>2
  <2>3. u \in Names
    BY <1>6, <1>7, <2>1, <2>2
  <2>. QED BY <1>7, <2>1, <2>2, <2>3
<1>9. Placed(u, l, {})
  <2>1. \A d \in Decls : st.decl[d] # NULL => u.decl[d] # NULL
    BY <1>2, <1>8
  <2>2. {d \in Decls : st.decl[d] = NULL /\ u.decl[d] # NULL} = {e}
    BY <1>2, <1>8
  <2>3. \A m \in Nodes \ l : u.ns[m] = NULL /\ u.attr[m] = NULL
    BY <1>1, <1>8 DEF Placed
  <2>4. ToSet(list) \cup {} =
          Held(st, n) \cup {} \cup {d \in Decls : st.decl[d] = NULL /\ u.decl[d] # NULL}
    BY <1>6, <2>2
  <2>. QED BY <1>1, <1>6, <1>8, <2>1, <2>3, <2>4, Relisted
<1>10. \A m \in Nodes : Held(u, m) = IF m = n THEN Held(st, n) \cup {e} ELSE Held(st, m)
  BY <1>3, <1>6, <1>8 DEF Held
<1>11. ASSUME NEW m \in Nodes, NEW r \in Refs PROVE Scoped(u, up, m, r)
  <2>1. u[r] = st[r]
    BY <1>1, <1>8, StoreTypes DEF Refs
  <2>2. Scoped(st, up, m, r)
    BY DEF Good
  <2>3. Above(up, m) \subseteq Nodes
    BY AboveFacts DEF Ends
  <2>4. \A a \in Above(up, m) : Held(st, a) \subseteq Held(u, a)
    BY <1>10, <2>3
  <2>. QED BY <2>1, <2>2, <2>4 DEF Scoped
<1>. QED BY <1>9, <1>10, <1>11 DEF Good, e

-----------------------------------------------------------------------------
(* Moves.                                                                  *)

(* An element of a forest gets another place. *)
LEMMA ForestMoved ==
  ASSUME NEW up, NEW l, Forest(up, l), NEW n, NEW q, NEW v, Hanging(up, n, q, v),
         n \in l, q \in l \cup {NULL}
  PROVE  Forest(v, l) /\ Rehung(up, n, v)
<1>1. Tree(v) /\ Rehung(up, n, v)
  BY Repointed
<1>2. n \in Nodes /\ v = [up EXCEPT ![n] = q] /\ up \in [Nodes -> Ends]
  BY DEF Hanging, Tree
<1>3. \A m \in Nodes : v[m] = IF m = n THEN q ELSE up[m]
  BY <1>2
<1>4. Forest(v, l)
  BY <1>1, <1>3 DEF Forest
<1>. QED BY <1>1, <1>4

(* A move within a forest can be reconciled. *)
LEMMA MoveUnreconciled ==
  ASSUME Sound, NEW n \in live, NEW q \in live \cup {NULL}, NEW v, Hanging(parent, n, q, v),
         Room(Cardinality(Borrowed(n)))
  PROVE  Unreconciled(names, live, v, Subtree(v, n)) /\ Subtree(v, n) = Subtree(parent, n)
<1>1. Forest(parent, live) /\ Good(names, parent, live) /\ n \in Nodes
  BY DEF Sound, Forest
<1>2. Forest(v, live) /\ Rehung(parent, n, v)
  BY <1>1, ForestMoved
<1>3. Tree(parent) /\ Tree(v) /\ live \subseteq Nodes
  BY <1>1, <1>2 DEF Forest
<1>. DEFINE T == Subtree(v, n)
<1>4. T \subseteq live /\ T \subseteq Nodes
  BY <1>3 DEF Subtree
<1>5. T = Subtree(parent, n)
  BY <1>2, <1>3 DEF Subtree, Rehung, Ends
<1>6. ASSUME NEW m \in T, NEW r \in Refs, names[r][m] # NULL
      PROVE  names.decl[names[r][m]] # NULL
  <2>1. m \in Nodes
    BY <1>4
  <2>. QED BY <1>1, <1>3, <1>6, <2>1, GoodAllocated
<1>7. ASSUME NEW m \in Nodes \ T
      PROVE  Above(v, m) \cap T = {} /\ \A r \in Refs : Scoped(names, v, m, r)
  <2>1. n \notin Above(v, m)
    <3>1. SUFFICES ASSUME n \in Above(v, m) PROVE m \in T
      OBVIOUS
    <3>2. m \in live
      BY <1>2, <3>1, BelowLive
    <3>. QED BY <3>1, <3>2 DEF Subtree
  <2>2. Above(v, m) = Above(parent, m)
    BY <1>2, <2>1 DEF Rehung, Ends
  <2>3. ASSUME NEW a \in Above(v, m) \cap T PROVE FALSE
    <3>1. n \in Above(v, a)
      BY DEF Subtree
    <3>2. Above(v, a) \subseteq Above(v, m)
      BY <1>3, AbovePath DEF Ends
    <3>. QED BY <2>1, <3>1, <3>2
  <2>4. \A r \in Refs : Scoped(names, v, m, r)
    BY <1>1, <2>2 DEF Good, Scoped
  <2>. QED BY <2>3, <2>4
<1>8. Borrowed(n) = LoansOf(names, T)
  BY <1>5 DEF Borrowed, LoansOf, Loan, Held
<1>9. Cardinality(Unused(names)) >= Cardinality(LoansOf(names, T))
  BY <1>8 DEF Room
<1>10. Placed(names, live, {})
  BY <1>1 DEF Good
<1>. HIDE DEF T
<1>11. Unreconciled(names, live, v, T)
  BY <1>3, <1>4, <1>6, <1>7, <1>9, <1>10 DEF Unreconciled
<1>. QED BY <1>5, <1>11 DEF T

LEMMA MoveSound ==
  ASSUME Sound, NEW n \in live, NEW q \in live \cup {NULL}, NEW v, Hanging(parent, n, q, v),
         Room(Cardinality(Borrowed(n))), NEW u, u = ReconcileNs(names, v, n)
  PROVE  Forest(v, live) /\ Good(u, v, live) /\ SameNames(names, u)
<1>1. Unreconciled(names, live, v, Subtree(v, n))
  BY MoveUnreconciled
<1>2. Forest(v, live)
  BY ForestMoved DEF Sound
<1>3. Good(u, v, live) /\ SameNames(names, u)
  BY <1>1, ReconcileNsFacts DEF Good
<1>. QED BY <1>2, <1>3

(* A readable subtree is readable where it is moved to. *)
LEMMA MoveReadable ==
  ASSUME Sound, NEW n \in live, NEW q \in live \cup {NULL}, NEW v, Hanging(parent, n, q, v),
         Room(Cardinality(Borrowed(n))), NEW u, u = ReconcileNs(names, v, n),
         \A m \in Subtree(parent, n) \cup Above(parent, q) : Readable(names, parent, m)
  PROVE  \A m \in Subtree(v, n) : Readable(u, v, m)
<1>. DEFINE T == Subtree(v, n)
<1>1. Unreconciled(names, live, v, T) /\ T = Subtree(parent, n)
  BY MoveUnreconciled
<1>2. Forest(parent, live) /\ Forest(v, live) /\ Rehung(parent, n, v)
  BY ForestMoved DEF Sound
<1>3. Tree(parent) /\ Tree(v) /\ live \subseteq Nodes /\ n \in Nodes /\ q \in Ends
  BY <1>2 DEF Forest, Hanging
<1>4. v[n] = q /\ n \notin Above(parent, q)
  BY <1>3 DEF Hanging, Tree
<1>5. Above(v, q) = Above(parent, q)
  BY <1>2, <1>3, <1>4 DEF Rehung
<1>6. \A m \in T : m \in live /\ m \in Nodes /\ m \in Ends /\ n \in Above(v, m)
  BY <1>3 DEF Subtree, Ends
<1>. HIDE DEF T
<1>7. ASSUME NEW m \in T, NEW a \in Above(v, m) \ T PROVE Readable(names, v, a)
  <2>1. a \in Nodes /\ (n \in Above(v, a) \/ a \in Above(v, n))
    BY <1>3, <1>6, AbovePath
  <2>2. n \notin Above(v, a)
    <3>. SUFFICES ASSUME n \in Above(v, a) PROVE a \in T
      BY <1>7
    <3>1. a \in live
      BY <1>2, <2>1, BelowLive
    <3>. QED BY <3>1 DEF Subtree, T
  <2>3. Above(v, n) = {n} \cup Above(v, q) /\ n \in Above(v, n)
    BY <1>3, <1>4, AboveFacts
  <2>4. a \in Above(parent, q)
    BY <1>5, <2>1, <2>2, <2>3
  <2>5. ASSUME NEW b \in Above(parent, a) PROVE Above(v, b) = Above(parent, b)
    <3>1. b \in Above(parent, q)
      BY <1>3, <2>4, AbovePath
    <3>2. b \in Nodes /\ b \in Ends /\ Above(parent, b) \subseteq Above(parent, q)
      BY <1>3, <3>1, AbovePath DEF Ends
    <3>. QED BY <1>2, <1>4, <3>2 DEF Rehung
  <2>6. Readable(names, parent, a)
    BY <2>4
  <2>. QED BY <1>3, <2>1, <2>5, <2>6, ReadableMoved
<1>8. ASSUME NEW m \in T PROVE Ordered(names, m, NamesOf(names, m))
  <2>1. Readable(names, parent, m) /\ m \in Nodes
    BY <1>1, <1>6
  <2>. QED BY <1>3, <2>1, ReadableOrdered
<1>9. Tidy(names, v, T)
  BY <1>7, <1>8 DEF Tidy
<1>. QED BY <1>1, <1>9, ReconcileNsFacts DEF T

(* Without what was above it, a subtree keeps what is within it. *)
LEMMA Uprooted ==
  ASSUME NEW up, NEW n, NEW v, Hanging(up, n, NULL, v), NEW m \in Ends, n \in Above(up, m)
  PROVE  Above(v, m) = {a \in Above(up, m) : n \in Above(up, a)}
<1>1. Tree(up) /\ Tree(v) /\ n \in Nodes /\ Rehung(up, n, v)
  BY Repointed DEF Hanging
<1>2. v = [up EXCEPT ![n] = NULL] /\ up \in [Nodes -> Ends] /\ v[n] = NULL
  BY <1>1 DEF Hanging, Tree
<1>3. up = [v EXCEPT ![n] = up[n]] /\ up[n] \in Ends /\ n \notin Above(up, up[n])
  BY <1>1, <1>2, AboveFacts
<1>4. n \notin Above(v, up[n])
  BY <1>1, <1>3 DEF Rehung
<1>5. Rehung(v, n, up)
  BY <1>1, <1>3, <1>4, Repointed DEF Hanging
<1>6. Above(v, n) = {n} \cup Above(v, NULL) /\ Above(v, NULL) = {} /\ n \in Above(v, n)
  BY <1>1, <1>2, AboveFacts
<1>7. n \in Above(v, m) /\ \A a \in Above(up, m) : n \in Above(up, a) => a \in Above(v, m)
  BY <1>1 DEF Rehung
<1>8. ASSUME NEW a \in Above(v, m) PROVE a \in Above(up, m) /\ n \in Above(up, a)
  <2>1. a \in Ends /\ n \in Above(v, a)
    <3>1. a \in Nodes /\ (n \in Above(v, a) \/ a \in Above(v, n))
      BY <1>1, <1>7, AbovePath
    <3>. QED BY <1>6, <3>1 DEF Ends
  <2>. QED BY <1>5, <1>7, <2>1 DEF Rehung
<1>. QED BY <1>7, <1>8

LEMMA AppendChildSound ==
  ASSUME Sound, NEW p \in Nodes, NEW n \in Nodes, AppendChild(p, n)
  PROVE  Sound' /\ SameNames(names, names')
<1>. DEFINE v == [parent EXCEPT ![n] = p]
            u == ReconcileNs(names, v, n)
<1>1. /\ n \in live /\ p \in live \cup {NULL} /\ n \notin Above(parent, p)
      /\ Room(Cardinality(Borrowed(n)))
      /\ parent' = v /\ live' = live /\ edits' = edits
  BY DEF AppendChild
<1>2. names' = u
  BY DEF AppendChild
<1>. HIDE DEF u
<1>3. Hanging(parent, n, p, v)
  BY <1>1 DEF Hanging, Sound, Forest, Ends
<1>4. Forest(v, live) /\ Good(u, v, live) /\ SameNames(names, u)
  BY <1>1, <1>3, MoveSound DEF u
<1>. HIDE DEF v
<1>. QED BY <1>1, <1>2, <1>4 DEF Sound, Forest, Good

LEMMA RemoveChildSound ==
  ASSUME Sound, NEW n \in Nodes, RemoveChild(n)
  PROVE  Sound' /\ SameNames(names, names')
<1>. DEFINE v == [parent EXCEPT ![n] = NULL]
            u == ReconcileNs(names, v, n)
<1>1. /\ n \in live /\ NULL \in live \cup {NULL}
      /\ Room(Cardinality(Borrowed(n)))
      /\ parent' = v /\ live' = live /\ edits' = edits
  BY DEF RemoveChild
<1>2. names' = u
  BY DEF RemoveChild
<1>3. n \notin Above(parent, NULL)
  BY AboveFacts DEF Sound, Forest
<1>. HIDE DEF u
<1>4. Hanging(parent, n, NULL, v)
  BY <1>1, <1>3 DEF Hanging, Sound, Forest, Ends
<1>5. Forest(v, live) /\ Good(u, v, live) /\ SameNames(names, u)
  BY <1>1, <1>4, MoveSound DEF u
<1>. HIDE DEF v
<1>. QED BY <1>1, <1>2, <1>5 DEF Sound, Forest, Good

(* An unbound subtree has what its names use. *)
LEMMA UnbindSound ==
  ASSUME Careful, Sound, NEW n \in Nodes, Unbind(n)
  PROVE  Sound'
<1>. DEFINE v == [parent EXCEPT ![n] = NULL]
<1>1. /\ n \in live /\ NULL \in live \cup {NULL}
      /\ parent' = v /\ live' = live /\ edits' = edits /\ names' = names
      /\ \A p \in Borrowed(n) : \E m \in Subtree(parent, n) :
           names[p[2]][p[1]] \in ToSet(names.def[m])
  BY DEF Unbind
<1>2. /\ Forest(parent, live) /\ Tree(parent) /\ Good(names, parent, live)
      /\ Placed(names, live, {}) /\ live \subseteq Nodes
  BY DEF Sound, Forest, Good
<1>3. n \notin Above(parent, NULL)
  BY <1>2, AboveFacts
<1>6. Hanging(parent, n, NULL, v)
  BY <1>2, <1>3 DEF Hanging, Ends
<1>4. /\ Forest(v, live)
      /\ \A m \in Nodes : n \notin Above(parent, m) => Above(v, m) = Above(parent, m)
      /\ \A m \in Nodes : n \in Above(parent, m) =>
           /\ n \in Above(v, m)
           /\ \A a \in Above(parent, m) : n \in Above(parent, a) => a \in Above(v, m)
  <2>1. Forest(v, live) /\ Rehung(parent, n, v)
    BY <1>1, <1>2, <1>6, ForestMoved
  <2>. QED BY <2>1 DEF Rehung, Ends
<1>. HIDE DEF v
<1>5. ASSUME NEW m \in Nodes, NEW r \in Refs PROVE Scoped(names, v, m, r)
  <2>. DEFINE d == names[r][m]
  <2>1. SUFFICES ASSUME d # NULL PROVE \E a \in Above(v, m) : d \in Held(names, a)
    BY DEF Scoped
  <2>2. PICK a \in Above(parent, m) : d \in Held(names, a)
    BY <1>2, <2>1 DEF Good, Scoped
  <2>3. a \in Nodes /\ m \in Above(parent, m)
    BY <1>2, AboveFacts DEF Ends
  <2>4. CASE n \notin Above(parent, m)
    BY <1>4, <2>2, <2>4
  <2>5. CASE n \in Above(parent, m)
    <3>1. m \in Subtree(parent, n)
      BY <1>1, <1>2, <2>5, BelowLive DEF Subtree
    <3>2. CASE d \in Held(names, m)
      BY <1>4, <2>3, <2>5, <3>2
    <3>3. CASE d \notin Held(names, m)
      <4>. DEFINE p == <<m, r>>
      <4>1. p \in Borrowed(n) /\ p[1] = m /\ p[2] = r
        BY <2>1, <3>1, <3>3 DEF Borrowed, Held
      <4>2. PICK k \in Subtree(parent, n) : d \in Held(names, k)
        BY <1>1, <4>1 DEF Held
      <4>3. k \in Nodes /\ n \in Above(parent, k)
        BY <1>2 DEF Subtree
      <4>4. k = a
        BY <1>2, <2>2, <2>3, <4>2, <4>3 DEF Placed
      <4>. QED BY <1>4, <2>2, <2>5, <4>3, <4>4
    <3>. QED BY <3>2, <3>3
  <2>. QED BY <2>4, <2>5
<1>. QED BY <1>1, <1>2, <1>4, <1>5 DEF Sound, Forest, Good

(* So does the reading of names whose declarations are within it. *)
LEMMA UnbindReadable ==
  ASSUME Careful, Sound, NEW n \in Nodes, Unbind(n),
         \A m \in Subtree(parent, n) : Readable(names, parent, m)
  PROVE  \A m \in Subtree(parent, n) : Readable(names', parent', m)
<1>. DEFINE v == [parent EXCEPT ![n] = NULL]
<1>1. n \in live /\ parent' = v /\ live' = live /\ names' = names
  BY DEF Unbind
<1>2. Tree(parent) /\ live \subseteq Nodes /\ names \in Names
  BY DEF Sound, Forest, Good, Placed
<1>3. n \notin Above(parent, NULL)
  BY <1>2, AboveFacts
<1>4. Hanging(parent, n, NULL, v)
  BY <1>2, <1>3 DEF Hanging, Ends
<1>5. \A m \in Nodes, r \in Refs : Scoped(names, v, m, r)
  BY <1>1, UnbindSound DEF Sound, Good
<1>7. \A m \in Ends : n \in Above(parent, m) =>
        Above(v, m) = {a \in Above(parent, m) : n \in Above(parent, a)}
  BY <1>4, Uprooted
<1>. HIDE DEF v
<1>8. ASSUME NEW m \in live, n \in Above(parent, m) PROVE Readable(names, v, m)
  <2>1. m \in Nodes /\ m \in Ends
    BY <1>2, <1>8 DEF Ends
  <2>2. n \in Above(parent, m)
    BY <1>8
  <2>3. Readable(names, parent, m)
    BY <1>8 DEF Subtree
  <2>4. ASSUME NEW r \in Refs, names[r][m] # NULL
        PROVE  Reads(names, v, m, names.decl[names[r][m]])
    <3>. DEFINE d == names[r][m]
                x == names.decl[d]
    <3>1. Reads(names, parent, m, x)
      BY <2>3, <2>4 DEF Readable
    <3>2. PICK b \in Above(parent, m) :
            /\ Binds(names, b, x.prefix)
            /\ \A e \in ToSet(names.def[b]) : Matches(names, e, x.prefix) => names.decl[e] = x
            /\ \A c \in Above(parent, m) : Binds(names, c, x.prefix) => c \in Above(parent, b)
      BY <3>1 DEF Reads
    <3>3. PICK k \in Above(v, m) : d \in Held(names, k)
      BY <1>5, <2>1, <2>4 DEF Scoped
    <3>4. x.href # NULL
      BY <1>2, <2>1, <3>1, ReadsOwn
    <3>5. Binds(names, k, x.prefix)
      BY <3>3, <3>4 DEF Binds, Held, Matches
    <3>6. k \in Above(parent, m) /\ n \in Above(parent, k)
      BY <1>7, <2>1, <2>2, <3>3
    <3>7. k \in Above(parent, b) /\ b \in Nodes /\ b \in Ends
      BY <1>2, <2>1, <3>2, <3>5, <3>6, AbovePath DEF Ends
    <3>8. n \in Above(parent, b)
      BY <1>2, <3>6, <3>7, AbovePath
    <3>9. b \in Above(v, m)
      BY <1>7, <2>1, <2>2, <3>2, <3>8
    <3>10. \A c \in Above(v, m) : Binds(names, c, x.prefix) => c \in Above(v, b)
      BY <1>7, <2>1, <2>2, <3>2, <3>7, <3>8
    <3>. QED BY <3>2, <3>9, <3>10 DEF Reads
  <2>. QED BY <2>3, <2>4 DEF Readable
<1>. QED BY <1>1, <1>8 DEF Subtree

(* The nodes above are those that the same parents lead to. *)
LEMMA AboveAgrees ==
  ASSUME NEW up, Tree(up), NEW v, Tree(v), NEW m \in Nodes, \A x \in Above(up, m) : v[x] = up[x]
  PROVE  Above(v, m) = Above(up, m)
<1>1. Above(up, m) = Chain(Nodes, NULL, up, m) /\ Above(v, m) = Chain(Nodes, NULL, v, m)
  BY AboveIsChain DEF Ends
<1>. DEFINE N == Nodes
<1>2. /\ IsFiniteSet(N) /\ NULL \notin N /\ up \in [N -> N \cup {NULL}] /\ Rooted(N, up)
      /\ v \in [N -> N \cup {NULL}] /\ Rooted(N, v) /\ m \in N
      /\ \A x \in Chain(N, NULL, up, m) : v[x] = up[x]
  BY <1>1, NamesAssumption DEF Tree, Ends
<1>. HIDE DEF N
<1>3. Chain(N, NULL, v, m) = Chain(N, NULL, up, m)
  BY ONLY <1>2, ChainAgrees
<1>. QED BY <1>1, <1>3 DEF N

(* The trees that are left when one is freed *)
LEMMA DropForest ==
  ASSUME NEW up, NEW l, Forest(up, l), NEW n \in l, NEW dead, dead = {m \in l : n \in Above(up, m)},
         NEW v, v = [m \in Nodes |-> IF m \in dead THEN NULL ELSE up[m]]
  PROVE  /\ Forest(v, l \ dead)
         /\ \A m \in Nodes \ dead : Above(v, m) = Above(up, m) /\ Above(up, m) \cap dead = {}
<1>1. Tree(up) /\ l \subseteq Nodes /\ up \in [Nodes -> Ends] /\ Rooted(Nodes, up)
  BY DEF Forest, Tree
<1>2. v \in [Nodes -> Ends] /\ \A m \in Nodes : v[m] = IF m \in dead THEN NULL ELSE up[m]
  BY <1>1 DEF Ends
<1>3. Rooted(Nodes, v)
  <2>. SUFFICES ASSUME NEW X \in SUBSET Nodes, X # {}, \A m \in X : v[m] \in X PROVE FALSE
    BY DEF Rooted
  <2>1. \A m \in X : up[m] \in X
    BY <1>2, NamesAssumption
  <2>. QED BY <1>1, <2>1 DEF Rooted
<1>4. Tree(v)
  BY <1>2, <1>3 DEF Tree
<1>5. ASSUME NEW m \in Nodes \ dead, NEW a \in Above(up, m), a \in dead PROVE FALSE
  <2>1. n \in Above(up, a)
    BY <1>5
  <2>2. n \in Above(up, m)
    BY <1>1, <2>1, AbovePath DEF Ends
  <2>3. m \in l
    BY <2>2, BelowLive
  <2>. QED BY <2>2, <2>3
<1>6. ASSUME NEW m \in Nodes \ dead PROVE Above(v, m) = Above(up, m)
  <2>1. \A x \in Above(up, m) : x \in Nodes \ dead
    BY <1>1, <1>5, AboveFacts DEF Ends
  <2>2. \A x \in Above(up, m) : v[x] = up[x]
    BY <1>2, <2>1
  <2>. QED BY <1>1, <1>4, <2>2, AboveAgrees
<1>7. ASSUME NEW m \in Nodes, v[m] # NULL PROVE {m, v[m]} \subseteq l \ dead
  <2>1. m \notin dead /\ v[m] = up[m] /\ up[m] # NULL
    BY <1>2, <1>7
  <2>2. {m, up[m]} \subseteq l /\ up[m] \in Nodes
    BY <1>1, <2>1 DEF Forest
  <2>3. up[m] \in Above(up, m)
    <3>1. Above(up, m) = {m} \cup Above(up, up[m]) /\ up[m] \in Above(up, up[m])
      BY <1>1, <2>2, AboveFacts
    <3>. QED BY <3>1
  <2>4. up[m] \notin dead
    BY <1>5, <2>1, <2>3
  <2>. QED BY <2>1, <2>2, <2>4
<1>. QED BY <1>1, <1>4, <1>5, <1>6, <1>7 DEF Forest

LEMMA DropSound ==
  ASSUME Sound, NEW n \in Nodes, Drop(n)
  PROVE  Sound'
<1>. DEFINE dead == Subtree(parent, n)
            gone == UNION {ToSet(names.def[m]) : m \in dead}
            v == [m \in Nodes |-> IF m \in dead THEN NULL ELSE parent[m]]
            l == live \ dead
            u == [Freed(names, gone) EXCEPT
                    !.def  = [m \in Nodes |-> IF m \in dead THEN <<>> ELSE @[m]],
                    !.ns   = [m \in Nodes |-> IF m \in dead THEN NULL ELSE @[m]],
                    !.attr = [m \in Nodes |-> IF m \in dead THEN NULL ELSE @[m]]]
<1>1. n \in live /\ live' = l /\ parent' = v /\ edits' = edits /\ names' = u
  BY Zenon DEF Drop
<1>2. /\ Forest(parent, live) /\ Good(names, parent, live) /\ Placed(names, live, {})
      /\ names \in Names /\ edits \in 0..MaxEdits /\ Tree(parent) /\ live \subseteq Nodes
  BY DEF Sound, Good, Placed, Forest
<1>3. dead = {m \in live : n \in Above(parent, m)}
  BY DEF Subtree
<1>. HIDE DEF dead
<1>4. /\ Forest(v, l)
      /\ \A m \in Nodes \ dead : Above(v, m) = Above(parent, m) /\ Above(parent, m) \cap dead = {}
  BY <1>1, <1>2, <1>3, DropForest
<1>5. dead \subseteq live /\ dead \subseteq Nodes
  BY <1>2, <1>3
<1>6. /\ u \in Names
      /\ \A m \in Nodes : u.def[m] = IF m \in dead THEN <<>> ELSE names.def[m]
      /\ \A m \in Nodes : u.ns[m] = IF m \in dead THEN NULL ELSE names.ns[m]
      /\ \A m \in Nodes : u.attr[m] = IF m \in dead THEN NULL ELSE names.attr[m]
      /\ \A d \in Decls : u.decl[d] = IF d \in gone THEN NULL ELSE names.decl[d]
  <2>. HIDE DEF gone
  <2>. DEFINE f == Freed(names, gone)
              DD == [m \in Nodes |-> IF m \in dead THEN <<>> ELSE names.def[m]]
              NN == [m \in Nodes |-> IF m \in dead THEN NULL ELSE names.ns[m]]
              AA == [m \in Nodes |-> IF m \in dead THEN NULL ELSE names.attr[m]]
              CC == [d \in Decls |-> IF d \in gone THEN NULL ELSE names.decl[d]]
  <2>1. /\ names.def \in [Nodes -> Seq(Decls)] /\ names.ns \in [Nodes -> Decls \cup {NULL}]
        /\ names.attr \in [Nodes -> Decls \cup {NULL}]
        /\ names.decl \in [Decls -> {NULL} \cup DeclRecords]
    BY <1>2 DEF Names, DeclRecords
  <2>2. /\ DD \in [Nodes -> Seq(Decls)] /\ NN \in [Nodes -> Decls \cup {NULL}]
        /\ AA \in [Nodes -> Decls \cup {NULL}] /\ CC \in [Decls -> {NULL} \cup DeclRecords]
    BY <2>1
  <2>3. f = [names EXCEPT !.decl = CC]
    <3>1. f = [names EXCEPT !.decl = [d \in Decls |-> IF d \in gone THEN NULL ELSE @[d]]]
      BY DEF Freed
    <3>. QED BY <1>2, <3>1 DEF Names
  <2>4. u = [f EXCEPT !.def  = [m \in Nodes |-> IF m \in dead THEN <<>> ELSE @[m]],
                      !.ns   = [m \in Nodes |-> IF m \in dead THEN NULL ELSE @[m]],
                      !.attr = [m \in Nodes |-> IF m \in dead THEN NULL ELSE @[m]]]
    BY Zenon
  <2>. HIDE DEF CC, f, u
  <2>5. Names = [def : [Nodes -> Seq(Decls)], ns : [Nodes -> Decls \cup {NULL}],
                 attr : [Nodes -> Decls \cup {NULL}], decl : [Decls -> {NULL} \cup DeclRecords]]
    BY DEF Names, DeclRecords
  <2>6. /\ f \in Names /\ f.def = names.def /\ f.ns = names.ns /\ f.attr = names.attr
        /\ f.decl = CC
    BY <1>2, <2>2, <2>3, <2>5
  <2>7. u = [f EXCEPT !.def = DD, !.ns = NN, !.attr = AA]
    BY <2>4, <2>5, <2>6
  <2>8. /\ DD \in [Nodes -> Seq(Decls)] /\ \A m \in Nodes : DD[m] = IF m \in dead THEN <<>> ELSE names.def[m]
        /\ \A m \in Nodes : NN[m] = IF m \in dead THEN NULL ELSE names.ns[m]
        /\ \A m \in Nodes : AA[m] = IF m \in dead THEN NULL ELSE names.attr[m]
        /\ \A d \in Decls : CC[d] = IF d \in gone THEN NULL ELSE names.decl[d]
    BY <2>2 DEF CC
  <2>. HIDE DEF DD, NN, AA
  <2>9. u \in Names /\ u.def = DD /\ u.ns = NN /\ u.attr = AA /\ u.decl = CC
    BY <2>2, <2>5, <2>6, <2>7
  <2>. QED BY <2>8, <2>9
<1>7. \A m \in dead : u.def[m] = <<>> /\ Held(u, m) = {}
  <2>1. ToSet(<<>>) = {}
    BY DEF ToSet
  <2>. QED BY <1>5, <1>6, <2>1 DEF Held
<1>. HIDE DEF u
<1>8. \A m \in Nodes : Held(u, m) = IF m \in dead THEN {} ELSE Held(names, m)
  BY <1>6, <1>7 DEF Held
<1>9. gone = UNION {Held(names, m) : m \in dead}
  BY DEF Held
<1>. HIDE DEF gone
<1>10. /\ \A m \in Nodes : Unrepeated(names.def[m])
       /\ \A m \in Nodes : \A d \in Held(names, m) : m \in live /\ names.decl[d] # NULL
       /\ \A m, k \in Nodes : \A d \in Held(names, m) \cap Held(names, k) : m = k
       /\ \A d \in Decls : names.decl[d] # NULL => \E m \in Nodes : d \in Held(names, m)
       /\ \A m \in Nodes \ live : names.ns[m] = NULL /\ names.attr[m] = NULL
       /\ \A m \in Nodes : Held(names, m) \subseteq Decls
  BY <1>2, StoreTypes DEF Placed
<1>11. \A m \in Nodes \ dead : \A d \in Held(names, m) : d \notin gone
  BY <1>5, <1>9, <1>10
<1>12. Placed(u, l, {})
  <2>1. \A m \in Nodes : Unrepeated(u.def[m])
    <3>1. Unrepeated(<<>>)
      BY DEF Unrepeated
    <3>. QED BY <1>6, <1>10, <3>1
  <2>2. \A m \in Nodes : \A d \in Held(u, m) : m \in l /\ u.decl[d] # NULL
    BY <1>6, <1>8, <1>10, <1>11
  <2>3. \A m, k \in Nodes : \A d \in Held(u, m) \cap Held(u, k) : m = k
    BY <1>8, <1>10
  <2>4. ASSUME NEW d \in Decls, u.decl[d] # NULL PROVE \E m \in Nodes : d \in Held(u, m)
    <3>1. d \notin gone /\ names.decl[d] # NULL
      BY <1>6, <2>4
    <3>2. PICK m \in Nodes : d \in Held(names, m)
      BY <1>10, <3>1
    <3>. QED BY <1>8, <1>9, <3>1, <3>2
  <2>5. \A m \in Nodes \ l : u.ns[m] = NULL /\ u.attr[m] = NULL
    BY <1>6, <1>10
  <2>. QED BY <1>6, <2>1, <2>2, <2>3, <2>4, <2>5 DEF Placed
<1>13. ASSUME NEW m \in Nodes, NEW r \in Refs PROVE Scoped(u, v, m, r)
  <2>1. u[r][m] = IF m \in dead THEN NULL ELSE names[r][m]
    <3>1. names.ns = names["ns"] /\ names.attr = names["attr"] /\ u.ns = u["ns"] /\ u.attr = u["attr"]
      BY <1>2, <1>6, StoreTypes
    <3>. QED BY <1>6, <3>1 DEF Refs
  <2>2. CASE m \in dead
    BY <2>1, <2>2 DEF Scoped
  <2>3. CASE m \notin dead
    <3>1. Scoped(names, parent, m, r)
      BY <1>2 DEF Good
    <3>2. /\ Above(v, m) = Above(parent, m) /\ Above(parent, m) \cap dead = {}
          /\ Above(parent, m) \subseteq Nodes
      BY <1>2, <1>4, <2>3, AboveFacts DEF Ends
    <3>3. \A a \in Above(parent, m) : Held(u, a) = Held(names, a)
      BY <1>8, <3>2
    <3>. QED BY <2>1, <2>3, <3>1, <3>2, <3>3 DEF Scoped
  <2>. QED BY <2>2, <2>3
<1>. HIDE DEF v, l
<1>14. Good(u, v, l)
  BY <1>12, <1>13 DEF Good
<1>. QED BY <1>1, <1>2, <1>4, <1>14 DEF Sound, Forest, Good

-----------------------------------------------------------------------------
(* Operations on one element.                                              *)

LEMMA EditFacts ==
  ASSUME Sound, NEW n \in Nodes, Edit(n), Good(names', parent, live)
  PROVE  Sound'
<1>1. /\ n \in live /\ edits < MaxEdits /\ edits' = edits + 1
      /\ parent' = parent /\ live' = live /\ edits \in 0..MaxEdits
  BY DEF Edit, Sound
<1>2. edits' \in 0..MaxEdits
  BY <1>1, NamesAssumption
<1>. QED BY <1>1, <1>2 DEF Sound, Forest, Good

LEMMA SoundFacts ==
  ASSUME Sound
  PROVE  /\ Tree(parent) /\ live \subseteq Nodes
         /\ Good(names, parent, live) /\ Placed(names, live, {}) /\ names \in Names
         /\ \A n \in Nodes : n \in Above(parent, n) /\ Above(parent, n) \subseteq Nodes
         /\ \A n \in Nodes : \A d : d \in Held(names, n) =>
              \E a \in Above(parent, n) : d \in Held(names, a)
<1>1. /\ Tree(parent) /\ live \subseteq Nodes
      /\ Good(names, parent, live) /\ Placed(names, live, {}) /\ names \in Names
  BY DEF Sound, Forest, Good, Placed
<1>2. \A n \in Nodes : n \in Above(parent, n) /\ Above(parent, n) \subseteq Nodes
  BY <1>1, AboveFacts DEF Ends
<1>. QED BY <1>1, <1>2

LEMMA RoomForOne ==
  ASSUME Room(1)
  PROVE  Unused(names) # {}
BY FS_EmptySet DEF Room

LEMMA CreateSound ==
  ASSUME Sound, NEW n \in Nodes, NEW prefix \in NsPrefixes, NEW href \in URIs \cup {NULL},
         Create(n, prefix, href)
  PROVE  Sound'
<1>. DEFINE l == live \cup {n}
<1>1. n \notin live /\ live' = l /\ parent' = parent /\ edits' = edits
  BY DEF Create
<1>2. /\ Tree(parent) /\ l \subseteq Nodes /\ n \in l /\ Forest(parent, live)
      /\ Placed(names, live, {}) /\ \A m \in Nodes, r \in Refs : Scoped(names, parent, m, r)
  BY SoundFacts DEF Sound, Good
<1>3. Forest(parent, l)
  BY <1>2 DEF Forest
<1>4. Good(names, parent, l)
  <2>1. Placed(names, l, {})
    BY <1>2, PlacedMore
  <2>. QED BY <1>2, <2>1 DEF Good
<1>. HIDE DEF l
<1>5. Good(names', parent, l)
  <2>1. CASE href = NULL
    BY <1>4, <2>1 DEF Create
  <2>2. CASE href # NULL
    <3>. DEFINE u == NewNs(names, n, prefix, href)
                e == FreshDecl(names)
    <3>1. Unused(names) # {}
      BY <2>2, RoomForOne DEF Create
    <3>2. Good(u, parent, l) /\ e \in Held(u, n)
      BY <1>2, <1>4, <3>1, Declared
    <3>3. names' = Redirect(u, "ns", n, e)
      BY <2>2 DEF Create, Redirect
    <3>. HIDE DEF u, e
    <3>4. \E a \in Above(parent, n) : e \in Held(u, a)
      BY <1>2, <3>2, AboveFacts
    <3>5. "ns" \in Refs
      BY DEF Refs
    <3>. QED BY <1>2, <3>2, <3>3, <3>4, <3>5, Repaired
  <2>. QED BY <2>1, <2>2
<1>. QED BY <1>1, <1>3, <1>5 DEF Sound, Forest, Good

(* What a search finds is in scope. *)
LEMMA FoundInScope ==
  ASSUME Sound, NEW n \in Nodes, NEW prefix, NEW d, d = SearchNs(names, parent, n, prefix), d # NULL
  PROVE  \E a \in Above(parent, n) : d \in Held(names, a)
<1>1. Tree(parent) /\ names \in Names /\ Good(names, parent, live)
  BY SoundFacts
<1>2. Landed(names, parent, n, d)
  BY <1>1, SearchLands DEF Ends
<1>3. PICK a \in Above(parent, n) : d \in Held(names, a) \/ d = names.ns[a]
  BY <1>2 DEF Landed, Held
<1>4. CASE d = names.ns[a]
  <2>1. a \in Nodes /\ Above(parent, a) \subseteq Above(parent, n)
    BY <1>1, AbovePath DEF Ends
  <2>2. names.ns = names["ns"] /\ "ns" \in Refs
    BY <1>1, StoreTypes DEF Refs
  <2>3. Scoped(names, parent, a, "ns")
    BY <1>1, <2>1, <2>2 DEF Good
  <2>4. PICK b \in Above(parent, a) : d \in Held(names, b)
    BY <1>4, <2>2, <2>3 DEF Scoped
  <2>. QED BY <2>1, <2>4
<1>. QED BY <1>3, <1>4

LEMMA SetNamespaceSound ==
  ASSUME Sound, NEW n \in Nodes, NEW prefix \in NsPrefixes, NEW href \in URIs \cup {NULL},
         NEW activate \in BOOLEAN, SetNamespace(n, prefix, href, activate)
  PROVE  Sound'
<1>. DEFINE seen  == SearchNs(names, parent, n, prefix)
            reuse == activate /\ seen # NULL /\ names.decl[seen].href = href
            clear == prefix = NULL /\ href = NULL
            u == NewNs(names, n, prefix, href)
            e == FreshDecl(names)
<1>1. Edit(n) /\ n \in live
  BY DEF SetNamespace, Edit
<1>2. \/ clear /\ activate /\ seen = NULL /\ names' = Redirect(names, "ns", n, NULL)
      \/ ~clear /\ reuse /\ names' = Redirect(names, "ns", n, seen)
      \/ Room(1) /\ names' = [u EXCEPT !.ns[n] = IF activate THEN e ELSE @]
  BY Zenon DEF SetNamespace, Redirect
<1>3. /\ Tree(parent) /\ Good(names, parent, live) /\ names \in Names
      /\ n \in Above(parent, n) /\ "ns" \in Refs
  BY SoundFacts DEF Refs
<1>4. seen # NULL => \E a \in Above(parent, n) : seen \in Held(names, a)
  BY FoundInScope
<1>5. Room(1) => Good(u, parent, live) /\ e \in Held(u, n)
  BY <1>1, <1>3, RoomForOne, Declared
<1>. HIDE DEF seen, u, e
<1>6. CASE names' = Redirect(names, "ns", n, NULL)
  <2>1. Good(names', parent, live)
    BY <1>1, <1>3, <1>6, Repaired
  <2>. QED BY <1>1, <2>1, EditFacts
<1>7. CASE reuse /\ names' = Redirect(names, "ns", n, seen)
  <2>1. Good(names', parent, live)
    BY <1>1, <1>3, <1>4, <1>7, Repaired
  <2>. QED BY <1>1, <2>1, EditFacts
<1>8. CASE Room(1) /\ names' = [u EXCEPT !.ns[n] = IF activate THEN e ELSE @]
  <2>1. CASE activate
    <3>1. names' = Redirect(u, "ns", n, e)
      BY <1>8, <2>1 DEF Redirect
    <3>2. Good(names', parent, live)
      BY <1>1, <1>3, <1>5, <1>8, <3>1, Repaired
    <3>. QED BY <1>1, <3>2, EditFacts
  <2>2. CASE ~activate
    <3>1. u \in Names
      BY <1>5, <1>8 DEF Good, Placed
    <3>2. names' = u
      <4>1. names' = [u EXCEPT !.ns[n] = u.ns[n]]
        BY <1>8, <2>2
      <4>. QED BY <3>1, <4>1 DEF Names
    <3>3. Good(names', parent, live)
      BY <1>5, <1>8, <3>2
    <3>. QED BY <1>1, <3>3, EditFacts
  <2>. QED BY <2>1, <2>2
<1>. QED BY <1>2, <1>6, <1>7, <1>8

(* The declaration that an operation edits is one of n. *)
LEMMA EditedHeld ==
  ASSUME Sound, NEW n \in Nodes, NEW prefix, Edited(n, prefix) # 0,
         NEW d, d = names.def[n][Edited(n, prefix)]
  PROVE  d \in Decls /\ names.decl[d] \in DeclRecords /\ names.decl[d] # NULL
<1>. DEFINE s == names.def[n]
            I == {i \in 1..Len(s) : /\ names.decl[s[i]] = [prefix |-> prefix, href |-> names.decl[s[i]].href]
                                    /\ (prefix # NULL \/ names.decl[s[i]].href # NULL)}
<1>1. Edited(n, prefix) = IF I # {} THEN Min(I) ELSE 0
  BY DEF Edited, SelectInSeq
<1>2. names \in Names /\ Placed(names, live, {})
  BY SoundFacts
<1>3. s \in Seq(Decls) /\ Len(s) \in Nat /\ DOMAIN s = 1..Len(s)
  BY <1>2, StoreTypes, LenProperties
<1>4. I # {} /\ I \in SUBSET (1..Len(s)) /\ Edited(n, prefix) = Min(I)
  BY <1>1
<1>. HIDE DEF I
<1>5. Min(I) \in 1..Len(s)
  BY <1>3, <1>4, LeastIndex
<1>6. d = s[Min(I)]
  BY <1>4
<1>7. d \in Held(names, n)
  BY <1>3, <1>5, <1>6 DEF Held, ToSet
<1>. QED BY <1>2, <1>7, StoreTypes DEF Placed

LEMMA DeclURISound ==
  ASSUME Sound, NEW n \in Nodes, NEW prefix \in NsPrefixes, NEW href \in URIs \cup {NULL},
         SetNamespaceDeclURI(n, prefix, href)
  PROVE  Sound'
<1>. DEFINE d == names.def[n][Edited(n, prefix)]
            base == [names EXCEPT !.decl[d].href = href]
            rec == [names.decl[d] EXCEPT !.href = href]
            Cleared(ref) == [m \in Nodes |-> IF m \in Subtree(parent, n) /\ base[ref][m] = d
                                             THEN NULL ELSE base[ref][m]]
<1>1. Edit(n) /\ Edited(n, prefix) # 0
  BY DEF SetNamespaceDeclURI
<1>2. names' = IF href = NULL THEN RemoveNsRefs(base, n, d) ELSE base
  BY Zenon DEF SetNamespaceDeclURI
<1>3. d \in Decls /\ names.decl[d] \in DeclRecords /\ names.decl[d] # NULL
  BY <1>1, EditedHeld
<1>4. RemoveNsRefs(base, n, d) = [base EXCEPT !.ns = Cleared("ns"), !.attr = Cleared("attr")]
  BY Zenon DEF RemoveNsRefs
<1>5. names \in Names /\ Good(names, parent, live)
  BY SoundFacts
<1>. HIDE DEF d
<1>6. rec \in DeclRecords /\ rec # NULL
  <2>1. rec \in DeclRecords
    BY <1>3 DEF DeclRecords
  <2>. QED BY <2>1, NamesAssumption DEF DeclRecords
<1>7. base = [names EXCEPT !.decl[d] = rec]
  BY <1>3, <1>5 DEF Names
<1>. HIDE DEF rec, base
<1>8. Names = [def : [Nodes -> Seq(Decls)], ns : [Nodes -> Decls \cup {NULL}],
               attr : [Nodes -> Decls \cup {NULL}], decl : [Decls -> {NULL} \cup DeclRecords]]
  BY DEF Names, DeclRecords
<1>9. /\ base \in Names /\ base.def = names.def /\ base.ns = names.ns /\ base.attr = names.attr
      /\ \A c \in Decls : base.decl[c] = IF c = d THEN rec ELSE names.decl[c]
  BY <1>3, <1>5, <1>6, <1>7, <1>8
<1>10. \A c \in Decls : base.decl[c] = NULL <=> names.decl[c] = NULL
  BY <1>3, <1>6, <1>9
<1>11. /\ base.ns = base["ns"] /\ base.attr = base["attr"]
       /\ names.ns = names["ns"] /\ names.attr = names["attr"] /\ Refs = {"ns", "attr"}
  BY <1>5, <1>9, StoreTypes DEF Refs
<1>12. CASE names' = base
  <2>1. \A m \in Nodes, r \in Refs : names'[r][m] \in {NULL, names[r][m]}
    BY <1>9, <1>11, <1>12
  <2>2. Good(names', parent, live)
    BY <1>5, <1>9, <1>10, <1>12, <2>1, Retained
  <2>. QED BY <1>1, <2>2, EditFacts
<1>13. CASE names' = RemoveNsRefs(base, n, d)
  <2>. DEFINE NN == Cleared("ns")
              AA == Cleared("attr")
              u == [base EXCEPT !.ns = NN, !.attr = AA]
  <2>1. names' = u
    BY <1>4, <1>13
  <2>2. /\ \A m \in Nodes : NN[m] \in {NULL, names.ns[m]} /\ AA[m] \in {NULL, names.attr[m]}
        /\ NN \in [Nodes -> Decls \cup {NULL}] /\ AA \in [Nodes -> Decls \cup {NULL}]
    <3>1. /\ base.ns \in [Nodes -> Decls \cup {NULL}] /\ base.attr \in [Nodes -> Decls \cup {NULL}]
      BY <1>9, <1>8
    <3>. QED BY <1>9, <1>11, <3>1
  <2>. HIDE DEF NN, AA
  <2>3. u \in Names /\ u.def = names.def /\ u.decl = base.decl /\ u.ns = NN /\ u.attr = AA
    BY <1>8, <1>9, <2>2
  <2>. HIDE DEF u
  <2>4. u.ns = u["ns"] /\ u.attr = u["attr"]
    BY <2>3, StoreTypes
  <2>5. \A m \in Nodes, r \in Refs : u[r][m] \in {NULL, names[r][m]}
    BY <1>11, <2>2, <2>3, <2>4
  <2>6. Good(u, parent, live)
    BY <1>5, <1>10, <2>3, <2>5, Retained
  <2>. QED BY <1>1, <2>1, <2>6, EditFacts
<1>. QED BY <1>2, <1>12, <1>13

LEMMA DeclPrefixSound ==
  ASSUME Sound, NEW n \in Nodes, NEW prefix \in NsPrefixes, NEW new \in NsPrefixes,
         SetNamespaceDeclPrefix(n, prefix, new)
  PROVE  Sound'
<1>. DEFINE d == names.def[n][Edited(n, prefix)]
            base == [names EXCEPT !.decl[d].prefix = new]
            rec == [names.decl[d] EXCEPT !.prefix = new]
<1>1. Edit(n) /\ Edited(n, prefix) # 0
  BY DEF SetNamespaceDeclPrefix
<1>2. names' = base
  BY Zenon DEF SetNamespaceDeclPrefix
<1>3. d \in Decls /\ names.decl[d] \in DeclRecords /\ names.decl[d] # NULL
  BY <1>1, EditedHeld
<1>5. names \in Names /\ Good(names, parent, live)
  BY SoundFacts
<1>. HIDE DEF d
<1>6. rec \in DeclRecords /\ rec # NULL
  <2>1. rec \in DeclRecords
    BY <1>3 DEF DeclRecords
  <2>. QED BY <2>1, NamesAssumption DEF DeclRecords
<1>7. base = [names EXCEPT !.decl[d] = rec]
  BY <1>3, <1>5 DEF Names
<1>. HIDE DEF rec, base
<1>8. Names = [def : [Nodes -> Seq(Decls)], ns : [Nodes -> Decls \cup {NULL}],
               attr : [Nodes -> Decls \cup {NULL}], decl : [Decls -> {NULL} \cup DeclRecords]]
  BY DEF Names, DeclRecords
<1>9. /\ base \in Names /\ base.def = names.def /\ base.ns = names.ns /\ base.attr = names.attr
      /\ \A c \in Decls : base.decl[c] = IF c = d THEN rec ELSE names.decl[c]
  BY <1>3, <1>5, <1>6, <1>7, <1>8
<1>10. \A c \in Decls : base.decl[c] = NULL <=> names.decl[c] = NULL
  BY <1>3, <1>6, <1>9
<1>11. /\ base.ns = base["ns"] /\ base.attr = base["attr"]
       /\ names.ns = names["ns"] /\ names.attr = names["attr"] /\ Refs = {"ns", "attr"}
  BY <1>5, <1>9, StoreTypes DEF Refs
<1>12. \A m \in Nodes, r \in Refs : base[r][m] \in {NULL, names[r][m]}
  BY <1>9, <1>11
<1>13. Good(base, parent, live)
  BY <1>5, <1>9, <1>10, <1>12, Retained
<1>. QED BY <1>1, <1>2, <1>13, EditFacts

LEMMA SetAttributeSound ==
  ASSUME Sound, NEW n \in Nodes, NEW prefix \in NsPrefixes, NEW href \in URIs,
         SetAttributeNS(n, prefix, href)
  PROVE  Sound'
<1>. DEFINE usable == {d \in InScope(n) : names.decl[d].href = href /\ names.decl[d].prefix # NULL}
            u == NewNs(names, n, prefix, href)
            e == FreshDecl(names)
<1>1. Edit(n) /\ n \in live
  BY DEF SetAttributeNS, Edit
<1>2. \/ \E d \in usable : names' = Redirect(names, "attr", n, d)
      \/ Room(1) /\ names' = Redirect(u, "attr", n, e)
  BY Zenon DEF SetAttributeNS, Redirect
<1>3. /\ Tree(parent) /\ Good(names, parent, live) /\ names \in Names
      /\ n \in Above(parent, n) /\ "attr" \in Refs
  BY SoundFacts DEF Refs
<1>4. Room(1) => Good(u, parent, live) /\ e \in Held(u, n)
  BY <1>1, <1>3, RoomForOne, Declared
<1>5. \A d \in usable : \E a \in Above(parent, n) : d \in Held(names, a)
  BY DEF InScope, Held
<1>. HIDE DEF usable, u, e
<1>6. Good(names', parent, live)
  <2>1. CASE \E d \in usable : names' = Redirect(names, "attr", n, d)
    <3>1. PICK d \in usable : names' = Redirect(names, "attr", n, d)
      BY <2>1
    <3>2. \E a \in Above(parent, n) : d \in Held(names, a)
      BY <1>5
    <3>. QED BY <1>1, <1>3, <3>1, <3>2, Repaired
  <2>2. CASE Room(1) /\ names' = Redirect(u, "attr", n, e)
    BY <1>1, <1>3, <1>4, <2>2, Repaired
  <2>. QED BY <1>2, <2>1, <2>2
<1>. QED BY <1>1, <1>6, EditFacts

LEMMA RemoveAttributeSound ==
  ASSUME Sound, NEW n \in Nodes, RemoveAttributeNS(n)
  PROVE  Sound'
<1>1. Edit(n) /\ n \in live /\ names' = Redirect(names, "attr", n, NULL)
  BY DEF RemoveAttributeNS, Edit, Redirect
<1>2. Tree(parent) /\ Good(names, parent, live) /\ "attr" \in Refs
  BY SoundFacts DEF Refs
<1>3. Good(names', parent, live)
  BY <1>1, <1>2, Repaired
<1>. QED BY <1>1, <1>3, EditFacts

-----------------------------------------------------------------------------
(* The theorems.                                                           *)

LEMMA InitSound ==
  ASSUME Init
  PROVE  Sound
<1>1. parent = [n \in Nodes |-> NULL] /\ live = {} /\ edits = 0
  BY DEF Init
<1>2. Tree(parent)
  <2>1. Rooted(Nodes, parent)
    BY <1>1, NamesAssumption DEF Rooted
  <2>. QED BY <1>1, <2>1 DEF Tree, Ends
<1>3. Forest(parent, live)
  BY <1>1, <1>2 DEF Forest
<1>4. /\ names \in Names
      /\ \A n \in Nodes : names.def[n] = <<>>
      /\ \A r \in Refs, n \in Nodes : names[r][n] = NULL
      /\ \A n \in Nodes : names.ns[n] = NULL /\ names.attr[n] = NULL
      /\ \A d \in Decls : names.decl[d] = NULL
  <2>1. names = [def  |-> [n \in Nodes |-> <<>>], ns   |-> [n \in Nodes |-> NULL],
                 attr |-> [n \in Nodes |-> NULL], decl |-> [d \in Decls |-> NULL]]
    BY DEF Init
  <2>2. \A n \in Nodes : <<>> \in Seq(Decls)
    OBVIOUS
  <2>3. names \in Names
    BY <2>1, <2>2 DEF Names
  <2>. QED BY <2>1, <2>3 DEF Refs
<1>5. \A n \in Nodes : Unrepeated(names.def[n]) /\ Held(names, n) = {}
  <2>1. Unrepeated(<<>>) /\ ToSet(<<>>) = {}
    BY DEF Unrepeated, ToSet
  <2>. QED BY <1>4, <2>1 DEF Held
<1>6. Placed(names, live, {})
  BY <1>4, <1>5 DEF Placed
<1>7. \A m \in Nodes, r \in Refs : Scoped(names, parent, m, r)
  BY <1>4 DEF Scoped
<1>. QED BY <1>1, <1>3, <1>6, <1>7, NamesAssumption DEF Sound, Good

LEMMA NextSound ==
  ASSUME Careful, Sound, [Next]_vars
  PROVE  Sound'
<1>1. CASE UNCHANGED vars
  BY <1>1 DEF vars, Sound, Forest, Good
<1>2. CASE Next
  <2>1. PICK n \in Nodes :
          \/ \E prefix \in NsPrefixes, href \in URIs \cup {NULL} :
               \/ Create(n, prefix, href)
               \/ \E activate \in BOOLEAN : SetNamespace(n, prefix, href, activate)
               \/ SetNamespaceDeclURI(n, prefix, href)
          \/ \E prefix, new \in NsPrefixes : SetNamespaceDeclPrefix(n, prefix, new)
          \/ \E prefix \in NsPrefixes, href \in URIs : SetAttributeNS(n, prefix, href)
          \/ RemoveAttributeNS(n)
          \/ \E p \in Nodes : AppendChild(p, n)
          \/ RemoveChild(n)
          \/ Unbind(n)
          \/ Drop(n)
    BY <1>2 DEF Next
  <2>2. ASSUME NEW prefix \in NsPrefixes, NEW href \in URIs \cup {NULL}, Create(n, prefix, href)
        PROVE  Sound'
    BY <2>2, CreateSound
  <2>3. ASSUME NEW prefix \in NsPrefixes, NEW href \in URIs \cup {NULL}, NEW activate \in BOOLEAN,
               SetNamespace(n, prefix, href, activate)
        PROVE  Sound'
    BY <2>3, SetNamespaceSound
  <2>4. ASSUME NEW prefix \in NsPrefixes, NEW href \in URIs \cup {NULL},
               SetNamespaceDeclURI(n, prefix, href)
        PROVE  Sound'
    BY <2>4, DeclURISound
  <2>5. ASSUME NEW prefix \in NsPrefixes, NEW new \in NsPrefixes,
               SetNamespaceDeclPrefix(n, prefix, new)
        PROVE  Sound'
    BY <2>5, DeclPrefixSound
  <2>6. ASSUME NEW prefix \in NsPrefixes, NEW href \in URIs, SetAttributeNS(n, prefix, href)
        PROVE  Sound'
    BY <2>6, SetAttributeSound
  <2>7. CASE RemoveAttributeNS(n)
    BY <2>7, RemoveAttributeSound
  <2>8. ASSUME NEW p \in Nodes, AppendChild(p, n) PROVE Sound'
    BY <2>8, AppendChildSound
  <2>9. CASE RemoveChild(n)
    BY <2>9, RemoveChildSound
  <2>10. CASE Unbind(n)
    BY <2>10, UnbindSound
  <2>11. CASE Drop(n)
    BY <2>11, DropSound
  <2>. QED BY <2>1, <2>2, <2>3, <2>4, <2>5, <2>6, <2>7, <2>8, <2>9, <2>10, <2>11
<1>. QED BY <1>1, <1>2

(* While no node is unbound that uses a declaration from above, every      *)
(* declaration is in one list and every name is below its declaration: the *)
(* reconciliation of dom.c, its copies and its freed chain included, the   *)
(* operations on one element and the freeing of trees keep it so.          *)
THEOREM AlwaysSound ==
  ASSUME Careful
  PROVE  Spec => []Sound
<1>1. Init => Sound
  BY InitSound
<1>2. Sound /\ [Next]_vars => Sound'
  BY NextSound
<1>. QED BY <1>1, <1>2, PTL DEF Spec

(* The variables have values of their types. *)
THEOREM TypeCorrect ==
  ASSUME Careful
  PROVE  Spec => []TypeOK
<1>1. Sound => TypeOK
  BY DEF Sound, Forest, Tree, Ends, Good, Placed, TypeOK
<1>. QED BY <1>1, AlwaysSound, PTL

(* No element and no attribute has a namespace whose declaration was freed *)
(* with the element it belongs to (domReconcileNs, dom.c).                 *)
THEOREM AlwaysNamesInScope ==
  ASSUME Careful
  PROVE  Spec => []NamesInScope
<1>1. Sound => NamesInScope
  BY DEF Sound, Forest, Good, Scoped, Held, NamesInScope
<1>. QED BY <1>1, AlwaysSound, PTL

(* A list is no longer than there are declarations. *)
LEMMA ListBound ==
  ASSUME NEW s \in Seq(Decls), Unrepeated(s)
  PROVE  Len(s) \in 0..MaxDecls
<1>1. Len(s) \in Nat /\ DOMAIN s = 1..Len(s) /\ s \in [1..Len(s) -> Decls]
  BY LenProperties
<1>2. IsFiniteSet(1..Len(s)) /\ Cardinality(1..Len(s)) = Len(s)
  BY <1>1, FS_Interval
<1>3. IsFiniteSet(Decls) /\ Cardinality(Decls) = MaxDecls
  BY NamesAssumption, FS_Interval DEF Decls
<1>4. ~ (Len(s) > MaxDecls)
  <2>1. SUFFICES ASSUME Len(s) > MaxDecls PROVE FALSE
    OBVIOUS
  <2>2. Cardinality(Decls) < Cardinality(1..Len(s))
    BY <1>1, <1>2, <1>3, <2>1, NamesAssumption
  <2>3. \E x, y \in 1..Len(s) : x # y /\ s[x] = s[y]
    BY <1>1, <1>2, <1>3, <2>2, FS_PigeonHole
  <2>. QED BY <1>1, <2>3 DEF Unrepeated
<1>. QED BY <1>1, <1>4, NamesAssumption

(* No declaration is leaked by a reconciliation, and none is in two lists, *)
(* so that none is freed twice.                                            *)
THEOREM AlwaysDeclaredOnce ==
  ASSUME Careful
  PROVE  Spec => []DeclaredOnce
<1>1. ASSUME Sound PROVE DeclaredOnce
  <2>. SUFFICES ASSUME NEW d \in Decls
                PROVE  LET at == {p \in live \X (1..MaxDecls) :
                                    /\ p[2] \in DOMAIN names.def[p[1]]
                                    /\ names.def[p[1]][p[2]] = d}
                       IN  Cardinality(at) = IF names.decl[d] = NULL THEN 0 ELSE 1
    BY DEF DeclaredOnce
  <2>. DEFINE at == {p \in live \X (1..MaxDecls) :
                       p[2] \in DOMAIN names.def[p[1]] /\ names.def[p[1]][p[2]] = d}
  <2>1. Placed(names, live, {}) /\ names \in Names /\ live \subseteq Nodes
    BY <1>1, SoundFacts
  <2>2. \A p \in at : p[1] \in Nodes /\ d \in Held(names, p[1])
    BY <2>1 DEF Held, ToSet
  <2>3. CASE names.decl[d] = NULL
    <3>1. at = {}
      BY <2>1, <2>2, <2>3 DEF Placed
    <3>. QED BY <2>3, <3>1, FS_EmptySet
  <2>4. CASE names.decl[d] # NULL
    <3>1. PICK n \in Nodes : d \in Held(names, n)
      BY <2>1, <2>4 DEF Placed
    <3>2. PICK i \in DOMAIN names.def[n] : names.def[n][i] = d
      BY <3>1 DEF Held, ToSet
    <3>3. n \in live /\ names.def[n] \in Seq(Decls) /\ Unrepeated(names.def[n])
      BY <2>1, <3>1, StoreTypes DEF Placed
    <3>4. i \in 1..MaxDecls
      <4>1. Len(names.def[n]) \in 0..MaxDecls /\ i \in 1..Len(names.def[n])
        BY <3>2, <3>3, ListBound, LenProperties
      <4>. QED BY <4>1, NamesAssumption
    <3>5. <<n, i>> \in at
      BY <3>2, <3>3, <3>4
    <3>6. ASSUME NEW p \in at PROVE p = <<n, i>>
      <4>1. p[1] = n
        BY <2>1, <2>2, <3>1 DEF Placed
      <4>2. p[2] = i
        BY <3>2, <3>3, <4>1 DEF Unrepeated
      <4>. QED BY <4>1, <4>2
    <3>7. at = {<<n, i>>}
      BY <3>5, <3>6
    <3>. HIDE DEF at
    <3>. QED BY <2>4, <3>7, FS_Singleton DEF at
  <2>. QED BY <2>3, <2>4
<1>2. Sound => DeclaredOnce
  BY <1>1
<1>. QED BY <1>2, AlwaysSound, PTL

(* An element gets another parent by an insertion, by a removal or by      *)
(* being unbound. *)
LEMMA OnlyMoves ==
  ASSUME Sound, Next, NEW k \in live \cap live', parent'[k] # parent[k]
  PROVE  k \in Nodes /\ ((\E p \in Nodes : AppendChild(p, k)) \/ RemoveChild(k) \/ Unbind(k))
<1>. DEFINE Moved == k \in Nodes /\ ((\E p \in Nodes : AppendChild(p, k)) \/ RemoveChild(k) \/ Unbind(k))
<1>. SUFFICES Moved
  OBVIOUS
<1>0. ~ (parent' = parent)
  OBVIOUS
<1>1. live \subseteq Nodes /\ parent \in [Nodes -> Ends]
  BY SoundFacts DEF Tree
<1>2. PICK n \in Nodes :
        \/ \E prefix \in NsPrefixes, href \in URIs \cup {NULL} :
             \/ Create(n, prefix, href)
             \/ \E activate \in BOOLEAN : SetNamespace(n, prefix, href, activate)
             \/ SetNamespaceDeclURI(n, prefix, href)
        \/ \E prefix, new \in NsPrefixes : SetNamespaceDeclPrefix(n, prefix, new)
        \/ \E prefix \in NsPrefixes, href \in URIs : SetAttributeNS(n, prefix, href)
        \/ RemoveAttributeNS(n)
        \/ \E p \in Nodes : AppendChild(p, n)
        \/ RemoveChild(n)
        \/ Unbind(n)
        \/ Drop(n)
  BY Zenon DEF Next
<1>3. ASSUME NEW p \in Nodes, AppendChild(p, n) PROVE Moved
  <2>1. parent' = [parent EXCEPT ![n] = p]
    BY <1>3 DEF AppendChild
  <2>2. k = n
    BY <1>1, <2>1
  <2>. QED BY <1>1, <1>3, <2>2
<1>4. CASE RemoveChild(n) \/ Unbind(n)
  <2>1. parent' = [parent EXCEPT ![n] = NULL]
    BY <1>4 DEF RemoveChild, Unbind
  <2>2. k = n
    BY <1>1, <2>1
  <2>. QED BY <1>1, <1>4, <2>2
<1>5. CASE Drop(n)
  <2>. DEFINE dead == Subtree(parent, n)
  <2>1. /\ live' = live \ dead
        /\ parent' = [m \in Nodes |-> IF m \in dead THEN NULL ELSE parent[m]]
    BY <1>5, Zenon DEF Drop
  <2>. HIDE DEF dead
  <2>. QED BY <1>1, <2>1
<1>6. ASSUME NEW prefix \in NsPrefixes, NEW href \in URIs \cup {NULL}, Create(n, prefix, href)
      PROVE  parent' = parent
  BY <1>6 DEF Create
<1>7. ASSUME NEW prefix \in NsPrefixes, NEW href \in URIs \cup {NULL}, NEW activate \in BOOLEAN,
             SetNamespace(n, prefix, href, activate)
      PROVE  parent' = parent
  BY <1>7, Zenon DEF SetNamespace, Edit
<1>8. ASSUME NEW prefix \in NsPrefixes, NEW href \in URIs \cup {NULL},
             SetNamespaceDeclURI(n, prefix, href)
      PROVE  parent' = parent
  BY <1>8 DEF SetNamespaceDeclURI, Edit
<1>9. ASSUME NEW prefix \in NsPrefixes, NEW new \in NsPrefixes, SetNamespaceDeclPrefix(n, prefix, new)
      PROVE  parent' = parent
  BY <1>9 DEF SetNamespaceDeclPrefix, Edit
<1>10. ASSUME NEW prefix \in NsPrefixes, NEW href \in URIs, SetAttributeNS(n, prefix, href)
       PROVE  parent' = parent
  BY <1>10, Zenon DEF SetAttributeNS, Edit
<1>11. CASE RemoveAttributeNS(n)
  BY <1>0, <1>11 DEF RemoveAttributeNS, Edit
<1>. HIDE DEF Moved
<1>. QED BY <1>0, <1>2, <1>3, <1>4, <1>5, <1>6, <1>7, <1>8, <1>9, <1>10, <1>11

(* A move changes no name: a pointer that is not kept is given a           *)
(* declaration of the same prefix and namespace, and no declaration that   *)
(* one still uses is among those that are freed.                           *)
THEOREM NamespacesAlwaysKept ==
  ASSUME Careful
  PROVE  Spec => MovesKeepNamespaces
<1>. DEFINE Kept == \A n \in live \cap live' : parent'[n] # parent[n] =>
                      \A m \in live \cap live', ref \in Refs : Said(m, ref)' = Said(m, ref)
<1>1. ASSUME SameNames(names, names'), live \subseteq Nodes
      PROVE  \A m \in live \cap live', ref \in Refs : Said(m, ref)' = Said(m, ref)
  BY <1>1 DEF SameNames, SameName, Said
<1>2. ASSUME Sound, Next PROVE Kept
  <2>. SUFFICES ASSUME NEW n \in live \cap live', parent'[n] # parent[n]
                PROVE  \A m \in live \cap live', ref \in Refs : Said(m, ref)' = Said(m, ref)
    OBVIOUS
  <2>1. live \subseteq Nodes
    BY <1>2, SoundFacts
  <2>2. ASSUME NEW p \in Nodes, AppendChild(p, n) PROVE SameNames(names, names')
    BY <1>2, <2>1, <2>2, AppendChildSound
  <2>3. CASE RemoveChild(n)
    BY <1>1, <1>2, <2>1, <2>3, RemoveChildSound
  <2>4. CASE Unbind(n)
    BY <2>4 DEF Unbind, Said
  <2>. QED BY <1>1, <1>2, <2>1, <2>2, <2>3, <2>4, OnlyMoves
<1>3. Sound /\ [Next]_vars => [Kept]_vars
  BY <1>2
<1>. QED BY <1>3, AlwaysSound, PTL DEF Spec, MovesKeepNamespaces

(* A subtree whose names are read from the declarations as their pointers  *)
(* say is read so where it is moved to, when the names above the new place *)
(* are: what a reconciliation trusts, the pointers of the elements it      *)
(* passes, is then what the declarations say. *)
THEOREM NamesAlwaysReadable ==
  ASSUME Careful
  PROVE  Spec => MovesKeepNames
<1>. DEFINE Before(n) == \A m \in Subtree(parent, n) \cup Above(parent, parent'[n]) :
                           Readable(names, parent, m)
            After(n)  == \A m \in Subtree(parent, n) : Readable(names', parent', m)
            Kept == \A n \in live \cap live' : parent'[n] # parent[n] /\ Before(n) => After(n)
<1>1. ASSUME Sound, Next PROVE Kept
  <2>. SUFFICES ASSUME NEW n \in live \cap live', parent'[n] # parent[n], Before(n)
                PROVE  After(n)
    OBVIOUS
  <2>1. Forest(parent, live) /\ Tree(parent) /\ live \subseteq Nodes /\ n \in Nodes
    BY <1>1 DEF Sound, Forest
  <2>2. ASSUME NEW q \in live \cup {NULL}, NEW v, v = [parent EXCEPT ![n] = q],
               n \notin Above(parent, q), Room(Cardinality(Borrowed(n))),
               parent' = v, names' = ReconcileNs(names, v, n)
        PROVE  After(n)
    <3>1. Hanging(parent, n, q, v)
      BY <2>1, <2>2 DEF Hanging, Ends
    <3>2. parent'[n] = q
      BY <2>1, <2>2 DEF Tree
    <3>3. Subtree(v, n) = Subtree(parent, n)
      BY <1>1, <2>2, <3>1, MoveUnreconciled
    <3>4. \A m \in Subtree(v, n) : Readable(names', v, m)
      BY <1>1, <2>2, <3>1, <3>2, MoveReadable
    <3>. QED BY <2>2, <3>3, <3>4
  <2>3. ASSUME NEW p \in Nodes, AppendChild(p, n) PROVE After(n)
    <3>1. p \in live /\ n \notin Above(parent, p) /\ Room(Cardinality(Borrowed(n)))
      BY <2>3 DEF AppendChild
    <3>2. parent' = [parent EXCEPT ![n] = p] /\ names' = ReconcileNs(names, parent', n)
      BY <2>3 DEF AppendChild
    <3>. HIDE DEF After
    <3>. QED BY <2>2, <3>1, <3>2
  <2>4. CASE RemoveChild(n)
    <3>1. n \notin Above(parent, NULL) /\ Room(Cardinality(Borrowed(n)))
      BY <2>1, <2>4, AboveFacts DEF RemoveChild
    <3>2. parent' = [parent EXCEPT ![n] = NULL] /\ names' = ReconcileNs(names, parent', n)
      BY <2>4 DEF RemoveChild
    <3>. HIDE DEF After
    <3>. QED BY <2>2, <3>1, <3>2
  <2>5. CASE Unbind(n)
    BY <1>1, <2>1, <2>5, UnbindReadable
  <2>. HIDE DEF After
  <2>. QED BY <1>1, <2>3, <2>4, <2>5, OnlyMoves
<1>2. Kept => \A n \in live \cap live' :
                /\ parent'[n] # parent[n]
                /\ \A m \in Subtree(parent, n) \cup Above(parent, parent'[n]) : Readable(names, parent, m)
                => \A m \in Subtree(parent, n) : Readable(names, parent, m)'
  OBVIOUS
<1>. HIDE DEF Kept
<1>3. Sound /\ [Next]_vars => [Kept]_vars
  BY <1>1
<1>. QED BY <1>2, <1>3, AlwaysSound, PTL DEF Spec, MovesKeepNames
=============================================================================
