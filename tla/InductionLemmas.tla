-------------------------- MODULE InductionLemmas --------------------------
(***************************************************************************)
(* Induction over numbers, finite sets and sequences, as lemmas about      *)
(* sets: their hypotheses are about the set of the values for which a      *)
(* statement holds.  With them, what the recursive functions and the folds *)
(* of the modules compute, and what is met when a pointer is followed.     *)
(***************************************************************************)
EXTENDS Integers, SequencesExt, FiniteSetTheorems, SequenceTheorems, WellFoundedInduction, TLAPS

(* A set of numbers that has a member has a least one. *)
LEMMA Smallest ==
  ASSUME NEW T \in SUBSET Nat, T # {}
  PROVE  \E x \in T : \A y \in T : x <= y
<1>. DEFINE R == {ss \in Nat \X Nat : ss[1] < ss[2]}
<1>1. \A x, y \in Nat : y < x => <<y, x>> \in R
  OBVIOUS
<1>2. IsWellFoundedOn(R, Nat)
  BY NatLessThanWellFounded DEF OpToRel
<1>. HIDE DEF R
<1>3. \E x \in T : \A y \in T : ~ (<<y, x>> \in R)
  BY <1>2, WFMin
<1>4. \A x, y \in T : ~ (<<y, x>> \in R) => x <= y
  BY <1>1
<1>. QED BY <1>3, <1>4

(* Induction over the natural numbers *)
LEMMA Induction ==
  ASSUME NEW T \in SUBSET Nat, 0 \in T, \A n \in T : n + 1 \in T
  PROVE  T = Nat
<1>. SUFFICES ASSUME Nat \ T # {} PROVE FALSE
  OBVIOUS
<1>1. PICK x \in Nat \ T : \A y \in Nat \ T : x <= y
  <2>. DEFINE U == Nat \ T
  <2>1. U \in SUBSET Nat /\ U # {}
    OBVIOUS
  <2>. HIDE DEF U
  <2>2. \E x \in U : \A y \in U : x <= y
    BY <2>1, Smallest
  <2>. QED BY <2>2 DEF U
<1>2. x - 1 \in Nat /\ x - 1 \in T
  BY <1>1
<1>. QED BY <1>1, <1>2

(* Among sets within a finite one there is a minimal one. *)
LEMMA Minimal ==
  ASSUME NEW S, IsFiniteSet(S), NEW F \in SUBSET SUBSET S, F # {}
  PROVE  \E x \in F : \A y \in F : y \subseteq x => y = x
<1>1. F \subseteq FiniteSubsetsOf(S)
  BY FS_FiniteSubsetsOfFinite
<1>2. \E x \in F : \A y \in F : ~ (<<y, x>> \in StrictSubsetOrdering(S))
  BY <1>1, FS_StrictSubsetOrderingWellFounded, WFMin
<1>. QED BY <1>2 DEF StrictSubsetOrdering

(* Induction over the subsets of a finite set *)
LEMMA SubsetInduction ==
  ASSUME NEW S, IsFiniteSet(S), NEW F \in SUBSET SUBSET S,
         \A x \in SUBSET S : (\A y \in SUBSET x : y # x => y \in F) => x \in F
  PROVE  F = SUBSET S
<1>. DEFINE G == (SUBSET S) \ F
<1>. SUFFICES ASSUME G # {} PROVE FALSE
  OBVIOUS
<1>1. G \in SUBSET SUBSET S
  OBVIOUS
<1>2. PICK x \in G : \A y \in G : y \subseteq x => y = x
  <2>. HIDE DEF G
  <2>. QED BY <1>1, Minimal
<1>. QED BY <1>2

(* g is the fold over subsets of S that takes the member pick names last. *)
Folds(g, S, base, pick, step) ==
  \A s \in SUBSET S : g[s] = IF s = {} THEN base ELSE step[<<pick[s], g[s \ {pick[s]}]>>]

(* A fold is determined by its equation, *)
LEMMA FoldUnique ==
  ASSUME NEW S, IsFiniteSet(S), NEW V, NEW base, NEW step,
         NEW pick, \A s \in SUBSET S : s # {} => pick[s] \in s,
         NEW g, Folds(g, S, base, pick, step), NEW h, Folds(h, S, base, pick, step)
  PROVE  \A s \in SUBSET S : g[s] = h[s]
<1>. DEFINE F == {s \in SUBSET S : g[s] = h[s]}
<1>1. F \in SUBSET SUBSET S
  OBVIOUS
<1>2. ASSUME NEW x \in SUBSET S, \A y \in SUBSET x : y # x => y \in F
      PROVE  x \in F
  <2>1. CASE x = {}
    BY <2>1 DEF Folds
  <2>2. CASE x # {}
    <3>1. x \ {pick[x]} \in F
      BY <1>2, <2>2
    <3>. QED BY <3>1, <2>2 DEF Folds
  <2>. QED BY <2>1, <2>2
<1>. HIDE DEF F
<1>3. F = SUBSET S
  BY <1>1, <1>2, SubsetInduction
<1>. QED BY <1>3 DEF F

(* and there is one. *)
LEMMA FoldExists ==
  ASSUME NEW S, IsFiniteSet(S), NEW V, NEW base \in V, NEW step \in [S \X V -> V],
         NEW pick, \A s \in SUBSET S : s # {} => pick[s] \in s
  PROVE  \E g \in [SUBSET S -> V] : Folds(g, S, base, pick, step)
<1>. DEFINE F == {x \in SUBSET S : \E g \in [SUBSET x -> V] : Folds(g, x, base, pick, step)}
<1>1. F \in SUBSET SUBSET S
  OBVIOUS
<1>2. ASSUME NEW x \in SUBSET S, \A y \in SUBSET x : y # x => y \in F
      PROVE  x \in F
  <2>. DEFINE fun(y) == CHOOSE g \in [SUBSET y -> V] : Folds(g, y, base, pick, step)
              low    == [s \in SUBSET x |-> fun(s)[s]]
              val    == IF x = {} THEN base ELSE step[<<pick[x], low[x \ {pick[x]}]>>]
              new    == [s \in SUBSET x |-> IF s = x THEN val ELSE low[s]]
  <2>1. ASSUME NEW y \in SUBSET x, y # x
        PROVE  /\ fun(y) \in [SUBSET y -> V] /\ Folds(fun(y), y, base, pick, step)
               /\ low[y] = fun(y)[y] /\ low[y] \in V
    <3>1. \E g \in [SUBSET y -> V] : Folds(g, y, base, pick, step)
      BY <1>2, <2>1
    <3>2. fun(y) \in [SUBSET y -> V] /\ Folds(fun(y), y, base, pick, step)
      BY <3>1
    <3>. QED BY <3>2
  <2>2. ASSUME NEW y \in SUBSET x, y # x, NEW z \in SUBSET y
        PROVE  low[z] = fun(y)[z]
    <3>0. IsFiniteSet(z)
      BY FS_Subset
    <3>1. z # x /\ z \in SUBSET x
      BY <2>2
    <3>2. Folds(fun(z), z, base, pick, step) /\ low[z] = fun(z)[z]
      BY <3>1, <2>1
    <3>3. Folds(fun(y), z, base, pick, step)
      <4>1. Folds(fun(y), y, base, pick, step)
        BY <2>1, <2>2
      <4>. HIDE DEF fun
      <4>. QED BY <4>1 DEF Folds
    <3>4. \A s \in SUBSET z : s # {} => pick[s] \in s
      OBVIOUS
    <3>. HIDE DEF fun, low
    <3>5. \A s \in SUBSET z : fun(z)[s] = fun(y)[s]
      BY <3>0, <3>2, <3>3, <3>4, FoldUnique
    <3>. QED BY <3>5, <3>2
  <2>3. ASSUME NEW y \in SUBSET x, y # x, y # {}
        PROVE  low[y] = step[<<pick[y], low[y \ {pick[y]}]>>]
    <3>1. y \ {pick[y]} \in SUBSET y
      OBVIOUS
    <3>2. low[y \ {pick[y]}] = fun(y)[y \ {pick[y]}]
      BY <2>2, <2>3, <3>1
    <3>3. fun(y)[y] = step[<<pick[y], fun(y)[y \ {pick[y]}]>>] /\ low[y] = fun(y)[y]
      BY <2>1, <2>3 DEF Folds
    <3>. QED BY <3>2, <3>3
  <2>4. x # {} => low[{}] = base
    BY <2>1 DEF Folds
  <2>5. val \in V
    <3>1. CASE x = {}
      BY <3>1
    <3>2. CASE x # {}
      <4>1. pick[x] \in x /\ x \ {pick[x]} # x /\ x \ {pick[x]} \in SUBSET x
        BY <3>2
      <4>2. low[x \ {pick[x]}] \in V
        BY <4>1, <2>1
      <4>. HIDE DEF low
      <4>. QED BY <4>1, <4>2, <3>2
    <3>. QED BY <3>1, <3>2
  <2>. HIDE DEF low, val, fun
  <2>6. new \in [SUBSET x -> V]
    BY <2>1, <2>5
  <2>7. Folds(new, x, base, pick, step)
    <3>. SUFFICES ASSUME NEW s \in SUBSET x
                  PROVE  new[s] = IF s = {} THEN base ELSE step[<<pick[s], new[s \ {pick[s]}]>>]
      BY DEF Folds
    <3>1. CASE s = {}
      BY <3>1, <2>4 DEF val
    <3>2. CASE s # {}
      <4>1. pick[s] \in s /\ s \ {pick[s]} # x /\ s \ {pick[s]} \in SUBSET x
        BY <3>2
      <4>2. new[s \ {pick[s]}] = low[s \ {pick[s]}]
        BY <4>1
      <4>3. CASE s = x
        BY <4>2, <4>3, <3>2 DEF val
      <4>4. CASE s # x
        BY <4>2, <4>4, <3>2, <2>3
      <4>. QED BY <4>3, <4>4
    <3>. QED BY <3>1, <3>2
  <2>. QED BY <2>6, <2>7
<1>. HIDE DEF F
<1>3. F = SUBSET S
  BY <1>1, <1>2, SubsetInduction
<1>. QED BY <1>3 DEF F

(* g[k] is computed from k and g[k - 1]. *)
Iterates(g, n, base, step) ==
  /\ g[0] = base
  /\ \A k \in 1..n : g[k] = step[<<k, g[k - 1]>>]

(* A function that is defined step by step along the numbers exists. *)
LEMMA IterationExists ==
  ASSUME NEW n \in Nat, NEW V, NEW base \in V, NEW step \in [Nat \X V -> V]
  PROVE  \E g \in [0..n -> V] : Iterates(g, n, base, step)
<1>. DEFINE T == {m \in Nat : \E g \in [0..m -> V] : Iterates(g, m, base, step)}
<1>1. 0 \in T
  <2>1. [k \in 0..0 |-> base] \in [0..0 -> V]
    OBVIOUS
  <2>2. Iterates([k \in 0..0 |-> base], 0, base, step)
    BY DEF Iterates
  <2>. QED BY <2>1, <2>2
<1>2. ASSUME NEW m \in T PROVE m + 1 \in T
  <2>1. PICK g \in [0..m -> V] : Iterates(g, m, base, step)
    BY <1>2
  <2>. DEFINE h == [k \in 0..m + 1 |-> IF k = m + 1 THEN step[<<m + 1, g[m]>>] ELSE g[k]]
  <2>2. step[<<m + 1, g[m]>>] \in V
    OBVIOUS
  <2>3. h \in [0..m + 1 -> V]
    BY <2>2
  <2>4. \A k \in 0..m : h[k] = g[k]
    OBVIOUS
  <2>5. h[m + 1] = step[<<m + 1, h[m]>>]
    <3>1. m \in 0..m /\ m + 1 \in 0..m + 1
      BY SMT
    <3>2. h[m + 1] = step[<<m + 1, g[m]>>] /\ h[m] = g[m]
      BY <3>1, <2>4
    <3>. HIDE DEF h
    <3>. QED BY <3>2
  <2>. HIDE DEF h
  <2>6. ASSUME NEW k \in 1..m + 1 PROVE h[k] = step[<<k, h[k - 1]>>]
    <3>1. CASE k = m + 1
      BY <3>1, <2>5
    <3>2. CASE k # m + 1
      <4>1. k \in 1..m /\ k \in 0..m /\ k - 1 \in 0..m
        BY <3>2
      <4>. QED BY <4>1, <2>4, <2>1 DEF Iterates
    <3>. QED BY <3>1, <3>2
  <2>7. Iterates(h, m + 1, base, step)
    BY <2>1, <2>4, <2>6 DEF Iterates
  <2>. QED BY <2>3, <2>7
<1>. HIDE DEF T
<1>3. T = Nat
  <2>1. T \in SUBSET Nat
    BY DEF T
  <2>. QED BY <2>1, <1>1, <1>2, Induction
<1>. QED BY <1>3 DEF T

(* g adds up the values of f over subsets of S. *)
SumsUp(g, S, f) ==
  \A s \in SUBSET S :
    g[s] = IF s = {} THEN 0 ELSE f[CHOOSE x \in s : TRUE] + g[s \ {CHOOSE x \in s : TRUE}]

(* SumFunction adds up the values one at a time. *)
LEMMA SumRecursion ==
  ASSUME NEW S, IsFiniteSet(S), NEW f \in [S -> Nat]
  PROVE  \E g \in [SUBSET S -> Nat] : SumsUp(g, S, f) /\ SumFunction(f) = g[S]
<1>. DEFINE pick == [s \in SUBSET S |-> CHOOSE x \in s : TRUE]
            step == [a \in S \X Nat |-> f[a[1]] + a[2]]
            Rec(iter) == iter = [s \in SUBSET S |->
                           IF s = {} THEN 0
                           ELSE f[CHOOSE x \in s : TRUE] + iter[s \ {CHOOSE x \in s : TRUE}]]
            sum == CHOOSE iter : Rec(iter)
<1>1. SumFunction(f) = sum[S]
  BY DEF SumFunction, SumFunctionOnSet, FoldFunctionOnSet, MapThenFoldSet
<1>2. step \in [S \X Nat -> Nat]
  OBVIOUS
<1>3. \A s \in SUBSET S : s # {} => pick[s] \in s
  OBVIOUS
<1>4. PICK g \in [SUBSET S -> Nat] : Folds(g, S, 0, pick, step)
  <2>. HIDE DEF pick, step
  <2>. QED BY <1>2, <1>3, FoldExists
<1>5. Rec(g)
  <2>1. ASSUME NEW s \in SUBSET S, s # {}
        PROVE  g[s] = f[CHOOSE x \in s : TRUE] + g[s \ {CHOOSE x \in s : TRUE}]
    <3>1. g[s] = step[<<pick[s], g[s \ {pick[s]}]>>]
      BY <1>4, <2>1 DEF Folds
    <3>2. pick[s] = CHOOSE x \in s : TRUE
      OBVIOUS
    <3>3. pick[s] \in S /\ g[s \ {pick[s]}] \in Nat
      BY <1>3, <2>1
    <3>. HIDE DEF pick
    <3>. QED BY <3>1, <3>2, <3>3
  <2>2. g[{}] = 0
    BY <1>4 DEF Folds
  <2>. QED BY <2>1, <2>2
<1>6. Rec(sum)
  <2>. HIDE DEF Rec
  <2>. QED BY <1>5
<1>7. SumsUp(sum, S, f)
  BY <1>6 DEF SumsUp
<1>8. SumsUp(g, S, f)
  BY <1>5 DEF SumsUp
<1>9. \A s \in SUBSET S : sum[s] = g[s]
  <2>. DEFINE F == {s \in SUBSET S : sum[s] = g[s]}
  <2>1. F \in SUBSET SUBSET S
    OBVIOUS
  <2>2. ASSUME NEW x \in SUBSET S, \A y \in SUBSET x : y # x => y \in F
        PROVE  x \in F
    <3>. HIDE DEF sum
    <3>1. CASE x = {}
      BY <3>1, <1>7, <1>8 DEF SumsUp
    <3>2. CASE x # {}
      <4>1. x \ {CHOOSE e \in x : TRUE} \in F
        BY <2>2, <3>2
      <4>. QED BY <4>1, <3>2, <1>7, <1>8 DEF SumsUp
    <3>. QED BY <3>1, <3>2
  <2>. HIDE DEF F, sum
  <2>3. F = SUBSET S
    BY <2>1, <2>2, SubsetInduction
  <2>. QED BY <2>3 DEF F
<1>. HIDE DEF sum
<1>. QED BY <1>1, <1>8, <1>9

(* The sum after one value has changed *)
LEMMA SumChange ==
  ASSUME NEW S, IsFiniteSet(S), NEW f \in [S -> Nat], NEW h \in [S -> Nat],
         NEW x \in S, \A y \in S \ {x} : h[y] = f[y]
  PROVE  /\ SumFunction(f) \in Nat /\ SumFunction(h) \in Nat
         /\ SumFunction(h) = SumFunction(f) - f[x] + h[x]
         /\ f[x] <= SumFunction(f)
<1>1. PICK g \in [SUBSET S -> Nat] : SumsUp(g, S, f) /\ SumFunction(f) = g[S]
  BY SumRecursion
<1>2. PICK k \in [SUBSET S -> Nat] : SumsUp(k, S, h) /\ SumFunction(h) = k[S]
  BY SumRecursion
<1>. DEFINE F == {s \in SUBSET S : IF x \in s THEN k[s] = g[s] - f[x] + h[x] /\ f[x] <= g[s]
                                               ELSE k[s] = g[s]}
<1>3. F \in SUBSET SUBSET S
  OBVIOUS
<1>4. ASSUME NEW s \in SUBSET S, \A y \in SUBSET s : y # s => y \in F
      PROVE  s \in F
  <2>1. CASE s = {}
    BY <2>1, <1>1, <1>2 DEF SumsUp
  <2>2. CASE s # {}
    <3>. DEFINE e == CHOOSE y \in s : TRUE
                r == s \ {e}
    <3>1. e \in s /\ r \in F /\ r \in SUBSET S
      BY <1>4, <2>2
    <3>2. g[s] = f[e] + g[r] /\ k[s] = h[e] + k[r]
      BY <2>2, <1>1, <1>2 DEF SumsUp
    <3>3. e \notin r /\ (e # x => (x \in r <=> x \in s))
      OBVIOUS
    <3>. HIDE DEF e, r
    <3>4. g[r] \in Nat /\ k[r] \in Nat /\ f[e] \in Nat /\ h[e] \in Nat /\ f[x] \in Nat /\ h[x] \in Nat
      BY <3>1
    <3>5. CASE e = x
      BY <3>1, <3>2, <3>3, <3>4, <3>5
    <3>6. CASE e # x
      BY <3>1, <3>2, <3>3, <3>4, <3>6
    <3>. QED BY <3>5, <3>6
  <2>. QED BY <2>1, <2>2
<1>. HIDE DEF F
<1>5. F = SUBSET S
  BY <1>3, <1>4, SubsetInduction
<1>. QED BY <1>1, <1>2, <1>5 DEF F

(* A sum of zeros *)
LEMMA SumZero ==
  ASSUME NEW S, IsFiniteSet(S), NEW f \in [S -> Nat], \A x \in S : f[x] = 0
  PROVE  SumFunction(f) = 0
<1>1. PICK g \in [SUBSET S -> Nat] : SumsUp(g, S, f) /\ SumFunction(f) = g[S]
  BY SumRecursion
<1>. DEFINE F == {s \in SUBSET S : g[s] = 0}
<1>3. F \in SUBSET SUBSET S
  OBVIOUS
<1>4. ASSUME NEW s \in SUBSET S, \A y \in SUBSET s : y # s => y \in F
      PROVE  s \in F
  <2>1. CASE s = {}
    BY <2>1, <1>1 DEF SumsUp
  <2>2. CASE s # {}
    <3>. DEFINE e == CHOOSE y \in s : TRUE
    <3>1. e \in s /\ s \ {e} \in F
      BY <1>4, <2>2
    <3>2. g[s] = f[e] + g[s \ {e}]
      BY <2>2, <1>1 DEF SumsUp
    <3>. HIDE DEF e
    <3>. QED BY <3>1, <3>2
  <2>. QED BY <2>1, <2>2
<1>. HIDE DEF F
<1>5. F = SUBSET S
  BY <1>3, <1>4, SubsetInduction
<1>. QED BY <1>1, <1>5 DEF F

(* Max of a set of indexes *)
LEMMA Largest ==
  ASSUME NEW n \in Nat, NEW T \in SUBSET (1..n), T # {}
  PROVE  Max(T) \in T /\ \A y \in T : y <= Max(T)
<1>. DEFINE U == {n - y : y \in T}
<1>1. U \in SUBSET Nat /\ U # {}
  <2>1. \A y \in T : n - y \in Nat
    OBVIOUS
  <2>2. PICK y \in T : TRUE
    OBVIOUS
  <2>. QED BY <2>1, <2>2
<1>2. PICK u \in U : \A y \in U : u <= y
  <2>. HIDE DEF U
  <2>. QED BY <1>1, Smallest
<1>3. PICK x \in T : u = n - x
  OBVIOUS
<1>4. \A y \in T : x >= y
  <2>. SUFFICES ASSUME NEW y \in T PROVE x >= y
    OBVIOUS
  <2>1. u <= n - y
    BY <1>2
  <2>. QED BY <2>1, <1>3
<1>5. Max(T) \in T /\ \A y \in T : Max(T) >= y
  BY <1>4 DEF Max
<1>. QED BY <1>5

(* g is the fold of s over sets of indexes: the largest index comes last. *)
LeftFolds(g, s, base, step) ==
  \A T \in SUBSET DOMAIN s :
    g[T] = IF T = {} THEN base ELSE step[<<g[T \ {Max(T)}], s[Max(T)]>>]

(* The same equation, where the values before are in V *)
LeftFoldsWithin(h, s, base, step, V) ==
  /\ h[{}] = base
  /\ \A T \in SUBSET DOMAIN s :
       T # {} /\ h[T \ {Max(T)}] \in V => h[T] = step[<<h[T \ {Max(T)}], s[Max(T)]>>]

(* Whatever satisfies it is g. *)
OnlyLeftFold(g, s, base, step, V) ==
  \A h : LeftFoldsWithin(h, s, base, step, V) => \A T \in SUBSET DOMAIN s : h[T] = g[T]

(* The fold along a sequence exists and is the only one. *)
LEMMA LeftFoldExists ==
  ASSUME NEW V, NEW base \in V, NEW E, NEW step \in [V \X E -> V], NEW s \in Seq(E)
  PROVE  \E g \in [SUBSET DOMAIN s -> V] :
           /\ LeftFolds(g, s, base, step)
           /\ OnlyLeftFold(g, s, base, step, V)
<1>. DEFINE S    == DOMAIN s
            pick == [T \in SUBSET S |-> Max(T)]
            st   == [a \in S \X V |-> step[<<a[2], s[a[1]]>>]]
<1>1. S = 1..Len(s) /\ Len(s) \in Nat /\ \A i \in S : s[i] \in E
  BY LenProperties, ElementOfSeq
<1>2. IsFiniteSet(S)
  BY <1>1, FS_Interval
<1>3. \A T \in SUBSET S : T # {} => Max(T) \in T
  BY <1>1, Largest
<1>4. \A T \in SUBSET S : T # {} => pick[T] \in T
  BY <1>3
<1>5. st \in [S \X V -> V]
  BY <1>1
<1>. HIDE DEF st, S
<1>6. PICK g \in [SUBSET S -> V] : Folds(g, S, base, pick, st)
  <2>. HIDE DEF pick
  <2>. QED BY <1>2, <1>4, <1>5, FoldExists
<1>7. \A T \in SUBSET S, v \in V : T # {} => st[<<pick[T], v>>] = step[<<v, s[Max(T)]>>]
  BY <1>3 DEF st
<1>8. LeftFolds(g, s, base, step)
  <2>. SUFFICES ASSUME NEW T \in SUBSET S
                PROVE  g[T] = IF T = {} THEN base ELSE step[<<g[T \ {Max(T)}], s[Max(T)]>>]
    BY DEF LeftFolds, S
  <2>1. g[T] = IF T = {} THEN base ELSE st[<<pick[T], g[T \ {pick[T]}]>>]
    BY <1>6 DEF Folds
  <2>2. pick[T] = Max(T)
    OBVIOUS
  <2>3. g[T \ {pick[T]}] \in V
    OBVIOUS
  <2>. HIDE DEF pick
  <2>. QED BY <2>1, <2>2, <2>3, <1>7
<1>9. ASSUME NEW h, h[{}] = base,
             \A T \in SUBSET S : T # {} /\ h[T \ {Max(T)}] \in V =>
               h[T] = step[<<h[T \ {Max(T)}], s[Max(T)]>>]
      PROVE  \A T \in SUBSET S : h[T] = g[T]
  <2>1. ASSUME NEW T \in SUBSET S, T # {}, h[T \ {pick[T]}] \in V
        PROVE  h[T] = st[<<pick[T], h[T \ {pick[T]}]>>]
    <3>1. pick[T] = Max(T)
      OBVIOUS
    <3>. HIDE DEF pick
    <3>. QED BY <3>1, <2>1, <1>7, <1>9
  <2>. HIDE DEF pick
  <2>2. \A T \in SUBSET S : T # {} /\ h[T \ {pick[T]}] \in V =>
                            h[T] = st[<<pick[T], h[T \ {pick[T]}]>>]
    BY <2>1
  <2>3. h[{}] = base
    BY <1>9
  <2>. DEFINE F == {T \in SUBSET S : g[T] = h[T]}
  <2>4. F \in SUBSET SUBSET S
    OBVIOUS
  <2>5. ASSUME NEW T \in SUBSET S, \A y \in SUBSET T : y # T => y \in F
        PROVE  T \in F
    <3>1. CASE T = {}
      BY <3>1, <2>3, <1>6 DEF Folds
    <3>2. CASE T # {}
      <4>1. T \ {pick[T]} \in F
        BY <2>5, <1>4, <3>2
      <4>. QED BY <4>1, <3>2, <2>2, <1>6 DEF Folds
    <3>. QED BY <3>1, <3>2
  <2>. HIDE DEF F
  <2>6. F = SUBSET S
    BY <2>4, <2>5, <1>2, SubsetInduction
  <2>. QED BY <2>6 DEF F
<1>10. OnlyLeftFold(g, s, base, step, V)
  BY <1>9 DEF OnlyLeftFold, LeftFoldsWithin, S
<1>. QED BY <1>8, <1>10 DEF S

(* v is the fold of the whole sequence s. *)
IsLeftFold(v, s, base, step, V) ==
  \E g \in [SUBSET DOMAIN s -> V] : LeftFolds(g, s, base, step) /\ v = g[DOMAIN s]

(* What satisfies the equation within V is the fold. *)
LEMMA LeftFoldIs ==
  ASSUME NEW V, NEW base \in V, NEW E, NEW step \in [V \X E -> V], NEW s \in Seq(E),
         NEW h, LeftFoldsWithin(h, s, base, step, V)
  PROVE  IsLeftFold(h[DOMAIN s], s, base, step, V)
<1>1. PICK g \in [SUBSET DOMAIN s -> V] :
        /\ LeftFolds(g, s, base, step)
        /\ OnlyLeftFold(g, s, base, step, V)
  BY LeftFoldExists
<1>2. h[DOMAIN s] = g[DOMAIN s]
  BY <1>1 DEF OnlyLeftFold
<1>. QED BY <1>1, <1>2 DEF IsLeftFold

(* The fold takes one more member. *)
FoldsAlong(g, s, step) ==
  \A n \in 0..(Len(s) - 1) : g[1..(n + 1)] = step[<<g[1..n], s[n + 1]>>]

(* The fold takes one member of the sequence after the other. *)
LEMMA LeftFoldAlong ==
  ASSUME NEW E, NEW s \in Seq(E), NEW g, NEW base, NEW step, LeftFolds(g, s, base, step)
  PROVE  /\ 1..Len(s) = DOMAIN s
         /\ g[1..0] = base
         /\ FoldsAlong(g, s, step)
<1>1. DOMAIN s = 1..Len(s) /\ Len(s) \in Nat
  BY LenProperties
<1>2. g[1..0] = base
  <2>1. 1..0 = {} /\ {} \in SUBSET DOMAIN s
    OBVIOUS
  <2>2. g[{}] = base
    BY <2>1 DEF LeftFolds
  <2>. QED BY <2>1, <2>2
<1>3. ASSUME NEW n \in 0..(Len(s) - 1)
      PROVE  g[1..(n + 1)] = step[<<g[1..n], s[n + 1]>>]
  <2>. DEFINE T == 1..(n + 1)
  <2>1. T \in SUBSET (1..Len(s)) /\ T # {} /\ n + 1 \in T /\ \A y \in T : y <= n + 1
    <3>1. n \in Nat /\ n + 1 <= Len(s) /\ Len(s) \in Nat
      BY <1>1
    <3>2. n + 1 \in T
      BY <3>1
    <3>3. \A y \in T : y <= n + 1 /\ y \in 1..Len(s)
      BY <3>1
    <3>. HIDE DEF T
    <3>. QED BY <3>2, <3>3
  <2>2. Max(T) = n + 1
    <3>1. Max(T) \in T /\ \A y \in T : y <= Max(T)
      <4>. HIDE DEF T
      <4>. QED BY <2>1, <1>1, Largest
    <3>2. n + 1 <= Max(T) /\ Max(T) <= n + 1
      <4>. HIDE DEF T
      <4>. QED BY <3>1, <2>1
    <3>3. Max(T) \in Int
      BY <3>1
    <3>. QED BY <3>2, <3>3
  <2>3. T \ {n + 1} = 1..n
    OBVIOUS
  <2>4. g[T] = step[<<g[T \ {Max(T)}], s[Max(T)]>>]
    <3>. HIDE DEF T
    <3>. QED BY <2>1, <1>1 DEF LeftFolds
  <2>. HIDE DEF T
  <2>5. g[T] = step[<<g[1..n], s[n + 1]>>]
    BY <2>2, <2>3, <2>4
  <2>. QED BY <2>5 DEF T
<1>. QED BY <1>1, <1>2, <1>3 DEF FoldsAlong

(* The fold of an empty sequence *)
LEMMA LeftFoldOfEmpty ==
  ASSUME NEW base, NEW step, NEW V, NEW v, IsLeftFold(v, <<>>, base, step, V)
  PROVE  v = base
<1>1. DOMAIN <<>> = {}
  OBVIOUS
<1>. QED BY <1>1 DEF IsLeftFold, LeftFolds

(* The fold of a sequence and one more member *)
LEMMA LeftFoldOfAppend ==
  ASSUME NEW E, NEW s \in Seq(E), NEW x \in E, NEW base, NEW step, NEW V,
         NEW v, IsLeftFold(v, s, base, step, V),
         NEW w, IsLeftFold(w, Append(s, x), base, step, V)
  PROVE  v \in V /\ w \in V /\ w = step[<<v, x>>]
<1>. DEFINE n == Len(s)
<1>0. PICK t : t = Append(s, x)
  OBVIOUS
<1>1. PICK g \in [SUBSET DOMAIN s -> V] : LeftFolds(g, s, base, step) /\ v = g[DOMAIN s]
  BY DEF IsLeftFold
<1>2. PICK h \in [SUBSET DOMAIN t -> V] : LeftFolds(h, t, base, step) /\ w = h[DOMAIN t]
  BY <1>0 DEF IsLeftFold
<1>3. /\ n \in Nat /\ t \in Seq(E) /\ Len(t) = n + 1 /\ t[n + 1] = x
      /\ \A i \in 1..n : t[i] = s[i]
  BY <1>0, AppendProperties, LenProperties
<1>4. /\ DOMAIN s = 1..n /\ g[1..0] = base
      /\ \A i \in 0..(n - 1) : g[1..(i + 1)] = step[<<g[1..i], s[i + 1]>>]
  BY <1>1, LeftFoldAlong DEF FoldsAlong
<1>5. /\ DOMAIN t = 1..(n + 1) /\ h[1..0] = base
      /\ \A i \in 0..n : h[1..(i + 1)] = step[<<h[1..i], t[i + 1]>>]
  <2>1. Len(t) - 1 = n
    BY <1>3
  <2>0. t \in Seq(E) /\ LeftFolds(h, t, base, step)
    BY <1>2, <1>3
  <2>2. h[1..0] = base /\ 1..Len(t) = DOMAIN t
    BY <2>0, LeftFoldAlong
  <2>5. FoldsAlong(h, t, step)
    BY <2>0, LeftFoldAlong
  <2>3. \A i \in 0..n : h[1..(i + 1)] = step[<<h[1..i], t[i + 1]>>]
    BY <2>1, <2>5 DEF FoldsAlong
  <2>4. DOMAIN t = 1..(n + 1)
    BY <2>2, <1>3
  <2>. QED BY ONLY <2>2, <2>3, <2>4
<1>. DEFINE T == {i \in Nat : i <= n => h[1..i] = g[1..i]}
<1>6. 0 \in T
  BY <1>4, <1>5
<1>7. ASSUME NEW i \in T
      PROVE  i + 1 \in T
  <2>. SUFFICES ASSUME i + 1 <= n
                PROVE  h[1..(i + 1)] = g[1..(i + 1)]
    OBVIOUS
  <2>1. i \in 0..(n - 1) /\ i \in 0..n /\ i + 1 \in 1..n /\ h[1..i] = g[1..i]
    BY <1>3
  <2>. QED BY <2>1, <1>3, <1>4, <1>5
<1>8. T = Nat
  <2>1. T \in SUBSET Nat
    OBVIOUS
  <2>. HIDE DEF T
  <2>. QED BY <2>1, <1>6, <1>7, Induction
<1>9. h[1..n] = g[1..n]
  BY <1>3, <1>8
<1>10. w = step[<<v, x>>]
  BY <1>1, <1>2, <1>3, <1>4, <1>5, <1>9
<1>. QED BY <1>1, <1>2, <1>10

-----------------------------------------------------------------------------
(* Following a pointer from node to node.                                  *)

(* Along F every node of N comes to an end. *)
Rooted(N, F) == \A X \in SUBSET N : X # {} => \E n \in X : F[n] \notin X

(* The nodes from n upwards along F, n among them, up to nil. *)
Chain(N, nil, F, n) ==
  LET climb[at \in (N \cup {nil}) \X (0..Cardinality(N))] ==
        IF at[1] = nil \/ at[2] = 0 THEN {} ELSE {at[1]} \cup climb[<<F[at[1]], at[2] - 1>>]
  IN  climb[<<n, Cardinality(N)>>]

(* c[k] collects the nodes of k steps along F, for k up to n. *)
ChainSteps(N, nil, c, F, n) ==
  /\ c \in [0..n -> [N \cup {nil} -> SUBSET N]]
  /\ \A m \in N \cup {nil} : c[0][m] = {}
  /\ \A k \in 1..n : c[k][nil] = {}
  /\ \A k \in 1..n : \A m \in N : c[k][m] = {m} \cup c[k - 1][F[m]]

(* The nodes of k steps exist for every k up to n. *)
LEMMA ClimbsExist ==
  ASSUME NEW N, NEW nil, IsFiniteSet(N), nil \notin N, NEW F \in [N -> N \cup {nil}],
         NEW n \in Nat
  PROVE  \E c : ChainSteps(N, nil, c, F, n)
<1>. DEFINE V == [N \cup {nil} -> SUBSET N]
            none == [m \in N \cup {nil} |-> {}]
            more(a) == [m \in N \cup {nil} |-> IF m = nil THEN {} ELSE {m} \cup a[F[m]]]
            step == [b \in Nat \X V |-> more(b[2])]
<1>1. nil \notin N /\ nil \in N \cup {nil} /\ \A m \in N : F[m] \in N \cup {nil} /\ m \in N \cup {nil}
  BY FS_CardinalityType
<1>2. none \in V
  OBVIOUS
<1>3. ASSUME NEW a \in V PROVE more(a) \in V
  <2>1. ASSUME NEW m \in N \cup {nil} PROVE (IF m = nil THEN {} ELSE {m} \cup a[F[m]]) \in SUBSET N
    BY <1>1
  <2>. QED BY <2>1
<1>4. step \in [Nat \X V -> V]
  <2>. HIDE DEF more, V
  <2>. QED BY <1>3
<1>5. PICK c \in [0..n -> V] : Iterates(c, n, none, step)
  <2>. HIDE DEF V, none, step
  <2>. QED BY <1>2, <1>4, IterationExists
<1>6. c[0] = none /\ \A k \in 1..n : c[k] = more(c[k - 1])
  <2>1. \A k \in 1..n : k \in Nat /\ k - 1 \in 0..n
    OBVIOUS
  <2>2. ASSUME NEW k \in 1..n PROVE c[k] = more(c[k - 1])
    <3>1. c[k] = step[<<k, c[k - 1]>>]
      BY <1>5 DEF Iterates
    <3>2. k \in Nat /\ c[k - 1] \in V
      BY <2>1, <1>5
    <3>. HIDE DEF V, more
    <3>. QED BY <3>1, <3>2
  <2>. QED BY <1>5, <2>2 DEF Iterates
<1>7. \A m \in N \cup {nil} : c[0][m] = {}
  BY <1>6
<1>8. \A k \in 1..n : c[k][nil] = {}
  <2>1. \A a : more(a)[nil] = {}
    BY <1>1
  <2>. HIDE DEF more
  <2>. QED BY <1>6, <2>1
<1>9. ASSUME NEW k \in 1..n, NEW m \in N PROVE c[k][m] = {m} \cup c[k - 1][F[m]]
  <2>1. m \in N \cup {nil} /\ m # nil
    BY <1>1
  <2>2. more(c[k - 1])[m] = {m} \cup c[k - 1][F[m]]
    BY <2>1
  <2>3. c[k] = more(c[k - 1])
    BY <1>6
  <2>. HIDE DEF more
  <2>. QED BY <2>2, <2>3
<1>. QED BY <1>5, <1>7, <1>8, <1>9 DEF ChainSteps

(* The recursion that defines a chain has a solution. *)
LEMMA ChainClimbs ==
  ASSUME NEW N, NEW nil, IsFiniteSet(N), nil \notin N, NEW F \in [N -> N \cup {nil}],
         NEW n \in N \cup {nil}, NEW c, ChainSteps(N, nil, c, F, Cardinality(N))
  PROVE  Chain(N, nil, F, n) = c[Cardinality(N)][n]
<1>. DEFINE P == (N \cup {nil}) \X (0..Cardinality(N))
            Rec(w) == w = [at \in P |-> IF at[1] = nil \/ at[2] = 0 THEN {}
                                        ELSE {at[1]} \cup w[<<F[at[1]], at[2] - 1>>]]
            f == CHOOSE w : Rec(w)
            g == [at \in P |-> c[at[2]][at[1]]]
<1>1. Chain(N, nil, F, n) = f[<<n, Cardinality(N)>>]
  BY DEF Chain
<1>2. nil \notin N /\ nil \in N \cup {nil} /\ (\A m \in N : F[m] \in N \cup {nil} /\ m \in N \cup {nil})
      /\ Cardinality(N) \in Nat /\ 0 \in 0..Cardinality(N) /\ Cardinality(N) \in 0..Cardinality(N)
  BY FS_CardinalityType
<1>3. Rec(g)
  <2>1. ASSUME NEW at \in P
        PROVE  c[at[2]][at[1]] = IF at[1] = nil \/ at[2] = 0 THEN {}
                                 ELSE {at[1]} \cup g[<<F[at[1]], at[2] - 1>>]
    <3>. DEFINE m == at[1]
                k == at[2]
    <3>1. m \in N \cup {nil} /\ k \in 0..Cardinality(N)
      OBVIOUS
    <3>. HIDE DEF m, k
    <3>2. CASE k = 0
      BY <3>1, <3>2 DEF ChainSteps, m, k
    <3>3. CASE k # 0 /\ m = nil
      <4>1. k \in 1..Cardinality(N)
        BY <1>2, <3>1, <3>3
      <4>. QED BY <3>3, <4>1 DEF ChainSteps, m, k
    <3>4. CASE k # 0 /\ m # nil
      <4>1. k \in 1..Cardinality(N) /\ k - 1 \in 0..Cardinality(N) /\ m \in N
        BY <1>2, <3>1, <3>4
      <4>2. <<F[m], k - 1>> \in P
        BY <1>2, <4>1
      <4>3. g[<<F[m], k - 1>>] = c[k - 1][F[m]]
        BY <4>2
      <4>4. c[k][m] = {m} \cup c[k - 1][F[m]]
        BY <4>1 DEF ChainSteps
      <4>. QED BY <3>4, <4>3, <4>4 DEF m, k
    <3>. QED BY <3>2, <3>3, <3>4
  <2>. QED BY <2>1
<1>4. Rec(f)
  <2>. HIDE DEF Rec, g
  <2>. QED BY <1>3
<1>5. \A m \in N \cup {nil} : f[<<m, 0>>] = {}
  <2>1. \A m \in N \cup {nil} : <<m, 0>> \in P
    BY <1>2
  <2>. QED BY ZenonT(60), <1>4, <2>1
<1>6. ASSUME NEW m \in N \cup {nil}, NEW k \in 1..Cardinality(N)
      PROVE  f[<<m, k>>] = IF m = nil THEN {} ELSE {m} \cup f[<<F[m], k - 1>>]
  <2>1. k # 0 /\ <<m, k>> \in P
    BY <1>2
  <2>. QED BY ZenonT(60), <1>4, <2>1
<1>. HIDE DEF f
<1>7. \A k \in 0..Cardinality(N) : \A m \in N \cup {nil} : f[<<m, k>>] = c[k][m]
  <2>. DEFINE T == {k \in Nat : k \in 0..Cardinality(N) => \A m \in N \cup {nil} : f[<<m, k>>] = c[k][m]}
  <2>1. 0 \in T
    BY <1>5 DEF ChainSteps
  <2>2. ASSUME NEW k \in T PROVE k + 1 \in T
    <3>. SUFFICES ASSUME k + 1 \in 0..Cardinality(N), NEW m \in N \cup {nil} PROVE f[<<m, k + 1>>] = c[k + 1][m]
      OBVIOUS
    <3>1. k + 1 \in 1..Cardinality(N) /\ k \in 0..Cardinality(N) /\ (k + 1) - 1 = k
      BY <1>2
    <3>2. CASE m = nil
      BY ZenonT(60), <1>6, <3>1, <3>2 DEF ChainSteps
    <3>3. CASE m # nil
      <4>1. m \in N /\ F[m] \in N \cup {nil}
        BY <1>2, <3>3
      <4>2. f[<<F[m], k>>] = c[k][F[m]]
        BY <3>1, <4>1
      <4>3. f[<<m, k + 1>>] = {m} \cup f[<<F[m], k>>]
        <5>1. f[<<m, k + 1>>] = {m} \cup f[<<F[m], (k + 1) - 1>>]
          BY Zenon, <1>6, <3>1, <3>3
        <5>. QED BY <3>1, <5>1
      <4>4. c[k + 1][m] = {m} \cup c[k][F[m]]
        BY <3>1, <4>1 DEF ChainSteps
      <4>. QED BY <4>2, <4>3, <4>4
    <3>. QED BY <3>2, <3>3
  <2>. HIDE DEF T
  <2>3. T \in SUBSET Nat
    BY DEF T
  <2>4. T = Nat
    BY <2>1, <2>2, <2>3, Induction
  <2>5. ASSUME NEW k \in 0..Cardinality(N) PROVE \A m \in N \cup {nil} : f[<<m, k>>] = c[k][m]
    <3>1. k \in T
      BY <2>4, <1>2
    <3>. QED BY <3>1 DEF T
  <2>. QED BY Zenon, <2>5
<1>. QED BY <1>1, <1>2, <1>7

(* Where F changes at one node, the chains that do not meet it are spared. *)
LEMMA ChainSpared ==
  ASSUME NEW N, NEW nil, IsFiniteSet(N), nil \notin N, NEW F \in [N -> N \cup {nil}],
         NEW G \in [N -> N \cup {nil}], NEW a \in N, \A x \in N \ {a} : G[x] = F[x],
         NEW n \in N \cup {nil}, a \notin Chain(N, nil, F, n)
  PROVE  a \notin Chain(N, nil, G, n)
<1>. PICK s : s = Cardinality(N)
  OBVIOUS
<1>1. s \in Nat
  BY FS_CardinalityType
<1>2. PICK c : ChainSteps(N, nil, c, F, s)
  BY <1>1, ClimbsExist
<1>3. PICK d : ChainSteps(N, nil, d, G, s)
  BY <1>1, ClimbsExist
<1>. DEFINE T == {k \in Nat : k <= s => \A m \in N \cup {nil} : a \notin c[k][m] => d[k][m] = c[k][m]}
<1>4. 0 \in T
  BY <1>2, <1>3 DEF ChainSteps
<1>5. ASSUME NEW k \in T PROVE k + 1 \in T
  <2>. SUFFICES ASSUME k + 1 <= s, NEW m \in N \cup {nil}, a \notin c[k + 1][m]
                PROVE  d[k + 1][m] = c[k + 1][m]
    OBVIOUS
  <2>1. k + 1 \in 1..s /\ (k + 1) - 1 = k /\ k <= s
    BY <1>1
  <2>2. CASE m = nil
    BY <1>2, <1>3, <2>1, <2>2 DEF ChainSteps
  <2>3. CASE m # nil
    <3>1. /\ c[k + 1][m] = {m} \cup c[k][F[m]]
          /\ d[k + 1][m] = {m} \cup d[k][G[m]]
          /\ F[m] \in N \cup {nil}
      BY <1>2, <1>3, <2>1, <2>3 DEF ChainSteps
    <3>2. G[m] = F[m] /\ a \notin c[k][F[m]]
      BY <2>3, <3>1
    <3>. QED BY <2>1, <3>1, <3>2
  <2>. QED BY <2>2, <2>3
<1>6. T = Nat
  <2>1. T \in SUBSET Nat
    OBVIOUS
  <2>. HIDE DEF T
  <2>. QED BY <1>4, <1>5, <2>1, Induction
<1>7. a \notin c[s][n] => d[s][n] = c[s][n]
  BY <1>1, <1>6
<1>8. Chain(N, nil, F, n) = c[s][n] /\ Chain(N, nil, G, n) = d[s][n]
  BY <1>2, <1>3, ChainClimbs
<1>. QED BY <1>7, <1>8

(* Along a grounded pointer no node is met again. *)
LEMMA ClimbMeetsOnce ==
  ASSUME NEW N, NEW nil, IsFiniteSet(N), nil \notin N, NEW F \in [N -> N \cup {nil}],
         Rooted(N, F), NEW n \in Nat, NEW c, ChainSteps(N, nil, c, F, n),
         NEW m \in N, NEW k \in 0..n
  PROVE  m \notin c[k][F[m]]
<1>. SUFFICES ASSUME m \in c[k][F[m]] PROVE FALSE
  OBVIOUS
<1>. DEFINE X == {x \in N : \E j \in 0..n : m \in c[j][F[x]]}
<1>1. X \in SUBSET N /\ m \in X
  OBVIOUS
<1>2. ASSUME NEW x \in X PROVE F[x] \in X
  <2>1. PICK j \in 0..n : m \in c[j][F[x]]
    BY <1>2
  <2>2. F[x] \in N \cup {nil}
    OBVIOUS
  <2>3. j \in 1..n /\ j - 1 \in 0..n /\ F[x] # nil
    <3>1. j # 0
      BY <2>1, <2>2 DEF ChainSteps
    <3>2. j \in 1..n /\ j - 1 \in 0..n
      BY <3>1
    <3>. QED BY <2>1, <3>2 DEF ChainSteps
  <2>4. F[x] \in N
    BY <2>2, <2>3
  <2>5. c[j][F[x]] = {F[x]} \cup c[j - 1][F[F[x]]]
    BY <2>3, <2>4 DEF ChainSteps
  <2>6. CASE m = F[x]
    BY <1>1, <2>6
  <2>7. CASE m # F[x]
    BY <2>1, <2>3, <2>4, <2>5, <2>7
  <2>. QED BY <2>6, <2>7
<1>. HIDE DEF X
<1>. QED BY <1>1, <1>2 DEF Rooted

(* After as many steps as there are nodes there is no other node. *)
LEMMA ClimbEnds ==
  ASSUME NEW N, NEW nil, IsFiniteSet(N), nil \notin N, NEW F \in [N -> N \cup {nil}],
         Rooted(N, F), NEW c, ChainSteps(N, nil, c, F, Cardinality(N) + 1), NEW n \in N \cup {nil}
  PROVE  c[Cardinality(N) + 1][n] = c[Cardinality(N)][n]
<1>1. /\ nil \notin N /\ nil \in N \cup {nil} /\ (\A m \in N : F[m] \in N \cup {nil} /\ m \in N \cup {nil})
      /\ Cardinality(N) \in Nat /\ Cardinality(N) + 1 \in Nat /\ IsFiniteSet(N)
  BY FS_CardinalityType
<1>2. \A k \in 0..(Cardinality(N) + 1) : \A m \in N \cup {nil} : c[k][m] \in SUBSET N
  BY DEF ChainSteps
<1>. DEFINE Ok(k, m) == c[k + 1][m] = c[k][m] \/ Cardinality(c[k + 1][m]) >= k + 1
            T == {k \in Nat : k <= Cardinality(N) => \A m \in N \cup {nil} : Ok(k, m)}
<1>3. 0 \in T
  <2>. SUFFICES ASSUME NEW m \in N \cup {nil} PROVE Ok(0, m)
    OBVIOUS
  <2>1. 1 \in 1..(Cardinality(N) + 1) /\ 0 \in 0..(Cardinality(N) + 1)
    BY <1>1
  <2>2. CASE m = nil
    <3>1. c[1][nil] = {}
      BY <2>1 DEF ChainSteps
    <3>2. c[0][nil] = {}
      BY <1>1 DEF ChainSteps
    <3>. QED BY <2>2, <3>1, <3>2
  <2>3. CASE m # nil
    <3>1. m \in N /\ F[m] \in N \cup {nil}
      BY <1>1, <2>3
    <3>2. c[1][m] = {m}
      BY <2>1, <3>1 DEF ChainSteps
    <3>3. Cardinality({m}) = 1
      BY FS_Singleton
    <3>. QED BY <3>2, <3>3
  <2>. QED BY <2>2, <2>3
<1>4. ASSUME NEW k \in T PROVE k + 1 \in T
  <2>. SUFFICES ASSUME k + 1 <= Cardinality(N), NEW m \in N \cup {nil} PROVE Ok(k + 1, m)
    OBVIOUS
  <2>1. /\ k + 1 \in 1..(Cardinality(N) + 1) /\ (k + 1) + 1 \in 1..(Cardinality(N) + 1) /\ (k + 1) - 1 = k
        /\ ((k + 1) + 1) - 1 = k + 1 /\ k + 1 \in 0..(Cardinality(N) + 1) /\ k <= Cardinality(N) /\ k \in Nat
    BY <1>1
  <2>2. CASE m = nil
    <3>1. c[k + 1][nil] = {}
      BY <2>1 DEF ChainSteps
    <3>2. c[(k + 1) + 1][nil] = {}
      BY <2>1 DEF ChainSteps
    <3>. QED BY <2>2, <3>1, <3>2
  <2>3. CASE m # nil
    <3>1. m \in N /\ F[m] \in N \cup {nil}
      BY <1>1, <2>3
    <3>2. c[k + 1][m] = {m} \cup c[k][F[m]] /\ c[(k + 1) + 1][m] = {m} \cup c[k + 1][F[m]]
      BY <2>1, <3>1 DEF ChainSteps
    <3>3. Ok(k, F[m])
      BY <2>1, <3>1
    <3>4. CASE c[k + 1][F[m]] = c[k][F[m]]
      BY <3>2, <3>4
    <3>5. CASE Cardinality(c[k + 1][F[m]]) >= k + 1
      <4>. DEFINE S == c[k + 1][F[m]]
      <4>1. m \notin S
        BY <1>1, <2>1, <3>1, ClimbMeetsOnce
      <4>2. S \in SUBSET N
        BY <1>2, <2>1, <3>1
      <4>3. c[(k + 1) + 1][m] = S \cup {m}
        BY <3>2
      <4>4. Cardinality(S) >= k + 1
        BY <3>5
      <4>. HIDE DEF S
      <4>5. IsFiniteSet(S) /\ Cardinality(S) \in Nat
        BY <4>2, FS_Subset, FS_CardinalityType
      <4>6. Cardinality(S \cup {m}) = Cardinality(S) + 1
        BY <4>1, <4>5, FS_AddElement
      <4>7. Cardinality(c[(k + 1) + 1][m]) >= (k + 1) + 1
        BY <2>1, <4>3, <4>4, <4>5, <4>6
      <4>. QED BY <4>7
    <3>. QED BY <3>3, <3>4, <3>5
  <2>. QED BY <2>2, <2>3
<1>5. Ok(Cardinality(N), n)
  <2>. HIDE DEF Ok
  <2>1. T \in SUBSET Nat
    OBVIOUS
  <2>2. T = Nat
    <3>. HIDE DEF T
    <3>. QED BY <1>3, <1>4, <2>1, Induction
  <2>. QED BY <1>1, <2>2
<1>6. c[Cardinality(N) + 1][n] \in SUBSET N
  <2>1. Cardinality(N) + 1 \in 0..(Cardinality(N) + 1)
    BY <1>1
  <2>. QED BY <1>2, <2>1
<1>7. Cardinality(c[Cardinality(N) + 1][n]) \in Nat /\ Cardinality(c[Cardinality(N) + 1][n]) <= Cardinality(N)
  BY <1>1, <1>6, FS_Subset, FS_CardinalityType
<1>. QED BY <1>1, <1>5, <1>7

(* A chain is a node and the chain above it. *)
LEMMA ChainUnfolds ==
  ASSUME NEW N, NEW nil, IsFiniteSet(N), nil \notin N, NEW F \in [N -> N \cup {nil}],
         Rooted(N, F)
  PROVE  /\ Chain(N, nil, F, nil) = {}
         /\ \A n \in N \cup {nil} : Chain(N, nil, F, n) \in SUBSET N
         /\ \A n \in N : Chain(N, nil, F, n) = {n} \cup Chain(N, nil, F, F[n])
         /\ \A n \in N : n \notin Chain(N, nil, F, F[n])
<1>1. /\ nil \notin N /\ nil \in N \cup {nil} /\ (\A m \in N : F[m] \in N \cup {nil} /\ m \in N \cup {nil})
      /\ Cardinality(N) \in Nat /\ Cardinality(N) + 1 \in Nat
  BY FS_CardinalityType
<1>2. PICK c : ChainSteps(N, nil, c, F, Cardinality(N) + 1)
  BY <1>1, ClimbsExist
<1>. DEFINE b == [k \in 0..Cardinality(N) |-> c[k]]
<1>3. ChainSteps(N, nil, b, F, Cardinality(N))
  <2>1. \A k \in 0..Cardinality(N) : k \in 0..(Cardinality(N) + 1) /\ b[k] = c[k]
    BY <1>1
  <2>2. b \in [0..Cardinality(N) -> [N \cup {nil} -> SUBSET N]]
    BY <1>2, <2>1 DEF ChainSteps
  <2>3. \A k \in 1..Cardinality(N) : /\ k \in 0..Cardinality(N) /\ k - 1 \in 0..Cardinality(N)
                                  /\ k \in 1..(Cardinality(N) + 1)
    BY <1>1
  <2>4. 0 \in 0..Cardinality(N)
    BY <1>1
  <2>. HIDE DEF b
  <2>5. \A m \in N \cup {nil} : b[0][m] = {}
    BY <1>2, <2>1, <2>4 DEF ChainSteps
  <2>6. \A k \in 1..Cardinality(N) : b[k][nil] = {}
    BY <1>2, <2>1, <2>3 DEF ChainSteps
  <2>7. \A k \in 1..Cardinality(N) : \A m \in N : b[k][m] = {m} \cup b[k - 1][F[m]]
    BY <1>2, <2>1, <2>3 DEF ChainSteps
  <2>. QED BY <2>2, <2>5, <2>6, <2>7 DEF ChainSteps
<1>4. b[Cardinality(N)] = c[Cardinality(N)] /\ Cardinality(N) \in 0..(Cardinality(N) + 1)
  BY <1>1
<1>. HIDE DEF b
<1>5. \A n \in N \cup {nil} : Chain(N, nil, F, n) = c[Cardinality(N)][n]
  BY <1>3, <1>4, ChainClimbs
<1>6. \A n \in N \cup {nil} : Chain(N, nil, F, n) = c[Cardinality(N) + 1][n]
  BY <1>2, <1>5, ClimbEnds
<1>7. Cardinality(N) + 1 \in 1..(Cardinality(N) + 1) /\ (Cardinality(N) + 1) - 1 = Cardinality(N)
  BY <1>1
<1>8. Chain(N, nil, F, nil) = {}
  BY <1>1, <1>2, <1>6, <1>7 DEF ChainSteps
<1>9. \A n \in N \cup {nil} : Chain(N, nil, F, n) \in SUBSET N
  BY <1>2, <1>4, <1>5 DEF ChainSteps
<1>10. ASSUME NEW n \in N PROVE Chain(N, nil, F, n) = {n} \cup Chain(N, nil, F, F[n])
  BY <1>1, <1>2, <1>5, <1>6, <1>7 DEF ChainSteps
<1>11. ASSUME NEW n \in N PROVE n \notin Chain(N, nil, F, F[n])
  <2>1. n \notin c[Cardinality(N)][F[n]]
    BY <1>1, <1>2, <1>4, ClimbMeetsOnce
  <2>. QED BY <1>1, <1>5, <2>1
<1>. QED BY <1>8, <1>9, <1>10, <1>11

(* A chain that starts in a set closed under the pointer stays there. *)
LEMMA ChainWithin ==
  ASSUME NEW N, NEW nil, IsFiniteSet(N), nil \notin N, NEW F \in [N -> N \cup {nil}],
         Rooted(N, F), NEW X \in SUBSET N,
         \A x \in X : F[x] \in X \cup {nil}, NEW n \in X \cup {nil}
  PROVE  Chain(N, nil, F, n) \subseteq X
<1>. DEFINE Bad == {m \in X : ~ (Chain(N, nil, F, m) \subseteq X)}
<1>1. Bad \in SUBSET N
  OBVIOUS
<1>2. ASSUME NEW m \in Bad PROVE F[m] \in Bad
  BY ChainUnfolds
<1>. HIDE DEF Bad
<1>3. Bad = {}
  BY <1>1, <1>2 DEF Rooted
<1>. QED BY <1>3, ChainUnfolds DEF Bad

(* A chain is closed under its pointer, and ends. *)
LEMMA ChainFacts ==
  ASSUME NEW N, NEW nil, IsFiniteSet(N), nil \notin N, NEW F \in [N -> N \cup {nil}],
         Rooted(N, F), NEW n \in N
  PROVE  /\ Chain(N, nil, F, n) \in SUBSET N /\ n \in Chain(N, nil, F, n)
         /\ \A a \in Chain(N, nil, F, n) : F[a] \in Chain(N, nil, F, n) \cup {nil}
         /\ \A a \in Chain(N, nil, F, n) : Chain(N, nil, F, a) \subseteq Chain(N, nil, F, n)
         /\ \E r \in Chain(N, nil, F, n) : F[r] = nil
         /\ F[n] # nil => F[n] \in Chain(N, nil, F, n)
<1>1. nil \notin N /\ \A m \in N : F[m] \in N \cup {nil}
  BY FS_CardinalityType
<1>. DEFINE Closed(m) == \A a \in Chain(N, nil, F, m) : F[a] \in Chain(N, nil, F, m) \cup {nil}
            Bad == {m \in N : ~ Closed(m)}
<1>2. ASSUME NEW m \in Bad PROVE F[m] \in Bad
  <2>1. Chain(N, nil, F, m) = {m} \cup Chain(N, nil, F, F[m])
    BY ChainUnfolds
  <2>2. F[m] # nil
    BY <2>1, ChainUnfolds
  <2>3. F[m] \in N /\ F[m] \in Chain(N, nil, F, F[m])
    BY <1>1, <2>2, ChainUnfolds
  <2>. QED BY <2>1, <2>3
<1>3. Bad \in SUBSET N
  OBVIOUS
<1>4. Bad = {}
  <2>. HIDE DEF Bad
  <2>. QED BY <1>2, <1>3 DEF Rooted
<1>5. Chain(N, nil, F, n) \in SUBSET N /\ n \in Chain(N, nil, F, n)
  BY ChainUnfolds
<1>6. \A a \in Chain(N, nil, F, n) : F[a] \in Chain(N, nil, F, n) \cup {nil}
  BY <1>4
<1>7. \A a \in Chain(N, nil, F, n) : Chain(N, nil, F, a) \subseteq Chain(N, nil, F, n)
  BY <1>5, <1>6, ChainWithin
<1>8. \E r \in Chain(N, nil, F, n) : F[r] = nil
  BY <1>5, <1>6 DEF Rooted
<1>. QED BY <1>5, <1>6, <1>7, <1>8

(* Of two nodes of a chain one is above the other. *)
LEMMA ChainOrdered ==
  ASSUME NEW N, NEW nil, IsFiniteSet(N), nil \notin N, NEW F \in [N -> N \cup {nil}],
         Rooted(N, F), NEW n \in N,
         NEW a \in Chain(N, nil, F, n), NEW b \in Chain(N, nil, F, n)
  PROVE  a \in Chain(N, nil, F, b) \/ b \in Chain(N, nil, F, a)
<1>. DEFINE Bad == {m \in N : a \in Chain(N, nil, F, m) /\ b \in Chain(N, nil, F, m)}
<1>. SUFFICES ASSUME ~ (a \in Chain(N, nil, F, b) \/ b \in Chain(N, nil, F, a)) PROVE FALSE
  OBVIOUS
<1>1. Bad \in SUBSET N /\ n \in Bad
  OBVIOUS
<1>2. ASSUME NEW m \in Bad PROVE F[m] \in Bad
  <2>1. Chain(N, nil, F, m) = {m} \cup Chain(N, nil, F, F[m])
    BY ChainUnfolds
  <2>2. m # a /\ m # b
    OBVIOUS
  <2>3. a \in Chain(N, nil, F, F[m]) /\ b \in Chain(N, nil, F, F[m])
    BY <2>1, <2>2
  <2>4. F[m] \in N
    BY <2>3, ChainUnfolds
  <2>. QED BY <2>3, <2>4
<1>. HIDE DEF Bad
<1>. QED BY <1>1, <1>2 DEF Rooted

(* Two nodes that are above each other are the same. *)
LEMMA ChainOneWay ==
  ASSUME NEW N, NEW nil, IsFiniteSet(N), nil \notin N, NEW F \in [N -> N \cup {nil}],
         Rooted(N, F), NEW a \in N, NEW b \in N,
         a \in Chain(N, nil, F, b), b \in Chain(N, nil, F, a)
  PROVE  a = b
<1>. SUFFICES ASSUME a # b PROVE FALSE
  OBVIOUS
<1>1. a \in Chain(N, nil, F, F[b])
  BY ChainUnfolds
<1>2. F[b] \in N
  BY <1>1, ChainUnfolds
<1>3. b \in Chain(N, nil, F, F[b])
  BY <1>1, <1>2, ChainFacts
<1>. QED BY <1>3, ChainUnfolds

(* Pointers that agree along a chain have the same chain. *)
LEMMA ChainAgrees ==
  ASSUME NEW N, NEW nil, IsFiniteSet(N), nil \notin N, NEW F \in [N -> N \cup {nil}],
         Rooted(N, F), NEW G \in [N -> N \cup {nil}], Rooted(N, G), NEW n \in N,
         \A x \in Chain(N, nil, F, n) : G[x] = F[x]
  PROVE  Chain(N, nil, G, n) = Chain(N, nil, F, n)
<1>. DEFINE Bad == {m \in Chain(N, nil, F, n) : Chain(N, nil, G, m) # Chain(N, nil, F, m)}
<1>1. Bad \in SUBSET N
  BY ChainFacts
<1>2. ASSUME NEW m \in Bad PROVE F[m] \in Bad
  <2>1. m \in N /\ G[m] = F[m] /\ F[m] \in Chain(N, nil, F, n) \cup {nil}
    BY ChainFacts
  <2>2. /\ Chain(N, nil, G, m) = {m} \cup Chain(N, nil, G, F[m])
        /\ Chain(N, nil, F, m) = {m} \cup Chain(N, nil, F, F[m])
    BY <2>1, ChainUnfolds
  <2>3. F[m] # nil
    <3>1. Chain(N, nil, G, nil) = {} /\ Chain(N, nil, F, nil) = {}
      BY ChainUnfolds
    <3>. QED BY <2>2, <3>1
  <2>4. F[m] \in Chain(N, nil, F, n)
    BY <2>1, <2>3
  <2>5. Chain(N, nil, G, F[m]) # Chain(N, nil, F, F[m])
    BY <2>2
  <2>. QED BY <2>4, <2>5
<1>. HIDE DEF Bad
<1>3. Bad = {}
  BY <1>1, <1>2 DEF Rooted
<1>. QED BY <1>3, ChainFacts DEF Bad

-----------------------------------------------------------------------------
(* Moving nodes: pointers G that are F but for the nodes of M, which point
   to p, which is not below them.                                          *)
ChainMove(N, nil, F, M, p, G) ==
  /\ F \in [N -> N \cup {nil}] /\ Rooted(N, F) /\ p \in N \cup {nil}
  /\ G \in [N -> N \cup {nil}]
  /\ \A x \in N : G[x] = IF x \in M THEN p ELSE F[x]
  /\ Chain(N, nil, F, p) \cap M = {}

(* Such a move makes no cycle. *)
LEMMA ChainMoveRooted ==
  ASSUME NEW N, NEW nil, IsFiniteSet(N), nil \notin N, NEW F, NEW M, NEW p, NEW G,
         ChainMove(N, nil, F, M, p, G)
  PROVE  Rooted(N, G)
<1>. USE DEF ChainMove
<1>. SUFFICES ASSUME NEW X \in SUBSET N, X # {}, \A x \in X : G[x] \in X
              PROVE  FALSE
  BY DEF Rooted
<1>1. CASE X \cap M = {}
  <2>1. \A x \in X : F[x] \in X
    BY <1>1
  <2>. QED BY <2>1 DEF Rooted
<1>2. CASE X \cap M # {}
  <2>. DEFINE Y == X \cap Chain(N, nil, F, p)
  <2>1. p \in X
    BY <1>2
  <2>2. Y \in SUBSET N /\ Y # {}
    BY <2>1, ChainFacts
  <2>3. ASSUME NEW y \in Y PROVE F[y] \in Y
    <3>1. y \in N /\ G[y] = F[y] /\ G[y] \in X /\ F[y] # nil
      OBVIOUS
    <3>. QED BY <2>1, <3>1, ChainFacts
  <2>. HIDE DEF Y
  <2>. QED BY <2>2, <2>3 DEF Rooted
<1>. QED BY <1>1, <1>2

(* What is not below the moved nodes keeps its chain. *)
LEMMA ChainMoveElsewhere ==
  ASSUME NEW N, NEW nil, IsFiniteSet(N), nil \notin N, NEW F, NEW M, NEW p, NEW G,
         ChainMove(N, nil, F, M, p, G),
         NEW x \in N \cup {nil}, Chain(N, nil, F, x) \cap M = {}
  PROVE  Chain(N, nil, G, x) = Chain(N, nil, F, x)
<1>1. Rooted(N, G)
  BY ChainMoveRooted
<1>. USE DEF ChainMove
<1>2. CASE x = nil
  BY <1>1, <1>2, ChainUnfolds
<1>3. CASE x # nil
  <2>1. x \in N
    BY <1>3
  <2>2. \A y \in Chain(N, nil, F, x) : G[y] = F[y]
    BY <2>1, ChainFacts
  <2>. QED BY <1>1, <2>1, <2>2, ChainAgrees
<1>. QED BY <1>2, <1>3

(* What is below a moved node keeps its chain up to that node, and then has
   the chain of p. *)
LEMMA ChainMoveBelow ==
  ASSUME NEW N, NEW nil, IsFiniteSet(N), nil \notin N, NEW F, NEW M, NEW p, NEW G,
         ChainMove(N, nil, F, M, p, G),
         M \in SUBSET N,
         \A m \in M : Chain(N, nil, F, F[m]) \cap M = {},
         NEW m \in M, NEW x \in N, m \in Chain(N, nil, F, x)
  PROVE  Chain(N, nil, G, x)
           = {y \in Chain(N, nil, F, x) : m \in Chain(N, nil, F, y)} \cup Chain(N, nil, F, p)
<1>1. Rooted(N, G)
  BY ChainMoveRooted
<1>2. Chain(N, nil, G, p) = Chain(N, nil, F, p)
  <2>1. p \in N \cup {nil} /\ Chain(N, nil, F, p) \cap M = {}
    BY DEF ChainMove
  <2>. QED BY <2>1, ChainMoveElsewhere
<1>. USE DEF ChainMove
<1>. DEFINE Part(z) == {y \in Chain(N, nil, F, z) : m \in Chain(N, nil, F, y)}
            Bad == {z \in N : /\ m \in Chain(N, nil, F, z)
                              /\ Chain(N, nil, G, z) # Part(z) \cup Chain(N, nil, F, p)}
<1>3. ASSUME NEW z \in Bad PROVE F[z] \in Bad
  <2>1. z # m
    <3>. SUFFICES ASSUME z = m PROVE FALSE
      OBVIOUS
    <3>1. Chain(N, nil, G, m) = {m} \cup Chain(N, nil, F, p)
      BY <1>1, <1>2, ChainUnfolds
    <3>2. Part(m) = {m}
      <4>1. m \in Chain(N, nil, F, m)
        BY ChainFacts
      <4>2. \A y \in Chain(N, nil, F, m) : m \in Chain(N, nil, F, y) => y = m
        BY ChainFacts, ChainOneWay
      <4>. QED BY <4>1, <4>2
    <3>. QED BY <3>1, <3>2
  <2>2. Chain(N, nil, F, z) = {z} \cup Chain(N, nil, F, F[z])
    BY ChainUnfolds
  <2>3. m \in Chain(N, nil, F, F[z])
    BY <2>1, <2>2
  <2>4. F[z] \in N
    BY <2>3, ChainUnfolds
  <2>5. z \notin M
    BY <2>3
  <2>6. Chain(N, nil, G, z) = {z} \cup Chain(N, nil, G, F[z])
    BY <1>1, <2>5, ChainUnfolds
  <2>7. Part(z) = {z} \cup Part(F[z])
    BY <2>2
  <2>. QED BY <2>3, <2>4, <2>6, <2>7
<1>4. Bad \in SUBSET N
  OBVIOUS
<1>5. Bad = {}
  <2>. HIDE DEF Bad
  <2>. QED BY <1>3, <1>4 DEF Rooted
<1>. QED BY <1>5

(* Of the moved nodes none is above another, so the same are in every chain. *)
LEMMA ChainMoveMeets ==
  ASSUME NEW N, NEW nil, IsFiniteSet(N), nil \notin N, NEW F, NEW M, NEW p, NEW G,
         ChainMove(N, nil, F, M, p, G),
         M \in SUBSET N,
         \A m \in M : Chain(N, nil, F, F[m]) \cap M = {},
         NEW x \in N \cup {nil}
  PROVE  Chain(N, nil, G, x) \cap M = Chain(N, nil, F, x) \cap M
<1>1. CASE Chain(N, nil, F, x) \cap M = {}
  BY <1>1, ChainMoveElsewhere
<1>2. CASE Chain(N, nil, F, x) \cap M # {}
  <2>1. PICK m \in M : m \in Chain(N, nil, F, x)
    BY <1>2
  <2>2. x \in N
    BY <2>1, ChainUnfolds DEF ChainMove
  <2>3. Chain(N, nil, G, x)
          = {y \in Chain(N, nil, F, x) : m \in Chain(N, nil, F, y)} \cup Chain(N, nil, F, p)
    BY <2>1, <2>2, ChainMoveBelow
  <2>4. ASSUME NEW w \in M, w \in Chain(N, nil, F, x) PROVE w = m
    <3>1. w \in Chain(N, nil, F, m) \/ m \in Chain(N, nil, F, w)
      BY <2>1, <2>2, <2>4, ChainOrdered DEF ChainMove
    <3>2. /\ Chain(N, nil, F, m) = {m} \cup Chain(N, nil, F, F[m])
          /\ Chain(N, nil, F, w) = {w} \cup Chain(N, nil, F, F[w])
      BY ChainUnfolds DEF ChainMove
    <3>. QED BY <3>1, <3>2
  <2>5. m \in Chain(N, nil, F, m)
    BY ChainFacts DEF ChainMove
  <2>6. Chain(N, nil, F, p) \cap M = {}
    BY DEF ChainMove
  <2>. QED BY <2>1, <2>3, <2>4, <2>5, <2>6
<1>. QED BY <1>1, <1>2

-----------------------------------------------------------------------------
(* More about chains.                                                      *)

(* A node above another one has a child in its chain. *)
LEMMA ChainChild ==
  ASSUME NEW N, NEW nil, IsFiniteSet(N), nil \notin N, NEW F \in [N -> N \cup {nil}],
         Rooted(N, F), NEW s \in N, NEW z \in Chain(N, nil, F, s), z # s
  PROVE  \E y \in Chain(N, nil, F, s) : F[y] = z
<1>. SUFFICES ASSUME \A y \in Chain(N, nil, F, s) : F[y] # z PROVE FALSE
  OBVIOUS
<1>. DEFINE X == Chain(N, nil, F, s) \ {z}
<1>1. X \in SUBSET N /\ s \in X /\ \A x \in X : F[x] \in X \cup {nil}
  BY ChainFacts
<1>. HIDE DEF X
<1>2. Chain(N, nil, F, s) \subseteq X
  BY <1>1, ChainWithin
<1>. QED BY <1>2 DEF X

(* The node above one of a chain is in the chain above. *)
LEMMA ChainAbove ==
  ASSUME NEW N, NEW nil, IsFiniteSet(N), nil \notin N, NEW F \in [N -> N \cup {nil}],
         Rooted(N, F), NEW x \in N, NEW m \in Chain(N, nil, F, x), F[m] # nil
  PROVE  F[x] \in N /\ F[m] \in Chain(N, nil, F, F[x])
<1>1. CASE m = x
  BY <1>1, ChainFacts
<1>2. CASE m # x
  <2>1. m \in Chain(N, nil, F, F[x])
    BY <1>2, ChainUnfolds
  <2>2. F[x] \in N
    BY <2>1, ChainUnfolds
  <2>. QED BY <2>1, <2>2, ChainFacts
<1>. QED BY <1>1, <1>2

(* When every node of K that is no root has a node of K above it, every node
   of K has a root of K above it. *)
LEMMA ChainRoot ==
  ASSUME NEW N, NEW nil, IsFiniteSet(N), nil \notin N, NEW F \in [N -> N \cup {nil}],
         Rooted(N, F), NEW K,
         \A y \in K : F[y] # nil => Chain(N, nil, F, F[y]) \cap K # {}, NEW x \in K, x \in N
  PROVE  \E r \in Chain(N, nil, F, x) \cap K : F[r] = nil
<1>. SUFFICES ASSUME \A r \in Chain(N, nil, F, x) \cap K : F[r] # nil PROVE FALSE
  OBVIOUS
<1>. DEFINE Z == {z \in Chain(N, nil, F, x) : Chain(N, nil, F, F[z]) \cap K # {}}
<1>1. Chain(N, nil, F, x) \in SUBSET N /\ x \in Chain(N, nil, F, x)
  BY ChainFacts
<1>2. \A y \in Chain(N, nil, F, x) \cap K : y \in Z
  OBVIOUS
<1>3. ASSUME NEW z \in Z PROVE F[z] \in Z
  <2>1. F[z] # nil
    BY ChainUnfolds
  <2>2. F[z] \in Chain(N, nil, F, x) /\ F[z] \in N
    BY <1>1, <2>1, ChainFacts
  <2>3. Chain(N, nil, F, F[z]) = {F[z]} \cup Chain(N, nil, F, F[F[z]])
    BY <2>2, ChainUnfolds
  <2>. QED BY <1>2, <2>2, <2>3
<1>4. Z \in SUBSET N /\ x \in Z
  BY <1>1, <1>2
<1>. HIDE DEF Z
<1>. QED BY <1>3, <1>4 DEF Rooted

=============================================================================
