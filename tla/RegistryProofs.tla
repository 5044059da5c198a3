--------------------------- MODULE RegistryProofs ---------------------------
(***************************************************************************)
(* The counts of shared proxies are exact, for any threads and nodes.      *)
(*                                                                         *)
(* The inductive invariant Sound adds to the properties of Registry what   *)
(* holds between the copying of a thread and CLONE: the new thread has     *)
(* what the thread it is copied from has, one object of a node at most, so *)
(* that counting an entry of the registry once counts each copy (Copying). *)
(* The theorems assume that no thread is spawned with two objects of one   *)
(* node, the use SecondObject of Registry.                                 *)
(***************************************************************************)
EXTENDS Registry, InductionLemmas

-----------------------------------------------------------------------------
(* The inductive invariant *)

Ledgers == [Proxies -> Nat]

Types ==
  /\ running \in SUBSET Threads
  /\ source \in [Threads -> Threads \cup {NULL}]
  /\ objects \in [Threads -> Ledgers]
  /\ table \in [Threads -> Ledgers]
  /\ live \in SUBSET Proxies
  /\ count \in Ledgers

(* A thread that is being made: its source stands still. *)
Copying ==
  \A u \in Threads : source[u] # NULL =>
    /\ u \in running /\ source[u] \in running
    /\ source[source[u]] = NULL
    /\ objects[u] = objects[source[u]]
    /\ \A p \in Proxies : objects[u][p] <= 1

(* A thread that does not exist has nothing. *)
Absent ==
  \A t \in Threads \ running :
    source[t] = NULL /\ \A p \in Proxies : objects[t][p] = 0

(* A proxy is in memory as long as it is counted. *)
LiveCounted == \A p \in Proxies : p \in live <=> count[p] > 0

Sound ==
  /\ Types
  /\ Copying
  /\ Absent
  /\ LiveCounted
  /\ CountsExact
  /\ RegistryExact

-----------------------------------------------------------------------------
(* What the counts say *)

(* The objects of p that t has, if they are counted *)
Share(t, p) == IF source[t] = NULL THEN objects[t][p] ELSE 0

Shares(p) == [t \in Threads |-> Share(t, p)]

(* The count of a proxy is the sum of the shares of the threads. *)
LEMMA SharesType ==
  ASSUME Types, NEW p \in Proxies
  PROVE  /\ Shares(p) \in [Threads -> Nat] /\ Counted(p) = SumFunction(Shares(p))
         /\ Counted(p) \in Nat
         /\ \A t \in Threads : Shares(p)[t] = Share(t, p) /\ Share(t, p) <= Counted(p)
<1>1. \A t \in Threads : objects[t][p] \in Nat
  BY DEF Types, Ledgers
<1>2. Shares(p) \in [Threads -> Nat]
  BY <1>1 DEF Shares, Share
<1>3. Counted(p) = SumFunction(Shares(p))
  BY DEF Counted, Shares, Share
<1>4. ASSUME NEW t \in Threads
      PROVE  Shares(p)[t] <= SumFunction(Shares(p)) /\ SumFunction(Shares(p)) \in Nat
  BY <1>2, ThreadsAssumption, SumChange
<1>5. SumFunction(Shares(p)) \in Nat
  BY <1>4, ThreadsAssumption
<1>6. \A t \in Threads : Shares(p)[t] = Share(t, p)
  BY DEF Shares
<1>. QED BY <1>2, <1>3, <1>4, <1>5, <1>6

(* There are finitely many proxies. *)
LEMMA FiniteProxies ==
  ASSUME Types
  PROVE  IsFiniteSet(live \cap Nodes) /\ Cardinality(live \cap Nodes) \in Nat
BY ThreadsAssumption, FS_Intersection, FS_CardinalityType

(* When one thread gets or loses objects of p, or begins to be counted *)
LEMMA CountedChange ==
  ASSUME Types, Types', NEW p \in Proxies, NEW t \in Threads,
         \A u \in Threads \ {t} : Share(u, p)' = Share(u, p)
  PROVE  Counted(p)' = Counted(p) - Share(t, p) + Share(t, p)'
<1>1. /\ Shares(p) \in [Threads -> Nat] /\ Counted(p) = SumFunction(Shares(p))
      /\ \A u \in Threads : Shares(p)[u] = Share(u, p)
  BY SharesType
<1>2. /\ Shares(p)' \in [Threads -> Nat] /\ Counted(p)' = SumFunction(Shares(p)')
      /\ \A u \in Threads : Shares(p)'[u] = Share(u, p)'
  <2>1. \A u \in Threads : objects'[u][p] \in Nat
    BY DEF Types, Ledgers
  <2>. QED BY <2>1 DEF Counted, Shares, Share
<1>3. \A u \in Threads \ {t} : Shares(p)'[u] = Shares(p)[u]
  BY <1>1, <1>2
<1>. HIDE DEF Shares
<1>4. SumFunction(Shares(p)') = SumFunction(Shares(p)) - Shares(p)[t] + Shares(p)'[t]
  BY <1>1, <1>2, <1>3, ThreadsAssumption, SumChange
<1>. QED BY <1>1, <1>2, <1>4

(* ObjectsInMemory follows from the counts; a copy that is not counted yet *)
(* is kept in memory by the object it was copied from.                     *)
LEMMA SoundInMemory ==
  ASSUME Sound
  PROVE  /\ ObjectsInMemory
         /\ \A n \in live \cap Nodes : Doc \in live
<1>. USE DEF Sound
<1>1. ASSUME NEW t \in Threads, NEW p \in Proxies, objects[t][p] > 0, source[t] = NULL
      PROVE  p \in live
  <2>1. Share(t, p) = objects[t][p] /\ Share(t, p) <= Counted(p) /\ Counted(p) \in Nat
    BY <1>1, SharesType DEF Share
  <2>2. count[p] = Counted(p) + IF p = Doc THEN Cardinality(live \cap Nodes) ELSE 0
    BY DEF CountsExact
  <2>3. objects[t][p] \in Nat /\ Cardinality(live \cap Nodes) \in Nat
    BY FiniteProxies DEF Types, Ledgers
  <2>4. count[p] > 0
    BY <2>1, <2>2, <2>3, <1>1
  <2>. QED BY <2>4 DEF LiveCounted
<1>2. ASSUME NEW t \in Threads, NEW p \in Proxies, objects[t][p] > 0, source[t] # NULL
      PROVE  p \in live
  <2>1. source[t] \in Threads /\ source[source[t]] = NULL /\ objects[source[t]][p] > 0
    BY <1>2 DEF Copying, Types
  <2>. QED BY <2>1, <1>1
<1>3. ASSUME NEW n \in live \cap Nodes PROVE Doc \in live
  <2>1. Cardinality(live \cap Nodes) \in Nat \ {0}
    BY FiniteProxies, FS_EmptySet
  <2>2. Doc \in Proxies /\ Counted(Doc) \in Nat
    BY SharesType DEF Proxies
  <2>3. count[Doc] > 0
    BY <2>1, <2>2 DEF CountsExact
  <2>. QED BY <2>2, <2>3 DEF LiveCounted
<1>. QED BY <1>1, <1>2, <1>3 DEF ObjectsInMemory

-----------------------------------------------------------------------------
(* The steps *)

(* What PmmNodeToSv does to the counts, when p is the document or the      *)
(* document has a proxy *)
LEMMA NodeToSvKeeps ==
  ASSUME Sound, NEW t \in Threads, NEW p \in Proxies, Runs(t),
         p = Doc \/ Doc \in live,
         PmmNodeToSv(t, p), UNCHANGED <<running, source>>
  PROVE  Sound'
<1>. USE DEF Sound
<1>1. /\ objects' = [objects EXCEPT ![t][p] = @ + 1]
      /\ table' = [table EXCEPT ![t][p] = @ + 1]
      /\ live' = live \cup {p}
      /\ count' = [q \in Proxies |-> count[q] + (IF q = p THEN 1 ELSE 0)
                     + (IF q = Doc /\ p \notin live \cup {Doc} THEN 1 ELSE 0)]
      /\ running' = running /\ source' = source
  BY DEF PmmNodeToSv, PmmRegistryREFCNT_inc
<1>2. t \in running /\ source[t] = NULL /\ \A u \in Threads : source[u] # t
  <2>1. \A u \in running : source[u] # t
    BY DEF Runs
  <2>2. \A u \in Threads \ running : source[u] = NULL
    BY DEF Absent
  <2>. QED BY <2>1, <2>2, ThreadsAssumption DEF Runs
<1>3. Types'
  <2>1. objects' \in [Threads -> Ledgers]
    BY <1>1 DEF Types, Ledgers
  <2>2. table' \in [Threads -> Ledgers]
    BY <1>1 DEF Types, Ledgers
  <2>3. count' \in Ledgers
    BY <1>1 DEF Types, Ledgers
  <2>. QED BY <2>1, <2>2, <2>3, <1>1 DEF Types
<1>4. /\ objects'[t][p] = objects[t][p] + 1
      /\ \A q \in Proxies \ {p} : objects'[t][q] = objects[t][q]
      /\ \A u \in Threads \ {t} : objects'[u] = objects[u] /\ table'[u] = table[u]
  BY <1>1 DEF Types, Ledgers
<1>5. Copying'
  BY <1>1, <1>2, <1>4 DEF Copying, Types
<1>6. Absent'
  BY <1>1, <1>2, <1>4 DEF Absent
<1>7. RegistryExact'
  <2>1. table[t] = objects[t]
    BY <1>2 DEF RegistryExact
  <2>2. table'[t] = objects'[t]
    BY <1>1, <2>1 DEF Types, Ledgers
  <2>. QED BY <2>2, <1>1, <1>4 DEF RegistryExact, Types
<1>8. /\ Counted(p)' = Counted(p) + 1
      /\ \A q \in Proxies \ {p} : Counted(q)' = Counted(q)
  <2>1. ASSUME NEW q \in Proxies
        PROVE  /\ \A u \in Threads \ {t} : Share(u, q)' = Share(u, q)
               /\ Share(t, q)' = Share(t, q) + (IF q = p THEN 1 ELSE 0)
               /\ Share(t, q) \in Nat /\ Counted(q) \in Nat
    BY <1>1, <1>2, <1>4, SharesType DEF Share, Types, Ledgers
  <2>2. ASSUME NEW q \in Proxies
        PROVE  Counted(q)' = Counted(q) - Share(t, q) + Share(t, q)'
    BY <2>1, <1>3, CountedChange
  <2>. QED BY <2>1, <2>2
<1>9. Cardinality(live' \cap Nodes)
        = Cardinality(live \cap Nodes) + (IF p \notin live \cup {Doc} THEN 1 ELSE 0)
  <2>. DEFINE S == live \cap Nodes
  <2>0. IsFiniteSet(S) /\ Cardinality(S) \in Nat
    BY FiniteProxies
  <2>1. CASE p = Doc
    <3>1. live' \cap Nodes = S
      BY <1>1, <2>1, ThreadsAssumption
    <3>2. Cardinality(live' \cap Nodes) = Cardinality(S) /\ p \in live \cup {Doc}
      BY <3>1, <2>1
    <3>. QED BY <3>2, <2>0
  <2>2. CASE p # Doc
    <3>1. live' \cap Nodes = S \cup {p} /\ (p \in S <=> p \in live)
      BY <1>1, <2>2 DEF Proxies
    <3>. HIDE DEF S
    <3>2. Cardinality(S \cup {p}) = IF p \in S THEN Cardinality(S) ELSE Cardinality(S) + 1
      BY <2>0, FS_AddElement
    <3>. QED BY <3>1, <3>2, <2>0, <2>2 DEF S
  <2>. QED BY <2>1, <2>2
<1>10. CountsExact'
  <2>. SUFFICES ASSUME NEW q \in Proxies
                PROVE  count'[q] = Counted(q)'
                         + IF q = Doc THEN Cardinality(live' \cap Nodes) ELSE 0
    BY DEF CountsExact
  <2>1. /\ count[q] = Counted(q) + IF q = Doc THEN Cardinality(live \cap Nodes) ELSE 0
        /\ count[q] \in Nat /\ Counted(q) \in Nat /\ Cardinality(live \cap Nodes) \in Nat
    BY SharesType, FiniteProxies DEF CountsExact, Types, Ledgers
  <2>2. Counted(q)' = Counted(q) + IF q = p THEN 1 ELSE 0
    BY <1>8, <2>1
  <2>3. count'[q] = count[q] + (IF q = p THEN 1 ELSE 0)
                      + (IF q = Doc /\ p \notin live \cup {Doc} THEN 1 ELSE 0)
    BY <1>1
  <2>. QED BY <2>1, <2>2, <2>3, <1>9
<1>11. LiveCounted'
  BY <1>1 DEF LiveCounted, Types, Ledgers
<1>. QED BY <1>3, <1>5, <1>6, <1>7, <1>10, <1>11

(* A handle that is dropped or used keeps the invariant. *)
LEMMA ReadKeeps ==
  ASSUME Sound, NEW t \in Threads, NEW p \in Proxies, read(t, p)
  PROVE  Sound'
<1>1. PICK q \in Proxies : objects[t][q] > 0
  BY DEF read
<1>2. q \in live
  BY <1>1, SoundInMemory DEF ObjectsInMemory
<1>3. Doc \in live
  BY <1>2, SoundInMemory DEF Proxies
<1>. QED BY <1>3, NodeToSvKeeps DEF read

(* So does a new document, *)
LEMMA CreateKeeps ==
  ASSUME Sound, NEW t \in Threads, createDocument(t)
  PROVE  Sound'
<1>1. Doc \in Proxies
  BY DEF Proxies
<1>. QED BY <1>1, NodeToSvKeeps DEF createDocument

(* PmmREFCNT_dec removes the proxy whose last reference it drops, and with *)
(* the last proxy of a node the reference to the document.                 *)
LEMMA DestroyKeeps ==
  ASSUME Sound, NEW t \in Threads, NEW p \in Proxies, DESTROY(t, p)
  PROVE  Sound'
<1>. USE DEF Sound
<1>. DEFINE falls(q) == IF q = p \/ (q = Doc /\ count[p] = 1) THEN 1 ELSE 0
            S == live \cap Nodes
<1>1. /\ objects[t][p] > 0
      /\ objects' = [objects EXCEPT ![t][p] = @ - 1]
      /\ table' = [table EXCEPT ![t][p] = IF @ = 0 THEN 0 ELSE @ - 1]
      /\ count' = [q \in Proxies |-> count[q] - falls(q)]
      /\ live' = live \ {q \in {p, Doc} : falls(q) = 1 /\ count[q] = 1}
      /\ running' = running /\ source' = source
  BY DEF DESTROY, PmmRegistryREFCNT_dec, PmmREFCNT_dec
<1>2. t \in running /\ source[t] = NULL /\ \A u \in Threads : source[u] # t
  <2>1. \A u \in running : source[u] # t
    BY DEF Runs, DESTROY
  <2>2. \A u \in Threads \ running : source[u] = NULL
    BY DEF Absent
  <2>. QED BY <2>1, <2>2, ThreadsAssumption DEF Runs, DESTROY
<1>3. p \in live /\ Doc \in live /\ Doc \in Proxies
  <2>1. p \in live
    BY <1>1, SoundInMemory DEF ObjectsInMemory
  <2>. QED BY <2>1, SoundInMemory DEF Proxies
<1>4. /\ IsFiniteSet(S) /\ Cardinality(S) \in Nat
      /\ p \in Nodes => Cardinality(S) > 0
  BY <1>3, FiniteProxies, FS_EmptySet
<1>5. \A q \in Proxies :
        /\ count[q] = Counted(q) + IF q = Doc THEN Cardinality(S) ELSE 0
        /\ count[q] \in Nat /\ Counted(q) \in Nat
  BY SharesType DEF CountsExact, Types, Ledgers
<1>6. Counted(p) > 0 /\ table[t] = objects[t]
  BY <1>1, <1>2, <1>5, SharesType DEF Share, RegistryExact, Types, Ledgers
<1>7. count[p] > 0 /\ count[Doc] > 0
  BY <1>3 DEF LiveCounted
<1>. HIDE DEF S
<1>8. \A q \in Proxies : count[q] - falls(q) \in Nat
  BY <1>5, <1>7
<1>9. Types'
  <2>1. objects' \in [Threads -> Ledgers]
    BY <1>1 DEF Types, Ledgers
  <2>2. table' \in [Threads -> Ledgers]
    BY <1>1 DEF Types, Ledgers
  <2>3. count' \in Ledgers
    BY <1>1, <1>8 DEF Ledgers
  <2>. QED BY <2>1, <2>2, <2>3, <1>1 DEF Types
<1>10. /\ objects'[t][p] = objects[t][p] - 1
       /\ \A q \in Proxies \ {p} : objects'[t][q] = objects[t][q]
       /\ \A u \in Threads \ {t} : objects'[u] = objects[u] /\ table'[u] = table[u]
  BY <1>1 DEF Types, Ledgers
<1>11. Copying'
  BY <1>1, <1>2, <1>10 DEF Copying, Types
<1>12. Absent'
  BY <1>1, <1>2, <1>10 DEF Absent
<1>13. RegistryExact'
  <2>1. table'[t] = objects'[t]
    <3>1. table[t] \in Ledgers /\ table[t][p] = objects[t][p] /\ table[t][p] # 0
      BY <1>1, <1>6 DEF Types, Ledgers
    <3>2. table'[t] = [table[t] EXCEPT ![p] = table[t][p] - 1]
      BY <1>1, <3>1 DEF Types
    <3>3. objects'[t] = [objects[t] EXCEPT ![p] = objects[t][p] - 1]
      BY <1>1 DEF Types
    <3>. QED BY <3>1, <3>2, <3>3, <1>6
  <2>. QED BY <2>1, <1>1, <1>10 DEF RegistryExact, Types
<1>14. /\ Counted(p)' = Counted(p) - 1
       /\ \A q \in Proxies \ {p} : Counted(q)' = Counted(q)
  <2>1. ASSUME NEW q \in Proxies
        PROVE  /\ \A u \in Threads \ {t} : Share(u, q)' = Share(u, q)
               /\ Share(t, q)' = Share(t, q) - (IF q = p THEN 1 ELSE 0)
               /\ Share(t, q) \in Nat /\ Counted(q) \in Nat
    BY <1>1, <1>2, <1>10, SharesType DEF Share, Types, Ledgers
  <2>2. ASSUME NEW q \in Proxies
        PROVE  Counted(q)' = Counted(q) - Share(t, q) + Share(t, q)'
    BY <2>1, <1>9, CountedChange
  <2>. QED BY <2>1, <2>2
<1>15. LiveCounted'
  BY <1>1, <1>3, <1>5 DEF LiveCounted, Types
<1>16. Cardinality(live' \cap Nodes)
         = Cardinality(S) - (IF p \in Nodes /\ count[p] = 1 THEN 1 ELSE 0)
  <2>1. live' \cap Nodes = IF p \in Nodes /\ count[p] = 1 THEN S \ {p} ELSE S
    BY <1>1, ThreadsAssumption DEF S
  <2>2. p \in Nodes => p \in S
    BY <1>3 DEF S
  <2>3. Cardinality(S \ {p}) = IF p \in S THEN Cardinality(S) - 1 ELSE Cardinality(S)
    BY <1>4, FS_RemoveElement
  <2>. QED BY <2>1, <2>2, <2>3, <1>4
<1>17. CountsExact'
  <2>. SUFFICES ASSUME NEW q \in Proxies
                PROVE  count'[q] = Counted(q)'
                         + IF q = Doc THEN Cardinality(live' \cap Nodes) ELSE 0
    BY DEF CountsExact
  <2>1. Counted(q)' = Counted(q) - IF q = p THEN 1 ELSE 0
    BY <1>14, <1>5
  <2>2. count'[q] = count[q] - falls(q)
    BY <1>1
  <2>3. p = Doc \/ p \in Nodes
    BY DEF Proxies
  <2>. QED BY <2>1, <2>2, <2>3, <1>4, <1>5, <1>16, ThreadsAssumption
<1>. QED BY <1>9, <1>11, <1>12, <1>13, <1>15, <1>17

(* the start of a thread, *)
LEMMA CloneBegins ==
  ASSUME Sound, "SecondObject" \notin Uses,
         NEW t \in Threads, NEW u \in Threads, perl_clone(t, u)
  PROVE  Sound'
<1>. USE DEF Sound
<1>1. /\ u \notin running
      /\ running' = running \cup {u}
      /\ source' = [source EXCEPT ![u] = t]
      /\ objects' = [objects EXCEPT ![u] = objects[t]]
      /\ table' = table /\ live' = live /\ count' = count
  BY DEF perl_clone
<1>2. /\ t \in running /\ source[t] = NULL /\ t # u
      /\ \A p \in Proxies : objects[t][p] <= 1
  <2>1. t \in running /\ source[t] = NULL
    BY DEF perl_clone, Runs
  <2>2. \A p \in Proxies : ~ (objects[t][p] > 1)
    BY DEF perl_clone
  <2>. QED BY <2>1, <2>2, <1>1 DEF Types, Ledgers
<1>3. source[u] = NULL /\ \A p \in Proxies : objects[u][p] = 0
  BY <1>1 DEF Absent
<1>4. Types'
  BY <1>1 DEF Types
<1>5. /\ source'[u] = t /\ objects'[u] = objects[t]
      /\ \A w \in Threads \ {u} : source'[w] = source[w] /\ objects'[w] = objects[w]
  BY <1>1 DEF Types
<1>6. Copying'
  <2>. SUFFICES ASSUME NEW w \in Threads, source'[w] # NULL
                PROVE  /\ w \in running' /\ source'[w] \in running'
                       /\ source'[source'[w]] = NULL
                       /\ objects'[w] = objects'[source'[w]]
                       /\ \A p \in Proxies : objects'[w][p] <= 1
    BY DEF Copying
  <2>1. CASE w = u
    BY <2>1, <1>1, <1>2, <1>5
  <2>2. CASE w # u
    BY <2>2, <1>1, <1>5 DEF Copying, Types
  <2>. QED BY <2>1, <2>2
<1>7. Absent'
  BY <1>1, <1>5 DEF Absent
<1>8. LiveCounted'
  BY <1>1 DEF LiveCounted
<1>9. \A p \in Proxies : Counted(p)' = Counted(p)
  <2>1. ASSUME NEW p \in Proxies
        PROVE  /\ \A w \in Threads \ {u} : Share(w, p)' = Share(w, p)
               /\ Share(u, p)' = Share(u, p) /\ Share(u, p) = 0
               /\ Counted(p) \in Nat
    BY <1>3, <1>5, SharesType, ThreadsAssumption DEF Share
  <2>2. ASSUME NEW p \in Proxies
        PROVE  Counted(p)' = Counted(p) - Share(u, p) + Share(u, p)'
    BY <2>1, <1>4, CountedChange
  <2>. QED BY <2>1, <2>2
<1>10. CountsExact'
  BY <1>1, <1>9 DEF CountsExact
<1>11. RegistryExact'
  BY <1>1, <1>5, ThreadsAssumption DEF RegistryExact, Types
<1>. QED BY <1>4, <1>6, <1>7, <1>8, <1>10, <1>11

(* Each entry that CLONE counts stands for the one object that was copied. *)
LEMMA CloneKeeps ==
  ASSUME Sound, NEW u \in Threads, CLONE(u)
  PROVE  Sound'
<1>. USE DEF Sound
<1>. DEFINE s == source[u]
<1>1. /\ u \in running /\ s # NULL
      /\ table' = [table EXCEPT ![u] = table[s]]
      /\ count' = [p \in Proxies |-> count[p] + (IF table[s][p] > 0 THEN 1 ELSE 0)]
      /\ source' = [source EXCEPT ![u] = NULL]
      /\ running' = running /\ objects' = objects /\ live' = live
  BY DEF CLONE, PmmRegistryHashCopier
<1>2. /\ s \in Threads /\ s \in running /\ source[s] = NULL /\ s # u
      /\ objects[u] = objects[s] /\ table[s] = objects[s]
      /\ \A p \in Proxies : objects[u][p] <= 1
  BY <1>1 DEF Copying, RegistryExact, Types
<1>. HIDE DEF s
<1>3. Types'
  <2>1. table' \in [Threads -> Ledgers]
    BY <1>1, <1>2 DEF Types
  <2>2. count' \in Ledgers
    BY <1>1 DEF Types, Ledgers
  <2>. QED BY <2>1, <2>2, <1>1 DEF Types
<1>4. /\ source'[u] = NULL /\ table'[u] = objects[u]
      /\ \A w \in Threads \ {u} : source'[w] = source[w] /\ table'[w] = table[w]
  BY <1>1, <1>2 DEF Types
<1>5. Copying'
  BY <1>1, <1>4 DEF Copying, Types
<1>6. Absent'
  BY <1>1, <1>4 DEF Absent
<1>7. RegistryExact'
  BY <1>1, <1>4 DEF RegistryExact, Types
<1>8. \A p \in Proxies : Counted(p)' = Counted(p) + objects[u][p]
  <2>1. ASSUME NEW p \in Proxies
        PROVE  /\ \A w \in Threads \ {u} : Share(w, p)' = Share(w, p)
               /\ Share(u, p)' = objects[u][p] /\ Share(u, p) = 0
               /\ Counted(p) \in Nat /\ objects[u][p] \in Nat
    BY <1>1, <1>2, <1>4, SharesType DEF Share, Types, Ledgers, s
  <2>2. ASSUME NEW p \in Proxies
        PROVE  Counted(p)' = Counted(p) - Share(u, p) + Share(u, p)'
    BY <2>1, <1>3, CountedChange
  <2>. QED BY <2>1, <2>2
<1>9. \A p \in Proxies : objects[u][p] \in Nat /\ count'[p] = count[p] + objects[u][p]
  BY <1>1, <1>2 DEF Types, Ledgers
<1>10. CountsExact'
  <2>. SUFFICES ASSUME NEW q \in Proxies
                PROVE  count'[q] = Counted(q)'
                         + IF q = Doc THEN Cardinality(live' \cap Nodes) ELSE 0
    BY DEF CountsExact
  <2>1. /\ count[q] = Counted(q) + IF q = Doc THEN Cardinality(live \cap Nodes) ELSE 0
        /\ count[q] \in Nat /\ Counted(q) \in Nat /\ Cardinality(live \cap Nodes) \in Nat
    BY SharesType, FiniteProxies DEF CountsExact, Types, Ledgers
  <2>2. live' = live /\ Counted(q)' = Counted(q) + objects[u][q]
    BY <1>1, <1>8
  <2>. QED BY <2>1, <2>2, <1>9
<1>11. LiveCounted'
  <2>1. \A p \in Proxies : objects[u][p] > 0 => p \in live
    BY SoundInMemory DEF ObjectsInMemory
  <2>. QED BY <2>1, <1>1, <1>9 DEF LiveCounted, Types, Ledgers
<1>. QED BY <1>3, <1>5, <1>6, <1>7, <1>10, <1>11

(* the end of one, *)
LEMMA ExitKeeps ==
  ASSUME Sound, NEW t \in Threads, exit(t)
  PROVE  Sound'
<1>. USE DEF Sound
<1>1. /\ running' = running \ {t}
      /\ table' = [table EXCEPT ![t] = [p \in Proxies |-> 0]]
      /\ source' = source /\ objects' = objects /\ live' = live /\ count' = count
      /\ \A p \in Proxies : objects[t][p] = 0
  BY DEF exit
<1>2. source[t] = NULL /\ \A u \in running : source[u] # t
  BY DEF exit, Runs
<1>3. Types'
  BY <1>1 DEF Types, Ledgers
<1>4. Copying'
  BY <1>1, <1>2 DEF Copying
<1>5. Absent'
  BY <1>1, <1>2 DEF Absent
<1>6. RegistryExact'
  BY <1>1 DEF RegistryExact, Types
<1>7. LiveCounted' /\ CountsExact'
  BY <1>1 DEF LiveCounted, CountsExact, Counted
<1>. QED BY <1>3, <1>4, <1>5, <1>6, <1>7

-----------------------------------------------------------------------------
(* The theorems *)

(* The invariant at the start *)
LEMMA InitSound == Init => Sound
<1>. SUFFICES ASSUME Init PROVE Sound
  OBVIOUS
<1>. USE DEF Init
<1>1. Types
  BY ThreadsAssumption DEF Types, Ledgers
<1>2. Copying /\ Absent /\ LiveCounted /\ RegistryExact
  BY DEF Copying, Absent, LiveCounted, RegistryExact
<1>3. ASSUME NEW p \in Proxies PROVE Counted(p) = 0
  <2>1. Shares(p) \in [Threads -> Nat] /\ Counted(p) = SumFunction(Shares(p))
    BY <1>1, <1>3, SharesType
  <2>2. \A t \in Threads : Shares(p)[t] = 0
    BY DEF Shares, Share
  <2>. HIDE DEF Init
  <2>. QED BY <2>1, <2>2, ThreadsAssumption, SumZero
<1>4. Cardinality(live \cap Nodes) = 0
  BY FS_EmptySet
<1>5. CountsExact
  BY <1>3, <1>4 DEF CountsExact
<1>. QED BY <1>1, <1>2, <1>5 DEF Sound

(* The invariant after any step *)
LEMMA NextKeeps ==
  ASSUME Sound, "SecondObject" \notin Uses, [Next]_vars
  PROVE  Sound'
<1>1. CASE UNCHANGED vars
  <2>. USE <1>1 DEF vars
  <2>1. Types' /\ Copying' /\ Absent'
    BY DEF Sound, Types, Copying, Absent
  <2>2. LiveCounted' /\ CountsExact' /\ RegistryExact'
    BY DEF Sound, LiveCounted, CountsExact, Counted, RegistryExact
  <2>. QED BY <2>1, <2>2 DEF Sound
<1>2. ASSUME NEW t \in Threads, NEW p \in Proxies, read(t, p) PROVE Sound'
  BY <1>2, ReadKeeps
<1>3. ASSUME NEW t \in Threads, NEW p \in Proxies, DESTROY(t, p) PROVE Sound'
  BY <1>3, DestroyKeeps
<1>4. ASSUME NEW t \in Threads, createDocument(t) PROVE Sound'
  BY <1>4, CreateKeeps
<1>5. ASSUME NEW t \in Threads, CLONE(t) PROVE Sound'
  BY <1>5, CloneKeeps
<1>6. ASSUME NEW t \in Threads, exit(t) PROVE Sound'
  BY <1>6, ExitKeeps
<1>7. ASSUME NEW t \in Threads, NEW u \in Threads, perl_clone(t, u) PROVE Sound'
  BY <1>7, CloneBegins
<1>. QED BY <1>1, <1>2, <1>3, <1>4, <1>5, <1>6, <1>7 DEF Next

(* The counts, the registries and the memory agree whatever the threads do. *)
THEOREM AlwaysSound == ASSUME "SecondObject" \notin Uses PROVE Spec => []Sound
<1>1. Sound /\ [Next]_vars => Sound'
  BY NextKeeps
<1>. QED BY <1>1, InitSound, PTL DEF Spec

(* A thread never has an object whose proxy another thread has freed.      *)
THEOREM ObjectsAlwaysInMemory ==
  ASSUME "SecondObject" \notin Uses PROVE Spec => []ObjectsInMemory
<1>1. Sound => ObjectsInMemory
  BY SoundInMemory
<1>. QED BY <1>1, AlwaysSound, PTL

(* A proxy counts the objects of all threads, after CLONE the copies too.  *)
THEOREM CountsAlwaysExact ==
  ASSUME "SecondObject" \notin Uses PROVE Spec => []CountsExact
<1>1. Sound => CountsExact
  BY DEF Sound
<1>. QED BY <1>1, AlwaysSound, PTL

(* The registry of a thread has its own objects, and is empty at its end.  *)
THEOREM RegistryAlwaysExact ==
  ASSUME "SecondObject" \notin Uses PROVE Spec => []RegistryExact
<1>1. Sound => RegistryExact
  BY DEF Sound
<1>. QED BY <1>1, AlwaysSound, PTL

(* The last object of all threads takes the document with it.              *)
THEOREM NothingEverLeaks ==
  ASSUME "SecondObject" \notin Uses PROVE Spec => []NothingLeaks
<1>1. ASSUME Sound PROVE NothingLeaks
  <2>. SUFFICES ASSUME \A t \in Threads, p \in Proxies : objects[t][p] = 0
                PROVE  live = {}
    BY DEF NothingLeaks
  <2>0. Types
    BY <1>1 DEF Sound
  <2>1. ASSUME NEW p \in Proxies PROVE Counted(p) = 0
    <3>1. Shares(p) \in [Threads -> Nat] /\ Counted(p) = SumFunction(Shares(p))
      BY <2>0, <2>1, SharesType
    <3>2. \A t \in Threads : Shares(p)[t] = 0
      BY DEF Shares, Share
    <3>. QED BY <3>1, <3>2, ThreadsAssumption, SumZero
  <2>2. \A n \in Nodes : n \notin live
    BY <1>1, <2>1, ThreadsAssumption DEF Sound, CountsExact, LiveCounted, Proxies
  <2>3. Cardinality(live \cap Nodes) = 0
    <3>1. live \cap Nodes = {}
      BY <2>2
    <3>. QED BY <3>1, FS_EmptySet
  <2>4. Doc \notin live
    BY <1>1, <2>1, <2>3 DEF Sound, CountsExact, LiveCounted, Proxies
  <2>. QED BY <2>0, <2>2, <2>4 DEF Types, Proxies
<1>. QED BY <1>1, AlwaysSound, PTL
=============================================================================
