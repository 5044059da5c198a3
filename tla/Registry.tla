------------------------------ MODULE Registry ------------------------------
(***************************************************************************)
(* Threads that share nodes (":threads_shared"): the registry of proxies   *)
(* of perl-libxml-mm.c, PmmNodeToSv, DESTROY and CLONE.                    *)
(*                                                                         *)
(* Each thread has Perl objects of its own and a registry that counts them *)
(* per proxy; proxies and their counts are shared.  A handler changes the  *)
(* counts under the registry mutex, so it is one step.  The tree is one    *)
(* document whose nodes stay in it: threads that change trees take a lock  *)
(* of their own (LibXML.pod:278-280), and ProxyNode is about owners that   *)
(* change.  Objects that threads::shared shares, which DESTROY skips, and  *)
(* objects that join returns from a thread are left out.                   *)
(***************************************************************************)
EXTENDS Integers, FiniteSets, FiniteSetsExt

CONSTANTS
  Threads, Main,  \* Main is the first thread
  Doc,            \* the document
  Nodes,          \* the nodes of the document
  NULL,
  MaxObjects,     \* Perl objects of one node that a thread has at most
  Uses            \* {"SecondObject"}: threads are spawned with two objects of a node

Proxies == Nodes \cup {Doc}

ASSUME ThreadsAssumption ==
  /\ Main \in Threads /\ NULL \notin Threads
  /\ Doc \notin Nodes /\ IsFiniteSet(Nodes) /\ IsFiniteSet(Threads)
  /\ MaxObjects \in Nat \ {0} /\ Uses \subseteq {"SecondObject"}

VARIABLES
  running,  \* threads that exist
  source,   \* source[u] is the thread u is being copied from, until CLONE is called
  objects,  \* objects[t][p]: Perl objects of p in thread t
  table,    \* table[t][p]: lp->count of the entry of p in the registry of t, or 0
  live,     \* proxies in memory
  count     \* proxy->count

vars == <<running, source, objects, table, live, count>>

-----------------------------------------------------------------------------
(* t runs: it exists, and neither copies itself nor is being copied.       *)
Runs(t) == t \in running /\ source[t] = NULL /\ \A u \in running : source[u] # t

(* PmmREFCNT_dec: the proxy of a node that is freed releases the document. *)
PmmREFCNT_dec(p) ==
  LET falls(q) == IF q = p \/ (q = Doc /\ count[p] = 1) THEN 1 ELSE 0
  IN  /\ count' = [q \in Proxies |-> count[q] - falls(q)]
      /\ live' = live \ {q \in {p, Doc} : falls(q) = 1 /\ count[q] = 1}

(* A faulty form: an entry is removed when one of its objects is destroyed. *)
PmmRegistryREFCNT_dec_all(t, p) == [table EXCEPT ![t][p] = 0]

(* PmmRegistryREFCNT_dec: the entry is removed with its last object.       *)
PmmRegistryREFCNT_dec(t, p) == [table EXCEPT ![t][p] = IF @ = 0 THEN 0 ELSE @ - 1]

(* PmmRegistryREFCNT_inc, with PmmRegisterProxyNode for the first object   *)
PmmRegistryREFCNT_inc(t, p) == [table EXCEPT ![t][p] = @ + 1]

(* A faulty form: the owner is not counted. *)
PmmNodeToSv_unowned(t, p) ==
  /\ objects' = [objects EXCEPT ![t][p] = @ + 1]
  /\ table' = PmmRegistryREFCNT_inc(t, p)
  /\ live' = live \cup {p}
  /\ count' = [count EXCEPT ![p] = @ + 1]

(* A new proxy counts its owner, the document. *)
PmmNodeToSv(t, p) ==
  /\ objects' = [objects EXCEPT ![t][p] = @ + 1]
  /\ table' = PmmRegistryREFCNT_inc(t, p)
  /\ live' = live \cup {p}
  /\ count' = [q \in Proxies |->
       count[q] + (IF q = p THEN 1 ELSE 0) + (IF q = Doc /\ p \notin live \cup {Doc} THEN 1 ELSE 0)]

-----------------------------------------------------------------------------
(* The handlers, in thread t.                                              *)

(* A handler that returns p, called on an object t has *)
read(t, p) ==
  /\ Runs(t) /\ objects[t][p] < MaxObjects
  /\ \E q \in Proxies : objects[t][q] > 0
  /\ PmmNodeToSv(t, p)
  /\ UNCHANGED <<running, source>>

(* A document is made when there is none. *)
createDocument(t) ==
  /\ Runs(t) /\ live = {}
  /\ PmmNodeToSv(t, Doc)
  /\ UNCHANGED <<running, source>>

DESTROY(t, p) ==
  /\ Runs(t) /\ objects[t][p] > 0
  /\ objects' = [objects EXCEPT ![t][p] = @ - 1]
  /\ table' = PmmRegistryREFCNT_dec(t, p)
  /\ PmmREFCNT_dec(p)
  /\ UNCHANGED <<running, source>>

(* The interpreter copies the objects of t for a new thread u.             *)
perl_clone(t, u) ==
  /\ Runs(t) /\ u \notin running
  /\ (\E p \in Proxies : objects[t][p] > 1) => "SecondObject" \in Uses
  /\ running' = running \cup {u}
  /\ source' = [source EXCEPT ![u] = t]
  /\ objects' = [objects EXCEPT ![u] = objects[t]]
  /\ UNCHANGED <<table, live, count>>

(* A faulty form: the copied entries are not counted. *)
PmmRegistryHashCopier_uncounted(t, p) == 0

(* A faulty form: the proxies of all threads are counted. *)
PmmRegistryHashCopier_other(t, p) == IF p \in live THEN 1 ELSE 0

(* What the copy of the entry of p in the registry of t adds to its count  *)
PmmRegistryHashCopier(t, p) == IF table[t][p] > 0 THEN 1 ELSE 0

(* It then calls CLONE, which copies the registry (PmmCloneProxyNodes).    *)
CLONE(u) ==
  /\ u \in running /\ source[u] # NULL
  /\ table' = [table EXCEPT ![u] = table[source[u]]]
  /\ count' = [p \in Proxies |-> count[p] + PmmRegistryHashCopier(source[u], p)]
  /\ source' = [source EXCEPT ![u] = NULL]
  /\ UNCHANGED <<running, objects, live>>

(* A thread ends after its objects are destroyed; its registry goes with it. *)
exit(t) ==
  /\ Runs(t) /\ t # Main
  /\ \A p \in Proxies : objects[t][p] = 0
  /\ running' = running \ {t}
  /\ table' = [table EXCEPT ![t] = [p \in Proxies |-> 0]]
  /\ UNCHANGED <<source, objects, live, count>>

Init ==
  /\ running = {Main}
  /\ source = [t \in Threads |-> NULL]
  /\ objects = [t \in Threads |-> [p \in Proxies |-> 0]]
  /\ table = objects
  /\ live = {}
  /\ count = [p \in Proxies |-> 0]

Next ==
  \E t \in Threads :
    \/ \E p \in Proxies : read(t, p) \/ DESTROY(t, p)
    \/ createDocument(t) \/ CLONE(t) \/ exit(t)
    \/ \E u \in Threads : perl_clone(t, u)

Spec == Init /\ [][Next]_vars

-----------------------------------------------------------------------------
(* Properties.                                                             *)

(* A thread has no object of a proxy that was freed, be it that another    *)
(* thread destroyed its objects, even between the copying of a thread and  *)
(* the counting of the copies (perl-libxml-mm.h:54-57).                    *)
ObjectsInMemory ==
  \A t \in Threads, p \in Proxies : objects[t][p] > 0 => p \in live

(* The objects of p in all threads that are counted. *)
Counted(p) == SumFunction([t \in Threads |-> IF source[t] = NULL THEN objects[t][p] ELSE 0])

(* The count of a shared proxy is the number of its objects in all threads, *)
(* with the proxies it owns: the copies made by threads (perl-libxml-mm.c:  *)
(* 292-294) are counted as the objects they were copied from.              *)
CountsExact ==
  \A p \in Proxies :
    count[p] = Counted(p) + IF p = Doc THEN Cardinality(live \cap Nodes) ELSE 0

(* The registry of a thread counts its own objects, so it is empty when    *)
(* the thread ends (PmmFreeHashTable warns "not empty" otherwise) and what *)
(* CLONE copies is what the new thread has.                                *)
RegistryExact == \A t \in running : source[t] = NULL => table[t] = objects[t]

(* When no thread has an object nothing is left in memory.                 *)
NothingLeaks ==
  (\A t \in Threads, p \in Proxies : objects[t][p] = 0) => live = {}
=============================================================================
