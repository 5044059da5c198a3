----------------------------- MODULE NodeLists -----------------------------
(***************************************************************************)
(* What the DOM promises of the lists of children: each node has the       *)
(* sequence of its children, a node is in one list at most, and each       *)
(* operation takes the nodes it names out of their lists and puts them in  *)
(* one place.  DomList shows that the pointers of dom.c implement it.      *)
(***************************************************************************)
EXTENDS SequencesExt

CONSTANTS
  Elems,   \* elements and the other nodes that may have a parent
  Frags,   \* document fragments
  NULL

VARIABLE kids   \* kids[p] is the sequence of the children of p

Nodes == Elems \cup Frags

(* n and the nodes above it *)
Above(lists, n) ==
  LET Step(S) == S \cup {p \in Nodes : ToSet(lists[p]) \cap S # {}}
      up[k \in 0..Cardinality(Nodes)] == IF k = 0 THEN {n} ELSE Step(up[k - 1])
  IN  up[Cardinality(Nodes)]

(* An insertion of a fragment inserts its children. *)
Items(lists, n) == IF n \in Frags THEN lists[n] ELSE <<n>>

(* The place of r in a list, or the place after its end when r is NULL *)
Place(list, r) == IF r = NULL THEN Len(list) + 1 ELSE CHOOSE i \in DOMAIN list : list[i] = r

(* items in the place of what stands between i and j *)
Spliced(list, i, items, j) == SubSeq(list, 1, i) \o items \o SubSeq(list, j, Len(list))

(* list without n *)
Without(list, n) ==
  LET at == Place(list, n)
  IN  IF n \in ToSet(list) THEN Spliced(list, at - 1, <<>>, at + 1) ELSE list

(* n, or what a fragment n holds, taken out of its list *)
Taken(lists, n) ==
  [p \in Nodes |-> IF p = n /\ n \in Frags THEN <<>> ELSE Without(lists[p], n)]

(* n before r in the list of s, or at its end when r is NULL *)
Inserted(lists, s, n, r) ==
  LET rest == Taken(lists, n)
      at   == Place(rest[s], r)
  IN  [rest EXCEPT ![s] = Spliced(@, at - 1, Items(lists, n), at)]

(* n in the place of old in the list of s *)
Replaced(lists, s, n, old) ==
  LET rest == Taken(lists, n)
      at   == Place(rest[s], old)
  IN  [rest EXCEPT ![s] = Spliced(@, at - 1, Items(lists, n), at + 1)]

(* Each operation relates the lists before it and the lists after it.  A   *)
(* node that leaves its list becomes the only child of a new fragment.     *)
Alone(lists, after, n) ==
  \E f \in Frags : lists[f] = <<>> /\ after = [lists EXCEPT ![f] = <<n>>]

Insert(before, after, s, n) ==
  /\ after[s] # before[s]
  /\ n \notin Above(before, s)
  /\ \E r \in (ToSet(before[s]) \ {n}) \cup {NULL} : after = Inserted(before, s, n, r)

Replace(before, after, s, n) ==
  /\ after[s] # before[s]
  /\ n \notin Above(before, s)
  /\ \E old \in ToSet(before[s]) \ ({n} \cup ToSet(after[s])) :
       \E rest \in {Replaced(before, s, n, old)} : Alone(rest, after, old)

RemoveOne(before, after, n) == Alone(Taken(before, n), after, n)

RemoveAll(before, after, s) ==
  \E f \in Frags \ {s} :
    before[f] = <<>> /\ after = [before EXCEPT ![f] = before[s], ![s] = <<>>]

Init == \E own \in [Elems -> Frags] :
          /\ \A x, y \in Elems : own[x] = own[y] => x = y
          /\ kids = [p \in Nodes |-> IF \E x \in Elems : own[x] = p
                                     THEN <<CHOOSE x \in Elems : own[x] = p>> ELSE <<>>]

Next ==
  \E before \in {kids}, after \in {kids'} :
    \/ \E s, n \in Nodes : Insert(before, after, s, n) \/ Replace(before, after, s, n)
    \/ \E n \in Elems : RemoveOne(before, after, n)
    \/ \E s \in Nodes : RemoveAll(before, after, s)

Spec == Init /\ [][Next]_kids
=============================================================================
