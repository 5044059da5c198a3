------------------------- MODULE XPathContextProofs -------------------------
(***************************************************************************)
(* The properties of XPathContext for any number of trees and any depth of *)
(* evaluations within evaluations, when the program makes none of the      *)
(* calls in RiskyUses.  That a tree stays in memory needs to know who      *)
(* holds it: the nodes of an evaluation are of its context node, of its    *)
(* pool, be it saved, or of the data of the variables (SetsKept), and the  *)
(* context node of an evaluation is that of the innermost one, or some     *)
(* evaluation between them has it in its $prev_node (Covered).             *)
(***************************************************************************)
EXTENDS XPathContext, SequenceTheorems, TLAPS

-----------------------------------------------------------------------------
(* The inductive invariant *)

Waiting ==
  \A k \in 1..Len(calls) : k < Len(calls) => calls[k].callback # NULL

Covered ==
  \A m \in 1..Len(calls) : \A k \in 1..m :
    calls[k].context = calls[m].context \/ \E j \in (k + 1)..m : calls[j].prev = calls[k].context

SetsKept ==
  \A k \in 1..Len(calls) : \A t \in calls[k].sets :
    \/ t = calls[k].context
    \/ t \in calls[k].saved.pool
    \/ t \in varData
    \/ k = Len(calls) /\ t \in pool

PlacesSaved ==
  \A k \in 1..Len(calls) : IF calls[k].callback = NULL THEN calls[k].saved.pool = {}
                           ELSE calls[k].saved.cnode \in calls[k].sets

SoundStack == Waiting /\ Covered /\ SetsKept /\ PlacesSaved /\ ContextsKept

Sound == TypeOK /\ SoundStack /\ Referenced \subseteq live

-----------------------------------------------------------------------------
(* Who holds what *)

(* The calls hold what one of them holds. *)
LEMMA InStack ==
  ASSUME NEW c \in Seq(Frames), NEW t
  PROVE  t \in UNION {HeldBy(f) : f \in Range(c)} <=> \E k \in 1..Len(c) : t \in HeldBy(c[k])
BY DEF Range

(* A bound on what is referred to after a step *)
LEMMA ReferencedIn ==
  ASSUME NEW S, calls' \in Seq(Frames),
         held' \subseteq S, {node'} \ {NULL} \subseteq S, pool' \subseteq S, varData' \subseteq S,
         \A k \in 1..Len(calls') : HeldBy(calls'[k]) \subseteq S
  PROVE  Referenced' \subseteq S
BY InStack DEF Referenced

(* What is referred to is in memory. *)
LEMMA Known ==
  ASSUME Sound
  PROVE  /\ held \subseteq live /\ {node} \ {NULL} \subseteq live
         /\ pool \subseteq live /\ varData \subseteq live
         /\ \A k \in 1..Len(calls) : HeldBy(calls[k]) \subseteq live
BY InStack DEF Sound, TypeOK, Referenced

(* Nothing frees a tree of an evaluation under way. *)
LEMMA SetsLive ==
  ASSUME Sound, NEW k \in 1..Len(calls)
  PROVE  calls[k].sets \subseteq live
<1>. USE DEF Sound, SoundStack
<1>1. calls \in Seq(Frames) /\ Len(calls) \in 1..Len(calls) /\ calls # <<>>
  BY DEF TypeOK
<1>2. calls[k].context \in Trees
  <2>1. calls[k] \in Frames
    BY <1>1
  <2>. QED BY <2>1 DEF Frames
<1>3. calls[k].context \in live
  <2>1. CASE calls[k].context = calls[Len(calls)].context
    BY <1>1, <1>2, <2>1, Known, TreesAssumption DEF ContextsKept, Running
  <2>2. CASE \E j \in (k + 1)..Len(calls) : calls[j].prev = calls[k].context
    BY <1>1, <1>2, <2>2, Known, TreesAssumption DEF HeldBy
  <2>. QED BY <1>1, <2>1, <2>2 DEF Covered
<1>4. calls[k].saved.pool \subseteq live
  BY Known DEF HeldBy
<1>. QED BY <1>3, <1>4, Known DEF SetsKept

(* So is what the program can name. *)
LEMMA NamedLive ==
  ASSUME Sound
  PROVE  Named \subseteq live
<1>1. CASE calls = <<>>
  BY <1>1, Known DEF Named
<1>2. CASE calls # <<>>
  <2>1. Len(calls) \in 1..Len(calls)
    BY <1>2 DEF Sound, TypeOK
  <2>2. Running.args \subseteq live
    BY <2>1, Known DEF Running, HeldBy
  <2>. QED BY <1>2, <2>2, Known DEF Named
<1>. QED BY <1>1, <1>2

-----------------------------------------------------------------------------
(* What the operations do to the stack *)

(* A stack whose last call is replaced *)
LEMMA Replaced ==
  ASSUME calls \in Seq(Frames), calls # <<>>, NEW frame \in Frames, SetRunning(frame)
  PROVE  /\ calls' \in Seq(Frames) /\ calls' # <<>>
         /\ Len(calls') = Len(calls) /\ Len(calls) \in 1..Len(calls)
         /\ calls'[Len(calls)] = frame
         /\ \A k \in 1..Len(calls) : k # Len(calls) => calls'[k] = calls[k]
<1>1. Len(calls) \in 1..Len(calls)
  OBVIOUS
<1>. QED BY <1>1, ExceptSeq DEF SetRunning

(* A stack without its last call *)
LEMMA Shortened ==
  ASSUME calls \in Seq(Frames), calls # <<>>, calls' = Front(calls)
  PROVE  /\ calls' \in Seq(Frames)
         /\ Len(calls) \in 1..Len(calls)
         /\ Len(calls') = Len(calls) - 1
         /\ \A k \in 1..(Len(calls) - 1) : calls'[k] = calls[k]
<1>1. /\ Len(calls) \in Nat \ {0} /\ Len(calls) - 1 \in Int /\ 1 \in Int
      /\ \A i \in 1..(Len(calls) - 1) : calls[i] \in Frames
  OBVIOUS
<1>2. calls' = SubSeq(calls, 1, Len(calls) - 1)
  BY DEF Front
<1>3. /\ calls' \in Seq(Frames)
      /\ Len(calls') = IF 1 <= Len(calls) - 1 THEN Len(calls) - 1 - 1 + 1 ELSE 0
      /\ \A i \in 1..(Len(calls) - 1 - 1 + 1) : calls'[i] = calls[1 + i - 1]
  BY <1>1, <1>2, SubSeqProperties
<1>4. Len(calls') = Len(calls) - 1
  <2>. DEFINE n == Len(calls)
  <2>1. n \in Nat \ {0} /\ Len(calls') = IF 1 <= n - 1 THEN n - 1 - 1 + 1 ELSE 0
    BY <1>1, <1>3
  <2>. HIDE DEF n
  <2>2. Len(calls') = n - 1
    BY <2>1
  <2>. QED BY <2>2 DEF n
<1>5. \A k \in 1..(Len(calls) - 1) : calls'[k] = calls[k]
  BY <1>1, <1>3
<1>. QED BY <1>1, <1>3, <1>4, <1>5

(* Perl code that neither begins nor ends anything *)
LEMMA PerlKeeps ==
  ASSUME Sound, UNCHANGED <<calls, pool>>, InPerl,
         calls # <<>> => UNCHANGED <<node, varData>>
  PROVE  SoundStack'
<1>. USE DEF Sound, SoundStack
<1>1. Waiting' /\ Covered' /\ PlacesSaved'
  BY DEF Waiting, Covered, PlacesSaved
<1>2. CASE calls = <<>>
  <2>1. SetsKept'
    BY <1>2 DEF SetsKept
  <2>2. ContextsKept'
    BY <1>2 DEF ContextsKept, InPerl, InLibxml
  <2>. QED BY <1>1, <2>1, <2>2
<1>3. CASE calls # <<>>
  <2>1. SetsKept'
    BY <1>3 DEF SetsKept
  <2>2. ContextsKept'
    BY <1>3 DEF ContextsKept, InPerl, InLibxml, Running
  <2>. QED BY <1>1, <2>1, <2>2
<1>. QED BY <1>2, <1>3

(* libxml2 calls Perl. *)
LEMMA SaveKeeps ==
  ASSUME Sound, InLibxml, UNCHANGED <<node, varData>>, cnode' \in Running.sets,
         NEW callback \in {"function", "variable"}, NEW args \in SUBSET Running.sets,
         SaveContext(callback, args)
  PROVE  /\ calls' \in Seq(Frames) /\ SoundStack'
         /\ \A k \in 1..Len(calls') : HeldBy(calls'[k]) \subseteq live
<1>. DEFINE last  == Len(calls)
            frame == [Running EXCEPT !.callback = callback, !.args = args,
                                     !.saved = [cnode |-> cnode', pool |-> pool]]
<1>1. calls \in Seq(Frames) /\ calls # <<>> /\ last \in 1..last /\ pool \in SUBSET Trees
  BY DEF Sound, TypeOK, InLibxml
<1>2. Running \in Frames /\ Running = calls[last]
  BY <1>1 DEF Running
<1>3. /\ frame \in Frames
      /\ frame.given = Running.given /\ frame.prev = Running.prev
      /\ frame.context = Running.context /\ frame.sets = Running.sets
      /\ frame.callback = callback /\ frame.args = args
      /\ frame.saved = [cnode |-> cnode', pool |-> pool]
  BY <1>1, <1>2 DEF Frames
<1>4. pool' = {} /\ SetRunning(frame)
  BY DEF SaveContext
<1>5. /\ calls' \in Seq(Frames) /\ calls' # <<>> /\ Len(calls') = last
      /\ calls'[last] = frame
      /\ \A k \in 1..last : k # last => calls'[k] = calls[k]
  BY <1>1, <1>3, <1>4, Replaced
<1>. HIDE DEF frame
<1>6. Waiting'
  BY <1>1, <1>5 DEF Sound, SoundStack, Waiting
<1>7. Covered'
  <2>1. \A k \in 1..last : calls'[k].context = calls[k].context /\ calls'[k].prev = calls[k].prev
    BY <1>2, <1>3, <1>5
  <2>. QED BY <1>1, <1>5, <2>1 DEF Sound, SoundStack, Covered
<1>8. SetsKept'
  <2>1. \A k \in 1..last : k # last => \A t \in calls[k].sets :
          t = calls[k].context \/ t \in calls[k].saved.pool \/ t \in varData
    BY DEF Sound, SoundStack, SetsKept
  <2>2. frame.saved.pool = pool /\ Running.saved.pool \subseteq pool
    <3>1. Running.saved.pool = {}
      BY <1>1, <1>2 DEF Sound, SoundStack, PlacesSaved, InLibxml
    <3>. QED BY <1>3, <3>1
  <2>3. \A t \in frame.sets : t = frame.context \/ t \in frame.saved.pool \/ t \in varData
    BY <1>1, <1>2, <1>3, <2>2 DEF Sound, SoundStack, SetsKept
  <2>. QED BY <1>5, <2>1, <2>3 DEF SetsKept
<1>9. PlacesSaved'
  BY <1>1, <1>2, <1>3, <1>5, TreesAssumption DEF Sound, SoundStack, PlacesSaved
<1>10. ContextsKept'
  <2>1. Running' = frame
    BY <1>5 DEF Running
  <2>2. \A k \in 1..last : /\ calls'[k].context = calls[k].context
                           /\ calls'[k].prev = calls[k].prev /\ calls'[k].given = calls[k].given
    BY <1>2, <1>3, <1>5
  <2>3. \A k \in 1..last : k < last => k + 1 \in 1..last
    BY <1>1
  <2>4. DOMAIN calls = 1..last /\ DOMAIN calls' = 1..last
    BY <1>1, <1>5
  <2>5. ~InLibxml'
    BY <1>3, <2>1, TreesAssumption DEF InLibxml
  <2>6. node' = Running'.context
    BY <1>1, <1>3, <2>1 DEF Sound, SoundStack, ContextsKept
  <2>. QED BY <1>4, <1>5, <2>2, <2>3, <2>4, <2>5, <2>6 DEF Sound, SoundStack, ContextsKept
<1>11. \A k \in 1..Len(calls') : HeldBy(calls'[k]) \subseteq live
  <2>1. ASSUME NEW k \in 1..last, k # last
        PROVE  HeldBy(calls'[k]) \subseteq live
    BY <1>5, <2>1, Known
  <2>2. HeldBy(calls'[last]) \subseteq live
    <3>1. HeldBy(Running) \subseteq live /\ args \subseteq live /\ pool \subseteq live
      BY <1>1, <1>2, Known, SetsLive
    <3>. QED BY <1>3, <1>5, <3>1 DEF HeldBy
  <2>. QED BY <1>5, <2>1, <2>2
<1>. QED BY <1>5, <1>6, <1>7, <1>8, <1>9, <1>10, <1>11 DEF SoundStack

(* Perl returns to libxml2. *)
LEMMA RestoreKeeps ==
  ASSUME Sound, calls # <<>>, Running.callback # NULL, UNCHANGED <<node, varData>>,
         NEW pooled \in SUBSET Trees, NEW value \in SUBSET Trees, RestoreContext(pooled, value),
         value \subseteq Running.sets \cup varData \cup pooled
  PROVE  /\ calls' \in Seq(Frames) /\ SoundStack'
         /\ \A k \in 1..Len(calls') : HeldBy(calls'[k]) \subseteq live
         /\ pool' \subseteq live \cup pooled /\ pool' \subseteq Trees
         /\ cnode' \in Trees \cup {NULL}
<1>. DEFINE last  == Len(calls)
            frame == [Running EXCEPT !.callback = NULL, !.args = {}, !.saved = NotSaved,
                                     !.sets = @ \cup value]
<1>1. calls \in Seq(Frames) /\ last \in 1..last
  BY DEF Sound, TypeOK
<1>2. Running \in Frames /\ Running = calls[last]
  BY <1>1 DEF Running
<1>3. /\ frame \in Frames
      /\ frame.given = Running.given /\ frame.prev = Running.prev
      /\ frame.context = Running.context /\ frame.sets = Running.sets \cup value
      /\ frame.callback = NULL /\ frame.args = {} /\ frame.saved.pool = {}
  BY <1>1, <1>2 DEF Frames, NotSaved
<1>4. pool' = Running.saved.pool \cup pooled /\ cnode' = Running.saved.cnode /\ SetRunning(frame)
  BY DEF RestoreContext
<1>5. /\ calls' \in Seq(Frames) /\ calls' # <<>> /\ Len(calls') = last
      /\ calls'[last] = frame
      /\ \A k \in 1..last : k # last => calls'[k] = calls[k]
  BY <1>1, <1>3, <1>4, Replaced
<1>. HIDE DEF frame
<1>6. Waiting'
  BY <1>1, <1>5 DEF Sound, SoundStack, Waiting
<1>7. Covered'
  <2>1. \A k \in 1..last : calls'[k].context = calls[k].context /\ calls'[k].prev = calls[k].prev
    BY <1>2, <1>3, <1>5
  <2>. QED BY <1>1, <1>5, <2>1 DEF Sound, SoundStack, Covered
<1>8. SetsKept'
  <2>1. pool = {}
    BY DEF Sound, SoundStack, ContextsKept, InPerl
  <2>2. \A k \in 1..last : k # last => \A t \in calls[k].sets :
          t = calls[k].context \/ t \in calls[k].saved.pool \/ t \in varData
    BY <2>1 DEF Sound, SoundStack, SetsKept
  <2>3. \A t \in Running.sets :
          t = Running.context \/ t \in Running.saved.pool \/ t \in varData
    BY <1>1, <1>2, <2>1 DEF Sound, SoundStack, SetsKept
  <2>4. \A t \in frame.sets : t = frame.context \/ t \in varData \/ t \in pool'
    BY <1>3, <1>4, <2>3
  <2>. QED BY <1>5, <2>2, <2>4 DEF SetsKept
<1>9. PlacesSaved'
  BY <1>3, <1>5 DEF Sound, SoundStack, PlacesSaved
<1>10. ContextsKept'
  <2>1. Running' = frame
    BY <1>5 DEF Running
  <2>2. \A k \in 1..last : /\ calls'[k].context = calls[k].context
                           /\ calls'[k].prev = calls[k].prev /\ calls'[k].given = calls[k].given
    BY <1>2, <1>3, <1>5
  <2>3. \A k \in 1..last : k < last => k + 1 \in 1..last
    BY <1>1
  <2>4. DOMAIN calls = 1..last /\ DOMAIN calls' = 1..last
    BY <1>1, <1>5
  <2>5. cnode' \in frame.sets
    BY <1>1, <1>2, <1>3, <1>4 DEF Sound, SoundStack, PlacesSaved
  <2>6. node' = Running'.context
    BY <1>3, <2>1 DEF Sound, SoundStack, ContextsKept
  <2>7. ~InPerl'
    BY <1>3, <1>5, <2>1 DEF InPerl
  <2>. QED BY <1>5, <2>1, <2>2, <2>3, <2>4, <2>5, <2>6, <2>7 DEF Sound, SoundStack, ContextsKept
<1>11. \A k \in 1..Len(calls') : HeldBy(calls'[k]) \subseteq live
  <2>1. ASSUME NEW k \in 1..last, k # last
        PROVE  HeldBy(calls'[k]) \subseteq live
    BY <1>5, <2>1, Known
  <2>2. HeldBy(calls'[last]) \subseteq live
    <3>1. HeldBy(Running) \subseteq live
      BY <1>1, <1>2, Known
    <3>. QED BY <1>3, <1>5, <3>1 DEF HeldBy
  <2>. QED BY <1>5, <2>1, <2>2
<1>12. pool' \subseteq live \cup pooled
  <2>1. Running.saved.pool \subseteq live
    BY <1>1, <1>2, Known DEF HeldBy
  <2>. QED BY <1>4, <2>1
<1>13. Running.saved.pool \subseteq Trees /\ Running.saved.cnode \in Trees \cup {NULL}
  BY <1>2 DEF Frames
<1>. QED BY <1>4, <1>5, <1>6, <1>7, <1>8, <1>9, <1>10, <1>11, <1>12, <1>13 DEF SoundStack

(* An evaluation begins. *)
LEMMA FindKeeps ==
  ASSUME Sound, NEW given \in Trees \cup {NULL}, Find(given)
  PROVE  Sound'
<1>. DEFINE last  == Len(calls)
            frame == Frame(given, IF given = NULL THEN NULL ELSE node, node')
<1>1. calls \in Seq(Frames) /\ last \in Nat /\ node \in Trees \cup {NULL}
  BY DEF Sound, TypeOK
<1>2. node' = (IF given = NULL THEN node ELSE given) /\ node' \in Trees /\ cnode' = node'
  BY <1>1 DEF Find
<1>3. /\ frame \in Frames
      /\ frame.given = given /\ frame.prev = (IF given = NULL THEN NULL ELSE node)
      /\ frame.context = node' /\ frame.sets = {node'}
      /\ frame.callback = NULL /\ frame.args = {} /\ frame.saved.pool = {}
  BY <1>1, <1>2 DEF Frame, Frames, NotSaved
<1>4. calls' = Append(calls, frame) /\ UNCHANGED <<live, held, pool, varData>> /\ InPerl
  BY DEF Find
<1>. HIDE DEF frame
<1>5. /\ calls' \in Seq(Frames) /\ calls' # <<>> /\ Len(calls') = last + 1
      /\ calls'[last + 1] = frame
      /\ \A k \in 1..last : calls'[k] = calls[k]
  BY <1>1, <1>3, <1>4, AppendProperties
<1>6. calls # <<>> => last \in 1..last /\ Running = calls[last] /\ Running.callback # NULL
                      /\ node = Running.context
  BY <1>1, <1>4 DEF InPerl, Running, Sound, SoundStack, ContextsKept
<1>7. last = 0 \/ (calls # <<>> /\ last \in 1..last)
  BY <1>1
<1>8. Waiting'
  BY <1>1, <1>5, <1>6, <1>7 DEF Sound, SoundStack, Waiting
<1>9. last \in 1..last =>
        calls[last].context = IF frame.given = NULL THEN frame.context ELSE frame.prev
  BY <1>1, <1>2, <1>3, <1>6, <1>7
<1>10. Covered'
  <2>1. ASSUME NEW m \in 1..last, NEW k \in 1..m
        PROVE  calls'[k].context = calls'[m].context
                 \/ \E j \in (k + 1)..m : calls'[j].prev = calls'[k].context
    <3>1. k \in 1..last /\ \A j \in (k + 1)..m : j \in 1..last
      BY <1>1
    <3>. QED BY <1>5, <3>1 DEF Sound, SoundStack, Covered
  <2>2. ASSUME NEW k \in 1..last
        PROVE  calls'[k].context = calls'[last + 1].context
                 \/ \E j \in (k + 1)..(last + 1) : calls'[j].prev = calls'[k].context
    <3>1. /\ last \in 1..last /\ k \in 1..last
          /\ calls[last].context = frame.context \/ calls[last].context = frame.prev
      BY <1>1, <1>9
    <3>2. CASE calls[k].context = calls[last].context
      <4>1. CASE calls[last].context = frame.context
        BY <1>5, <3>1, <3>2, <4>1
      <4>2. CASE calls[last].context = frame.prev
        <5>1. last + 1 \in (k + 1)..(last + 1)
          BY <1>1
        <5>. QED BY <1>5, <3>2, <4>2, <5>1
      <4>. QED BY <3>1, <4>1, <4>2
    <3>3. CASE \E j \in (k + 1)..last : calls[j].prev = calls[k].context
      <4>1. PICK j \in (k + 1)..last : calls[j].prev = calls[k].context
        BY <3>3
      <4>2. j \in 1..last /\ j \in (k + 1)..(last + 1)
        BY <1>1
      <4>. QED BY <1>5, <4>1, <4>2
    <3>. QED BY <3>1, <3>2, <3>3 DEF Sound, SoundStack, Covered
  <2>3. \A m \in 1..(last + 1) : m \in 1..last \/ m = last + 1
    BY <1>1
  <2>. QED BY <1>5, <2>1, <2>2, <2>3 DEF Covered
<1>11. SetsKept'
  <2>1. \A k \in 1..last : \A t \in calls[k].sets :
          t = calls[k].context \/ t \in calls[k].saved.pool \/ t \in varData
    BY <1>4 DEF Sound, SoundStack, SetsKept, ContextsKept
  <2>2. \A k \in 1..(last + 1) : k \in 1..last \/ k = last + 1
    BY <1>1
  <2>. QED BY <1>3, <1>4, <1>5, <2>1, <2>2 DEF SetsKept
<1>12. PlacesSaved'
  <2>1. \A k \in 1..(last + 1) : k \in 1..last \/ k = last + 1
    BY <1>1
  <2>. QED BY <1>3, <1>5, <2>1 DEF Sound, SoundStack, PlacesSaved
<1>13. ContextsKept'
  <2>1. Running' = frame
    BY <1>5 DEF Running
  <2>2. ~InPerl'
    BY <1>3, <1>5, <2>1 DEF InPerl
  <2>3. ASSUME NEW k \in 1..last
        PROVE  calls'[k].context = IF calls'[k + 1].given = NULL
                                   THEN calls'[k + 1].context ELSE calls'[k + 1].prev
    <3>1. CASE k = last
      BY <1>5, <1>9, <3>1
    <3>2. CASE k # last
      <4>1. k < last /\ k + 1 \in 1..last /\ k \in DOMAIN calls
        BY <1>1, <3>2
      <4>. QED BY <1>5, <4>1 DEF Sound, SoundStack, ContextsKept
    <3>. QED BY <3>1, <3>2
  <2>4. \A k \in DOMAIN calls' : k < Len(calls') => k \in 1..last
    BY <1>1, <1>5
  <2>. QED BY <1>2, <1>3, <1>5, <2>1, <2>2, <2>3, <2>4 DEF ContextsKept
<1>14. Referenced' \subseteq live
  <2>1. given # NULL => given \in live
    BY NamedLive DEF Find
  <2>2. {node} \ {NULL} \subseteq live /\ {node'} \ {NULL} \subseteq live
    BY <1>2, <2>1, Known
  <2>3. HeldBy(frame) \subseteq live
    BY <1>3, <2>1, <2>2 DEF HeldBy
  <2>4. \A k \in 1..(last + 1) : k \in 1..last \/ k = last + 1
    BY <1>1
  <2>5. \A k \in 1..Len(calls') : HeldBy(calls'[k]) \subseteq live
    BY <1>5, <2>3, <2>4, Known
  <2>. QED BY <1>4, <1>5, <2>2, <2>5, Known, ReferencedIn
<1>15. TypeOK'
  BY <1>2, <1>4, <1>5 DEF Sound, TypeOK
<1>. QED BY <1>4, <1>8, <1>10, <1>11, <1>12, <1>13, <1>14, <1>15 DEF Sound, SoundStack

(* An evaluation ends, whichever way. *)
LEMMA LeaveKeeps ==
  ASSUME Sound, calls # <<>>, Leave, UNCHANGED varData
  PROVE  /\ calls' \in Seq(Frames) /\ SoundStack'
         /\ pool' = {} /\ node' \in Trees \cup {NULL} /\ {node'} \ {NULL} \subseteq live
         /\ \A k \in 1..Len(calls') : HeldBy(calls'[k]) \subseteq live
<1>. DEFINE last == Len(calls)
<1>1. calls \in Seq(Frames) /\ node \in Trees \cup {NULL}
  BY DEF Sound, TypeOK
<1>2. pool' = {} /\ node' = IF Running.given = NULL THEN node ELSE Running.prev
  BY DEF Leave
<1>3. /\ calls' \in Seq(Frames) /\ last \in 1..last /\ Len(calls') = last - 1
      /\ \A k \in 1..(last - 1) : calls'[k] = calls[k]
  BY <1>1, Shortened DEF Leave
<1>4. \A k \in 1..(last - 1) : k \in 1..last /\ k < last /\ k \in DOMAIN calls
  BY <1>1, <1>3
<1>5. Running = calls[last] /\ Running \in Frames /\ node = Running.context
  BY <1>1, <1>3 DEF Running, Sound, SoundStack, ContextsKept
<1>6. Waiting'
  BY <1>3, <1>4 DEF Sound, SoundStack, Waiting
<1>7. Covered'
  <2>1. ASSUME NEW m \in 1..(last - 1), NEW k \in 1..m
        PROVE  calls'[k].context = calls'[m].context
                 \/ \E j \in (k + 1)..m : calls'[j].prev = calls'[k].context
    <3>1. m \in 1..last /\ k \in 1..(last - 1) /\ \A j \in (k + 1)..m : j \in 1..(last - 1)
      BY <1>3
    <3>. QED BY <1>3, <3>1 DEF Sound, SoundStack, Covered
  <2>. QED BY <1>3, <2>1 DEF Covered
<1>8. SetsKept'
  <2>1. \A k \in 1..(last - 1) : \A t \in calls[k].sets :
          t = calls[k].context \/ t \in calls[k].saved.pool \/ t \in varData
    BY <1>4 DEF Sound, SoundStack, SetsKept
  <2>. QED BY <1>3, <2>1 DEF SetsKept
<1>9. PlacesSaved'
  BY <1>3, <1>4 DEF Sound, SoundStack, PlacesSaved
<1>10. ContextsKept'
  <2>1. CASE last = 1
    <3>1. calls' = <<>> /\ Len(calls') = 0
      BY <1>3, <2>1
    <3>. QED BY <1>2, <3>1 DEF ContextsKept, InLibxml, InPerl
  <2>2. CASE last # 1
    <3>1. last - 1 \in 1..(last - 1) /\ last - 1 + 1 = last
      BY <1>3, <2>2
    <3>2. Running' = calls[last - 1] /\ calls' # <<>>
      BY <1>3, <3>1 DEF Running
    <3>3. Running'.callback # NULL
      BY <1>4, <3>1, <3>2 DEF Sound, SoundStack, Waiting
    <3>4. Running'.context = IF Running.given = NULL THEN Running.context ELSE Running.prev
      BY <1>4, <1>5, <3>1, <3>2 DEF Sound, SoundStack, ContextsKept
    <3>5. node' = Running'.context
      BY <1>2, <1>5, <3>4
    <3>6. \A k \in DOMAIN calls' : k < Len(calls') =>
            /\ k \in DOMAIN calls /\ k < last
            /\ k \in 1..(last - 1) /\ k + 1 \in 1..(last - 1)
      BY <1>1, <1>3
    <3>7. ~InLibxml'
      BY <3>3 DEF InLibxml
    <3>. QED BY <1>2, <1>3, <3>5, <3>6, <3>7 DEF Sound, SoundStack, ContextsKept
  <2>. QED BY <2>1, <2>2
<1>11. node' \in Trees \cup {NULL} /\ {node'} \ {NULL} \subseteq live
  <2>1. HeldBy(Running) \subseteq live /\ Running.prev \in Trees \cup {NULL}
    BY <1>3, <1>5, Known DEF Frames
  <2>. QED BY <1>1, <1>2, <2>1, Known DEF HeldBy
<1>12. \A k \in 1..Len(calls') : HeldBy(calls'[k]) \subseteq live
  BY <1>3, <1>4, Known
<1>. QED BY <1>2, <1>3, <1>6, <1>7, <1>8, <1>9, <1>10, <1>11, <1>12 DEF SoundStack

-----------------------------------------------------------------------------
(* Every step keeps the invariant. *)

(* The invariant at the start *)
LEMMA InitSound ==
  Init => Sound
<1>. SUFFICES ASSUME Init PROVE Sound
  OBVIOUS
<1>1. TypeOK
  BY DEF Init, TypeOK
<1>2. SoundStack
  BY DEF Init, SoundStack, Waiting, Covered, SetsKept, PlacesSaved, ContextsKept, InLibxml
<1>3. Referenced \subseteq live
  BY DEF Init, Referenced, Range
<1>. QED BY <1>1, <1>2, <1>3 DEF Sound

(* Perl code that changes what it holds itself *)
LEMMA PerlStep ==
  ASSUME Sound, InPerl, UNCHANGED <<calls, pool>>, calls # <<>> => UNCHANGED <<node, varData>>,
         NEW new \in SUBSET Trees, UNCHANGED live \/ Collect(new),
         UNCHANGED live => new = {},
         held' \subseteq live \cup new, varData' \subseteq live, node' \in live \cup {NULL},
         cnode' \in Trees \cup {NULL}
  PROVE  Sound'
<1>1. TypeOK
  BY DEF Sound
<1>2. SoundStack'
  BY PerlKeeps
<1>3. Referenced' \subseteq live \cup new
  BY <1>1, Known, ReferencedIn DEF TypeOK
<1>4. Referenced' \subseteq live' /\ live' \subseteq live \cup new
  BY <1>3 DEF Collect
<1>5. TypeOK'
  BY <1>1, <1>4 DEF TypeOK
<1>. QED BY <1>2, <1>4, <1>5 DEF Sound

(* The invariant after a step of the program *)
LEMMA PerlSteps ==
  ASSUME Sound, Uses = {},
         \/ \E t \in Trees : Create(t) \/ Keep(t) \/ Drop(t)
         \/ \E t \in Trees \cup {NULL} : SetContextNode(t)
         \/ LookupNs
         \/ \E data \in SUBSET Trees : RegisterVarLookup(data)
  PROVE  Sound'
<1>. USE Known, NamedLive
<1>1. TypeOK
  BY DEF Sound
<1>2. ASSUME NEW t \in Trees, Create(t)
      PROVE  Sound'
  <2>1. InPerl /\ held' = held \cup {t} /\ Collect({t}) /\ UNCHANGED <<node, pool, varData, cnode, calls>>
    BY <1>2 DEF Create
  <2>2. UNCHANGED live => t \in held' /\ t \in live
    BY <1>2, <2>1 DEF Create, Collect, Referenced
  <2>3. ~UNCHANGED live
    BY <1>2, <2>2 DEF Create
  <2>. QED BY <1>1, <2>1, <2>3, PerlStep DEF TypeOK
<1>3. ASSUME NEW t \in Trees, Keep(t)
      PROVE  Sound'
  <2>1. InPerl /\ held' \subseteq live /\ UNCHANGED <<live, node, pool, varData, cnode, calls>>
    BY <1>3 DEF Keep
  <2>. QED BY <1>1, <2>1, PerlStep DEF TypeOK
<1>4. ASSUME NEW t \in Trees, Drop(t)
      PROVE  Sound'
  <2>1. InPerl /\ held' \subseteq live /\ Collect({}) /\ UNCHANGED <<node, pool, varData, cnode, calls>>
    BY <1>4 DEF Drop
  <2>. QED BY <1>1, <2>1, PerlStep DEF TypeOK
<1>5. ASSUME NEW t \in Trees \cup {NULL}, SetContextNode(t), Uses = {}
      PROVE  Sound'
  <2>1. /\ calls = <<>> /\ InPerl /\ node' \in live \cup {NULL} /\ Collect({})
        /\ UNCHANGED <<held, pool, varData, cnode, calls>>
    BY <1>5 DEF SetContextNode, InPerl
  <2>. QED BY <1>1, <2>1, PerlStep DEF TypeOK
<1>6. ASSUME LookupNs
      PROVE  Sound'
  <2>1. InPerl /\ cnode' = node /\ UNCHANGED <<live, held, node, pool, varData, calls>>
    BY <1>6 DEF LookupNs
  <2>2. /\ node' \in live \cup {NULL} /\ cnode' \in Trees \cup {NULL}
        /\ held' \subseteq live \cup {} /\ varData' \subseteq live
    BY <1>1, <2>1 DEF TypeOK
  <2>. QED BY <2>1, <2>2, PerlStep
<1>7. ASSUME NEW data \in SUBSET Trees, RegisterVarLookup(data)
      PROVE  Sound'
  <2>1. /\ calls = <<>> /\ InPerl /\ varData' \subseteq live /\ cnode' = node /\ Collect({})
        /\ UNCHANGED <<held, node, pool, calls>>
    BY <1>7 DEF RegisterVarLookup, InPerl
  <2>. QED BY <1>1, <2>1, PerlStep DEF TypeOK
<1>. QED BY <1>2, <1>3, <1>4, <1>5, <1>6, <1>7

(* The invariant after a call *)
LEMMA CallSteps ==
  ASSUME Sound, CallFunction \/ CallVariable
  PROVE  Sound'
<1>1. /\ calls \in Seq(Frames) /\ TypeOK
      /\ InLibxml /\ cnode' \in Running.sets /\ UNCHANGED <<live, held, node, varData>>
      /\ \E callback \in {"function", "variable"}, args \in SUBSET Running.sets :
           SaveContext(callback, args)
  BY DEF Sound, TypeOK, CallFunction, CallVariable
<1>2. /\ calls' \in Seq(Frames) /\ SoundStack'
      /\ \A k \in 1..Len(calls') : HeldBy(calls'[k]) \subseteq live
  BY <1>1, SaveKeeps
<1>3. pool' = {}
  BY <1>1 DEF SaveContext
<1>4. cnode' \in Trees
  <2>1. Len(calls) \in 1..Len(calls)
    BY <1>1 DEF InLibxml
  <2>. QED BY <1>1, <2>1, SetsLive DEF Running, TypeOK
<1>5. Referenced' \subseteq live'
  BY <1>1, <1>2, <1>3, Known, ReferencedIn
<1>6. TypeOK'
  BY <1>1, <1>2, <1>3, <1>4 DEF TypeOK
<1>. QED BY <1>2, <1>5, <1>6 DEF Sound

(* The invariant after a return *)
LEMMA ReturnSteps ==
  ASSUME Sound, Uses = {}, NEW value \in SUBSET Trees, NEW lost \in SUBSET Trees,
         FunctionReturns(value, lost) \/ VariableReturns(value, lost)
  PROVE  Sound'
<1>1. PICK pooled \in SUBSET Trees :
        /\ calls # <<>> /\ Running.callback # NULL /\ UNCHANGED <<node, varData>>
        /\ held' \subseteq held /\ Collect({})
        /\ pooled \subseteq Named /\ RestoreContext(pooled, value)
        /\ value \subseteq Running.sets \cup varData \cup pooled
  <2>1. CASE FunctionReturns(value, lost)
    BY <2>1, TreesAssumption DEF FunctionReturns
  <2>2. CASE VariableReturns(value, lost)
    BY <2>2, TreesAssumption DEF VariableReturns
  <2>. QED BY <2>1, <2>2
<1>2. TypeOK /\ pooled \subseteq live
  BY <1>1, NamedLive DEF Sound
<1>3. /\ calls' \in Seq(Frames) /\ SoundStack'
      /\ \A k \in 1..Len(calls') : HeldBy(calls'[k]) \subseteq live
      /\ pool' \subseteq live \cup pooled /\ pool' \subseteq Trees
      /\ cnode' \in Trees \cup {NULL}
  BY <1>1, RestoreKeeps
<1>4. Referenced' \subseteq live
  BY <1>1, <1>2, <1>3, Known, ReferencedIn
<1>5. Referenced' \subseteq live' /\ live' \subseteq live
  BY <1>1, <1>4 DEF Collect
<1>6. TypeOK'
  BY <1>1, <1>2, <1>3, <1>5 DEF TypeOK
<1>. QED BY <1>3, <1>5, <1>6 DEF Sound

(* The invariant after the end of a search *)
LEMMA LeaveSteps ==
  ASSUME Sound, Die \/ \E found \in SUBSET Trees : Return(found)
  PROVE  Sound'
<1>1. calls # <<>> /\ Leave /\ UNCHANGED varData /\ Collect({})
  BY DEF Die, Return, InLibxml
<1>2. TypeOK /\ calls \in Seq(Frames) /\ Len(calls) \in 1..Len(calls)
  BY <1>1 DEF Sound, TypeOK
<1>3. held' \subseteq live /\ cnode' \in Trees \cup {NULL}
  <2>1. CASE Die
    <3>1. Running \in Frames
      BY <1>2 DEF Running
    <3>2. Running.saved.cnode \in Trees \cup {NULL}
      BY <3>1 DEF Frames
    <3>. QED BY <2>1, <3>2, Known DEF Die
  <2>2. ASSUME NEW found \in SUBSET Trees, Return(found)
        PROVE  held' \subseteq live /\ cnode' \in Trees \cup {NULL}
    <3>1. Running.sets \subseteq live
      BY <1>2, SetsLive DEF Running
    <3>. QED BY <1>2, <2>2, <3>1, Known DEF Return, TypeOK
  <2>. QED BY <2>1, <2>2
<1>4. /\ calls' \in Seq(Frames) /\ SoundStack'
      /\ pool' = {} /\ node' \in Trees \cup {NULL} /\ {node'} \ {NULL} \subseteq live
      /\ \A k \in 1..Len(calls') : HeldBy(calls'[k]) \subseteq live
  BY <1>1, LeaveKeeps
<1>5. Referenced' \subseteq live
  BY <1>1, <1>3, <1>4, Known, ReferencedIn
<1>6. Referenced' \subseteq live' /\ live' \subseteq live
  BY <1>1, <1>5 DEF Collect
<1>7. held' \subseteq live'
  BY <1>6 DEF Referenced
<1>8. TypeOK'
  BY <1>1, <1>2, <1>3, <1>4, <1>6, <1>7 DEF TypeOK
<1>. QED BY <1>4, <1>6, <1>8 DEF Sound

(* The invariant after any step *)
LEMMA StepSound ==
  ASSUME Sound, Uses = {}, [Next]_vars
  PROVE  Sound'
<1>1. CASE UNCHANGED vars
  BY <1>1 DEF vars, Sound, TypeOK, SoundStack, Waiting, Covered, SetsKept, PlacesSaved,
              ContextsKept, InLibxml, InPerl, Running, Referenced
<1>2. CASE Next
  BY <1>2, PerlSteps, FindKeeps, CallSteps, ReturnSteps, LeaveSteps DEF Next
<1>. QED BY <1>1, <1>2

-----------------------------------------------------------------------------
(* The theorems *)

(* The inductive invariant: who holds the trees that libxml2 works on.     *)
THEOREM AlwaysSound ==
  ASSUME Uses = {}
  PROVE  Spec => []Sound
<1>1. Init => Sound
  BY InitSound
<1>2. Sound /\ [Next]_vars => Sound'
  BY StepSound
<1>. QED BY <1>1, <1>2, PTL DEF Spec

(* The variables of the context and the stack of evaluations keep their    *)
(* types.                                                                  *)
THEOREM TypesCorrect ==
  ASSUME Uses = {}
  PROVE  Spec => []TypeOK
<1>1. Sound => TypeOK
  BY DEF Sound
<1>. QED BY <1>1, AlwaysSound, PTL

(* libxml2 never has a node of a freed tree in an evaluation under way.    *)
THEOREM NodesAlwaysAlive ==
  ASSUME Uses = {}
  PROVE  Spec => []NodesAlive
<1>1. Sound => NodesAlive
  <2>. SUFFICES ASSUME Sound PROVE NodesAlive
    OBVIOUS
  <2>1. DOMAIN calls = 1..Len(calls)
    BY DEF Sound, TypeOK
  <2>. QED BY <2>1, SetsLive DEF NodesAlive
<1>. QED BY <1>1, AlwaysSound, PTL

(* Evaluations within evaluations leave the outer ones their context.      *)
THEOREM ContextsAlwaysKept ==
  ASSUME Uses = {}
  PROVE  Spec => []ContextsKept
<1>1. Sound => ContextsKept
  BY DEF Sound, SoundStack
<1>. QED BY <1>1, AlwaysSound, PTL
=============================================================================
