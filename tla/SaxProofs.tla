----------------------------- MODULE SaxProofs -----------------------------
(***************************************************************************)
(* Proofs about the SAX interface, for every input whose start tags are    *)
(* well-formed, however long it is and wherever the methods of the handler *)
(* die.                                                                    *)
(***************************************************************************)
EXTENDS Sax, InductionLemmas

(* Frames whose uri and bound are right, mapped as the handler hears of them *)
Mapped(d) == [prefix |-> d.prefix, uri |-> d.uri]
Mappings == {Mapped(d) : d \in Items}

Stacks == Seq(Frames)

Elements == {GenElement(stack, tag) : stack \in Stacks, tag \in StartTags}

PlainKinds == {"set_document_locator", "start_document", "xml_decl", "start_dtd", "end_dtd",
               "start_cdata", "end_cdata", "fatal_error"}

(* Events that say nothing of elements and mappings *)
PlainEvents ==
  {Event(kind) : kind \in PlainKinds}
    \cup {Characters(texts) : texts \in Seq(Nat)}
    \cup {[event |-> "comment", at |-> n] : n \in Nat}

MappingEvents ==
  {Mapping(kind, d) : kind \in {"start_prefix_mapping", "end_prefix_mapping"}, d \in Items}

TagEvents ==
  {StartTag(stack, tag) : stack \in Stacks, tag \in StartTags}
    \cup {EndTag(stack, tag) : stack \in Stacks, tag \in StartTags}

Events == PlainEvents \cup MappingEvents \cup TagEvents \cup {Event("end_document")}

FlushIt == [do |-> "flush"]
NarrowIt == [do |-> "narrow"]
DeclareIt(tag, d) == [do |-> "declare", tag |-> tag, item |-> d]

Instructions ==
  {FlushIt, NarrowIt}
    \cup {Do(e) : e \in PlainEvents \cup MappingEvents}
    \cup {Doing(do, tag) : do \in {"extend", "start_element", "end_element"}, tag \in StartTags}
    \cup {DeclareIt(tag, d) : tag \in StartTags, d \in Items}

Contents ==
  {Event(kind) : kind \in {"document", "dtd", "text", "comment", "error"}}
    \cup {[event |-> kind, tag |-> tag] : kind \in {"start", "end"}, tag \in StartTags}

Typed ==
  /\ mode \in {"document", "chunk"}
  /\ join \in BOOLEAN
  /\ status \in {"idle", "parsing", "died", "done", "failed"}
  /\ open \in Seq(StartTags)
  /\ calls \in Seq(Contents)
  /\ sax \in Vectors \cup {NULL}
  /\ (sax = NULL) <=> (status \in {"idle", "done", "failed"})
  /\ sax # NULL => Range(sax.charbuf) \subseteq DOMAIN calls
  /\ todo \in Seq(Instructions)
  /\ status # "parsing" => todo = <<>>
  /\ status = "idle" => open = <<>> /\ calls = <<>> /\ log = <<>>
  /\ log \in Seq(Events)

-----------------------------------------------------------------------------
(* Sequences *)

(* What is left of a sequence without its first element *)
LEMMA TailOf ==
  ASSUME NEW S, NEW s \in Seq(S), s # <<>>
  PROVE  /\ Head(s) \in S /\ Tail(s) \in Seq(S) /\ Head(s) = s[1]
         /\ Len(s) \in Nat \ {0} /\ Len(Tail(s)) = Len(s) - 1
         /\ \A i \in 1..(Len(s) - 1) : Tail(s)[i] = s[i + 1]
BY HeadTailProperties, EmptySeq, LenProperties

(* The beginning of a sequence *)
LEMMA Shortened ==
  ASSUME NEW S, NEW s \in Seq(S), NEW n \in 0..Len(s)
  PROVE  /\ SubSeq(s, 1, n) \in Seq(S)
         /\ Len(SubSeq(s, 1, n)) = n
         /\ \A i \in 1..n : SubSeq(s, 1, n)[i] = s[i]
<1>1. n \in Int /\ 1 \in Int /\ \A i \in 1..n : s[i] \in S
  BY LenProperties, ElementOfSeq
<1>2. /\ SubSeq(s, 1, n) \in Seq(S)
      /\ Len(SubSeq(s, 1, n)) = IF 1 <= n THEN n - 1 + 1 ELSE 0
      /\ \A i \in 1..(n - 1 + 1) : SubSeq(s, 1, n)[i] = s[1 + i - 1]
  BY <1>1, SubSeqProperties
<1>. QED BY <1>1, <1>2, LenProperties

(* A sequence without its last member *)
LEMMA FrontOf ==
  ASSUME NEW S, NEW s \in Seq(S), s # <<>>
  PROVE  /\ Front(s) \in Seq(S) /\ Len(Front(s)) = Len(s) - 1
         /\ Len(s) \in Nat \ {0}
         /\ Last(s) = s[Len(s)] /\ Last(s) \in S
         /\ \A i \in 1..(Len(s) - 1) : Front(s)[i] = s[i]
<1>1. Len(s) \in Nat \ {0} /\ s[Len(s)] \in S
  BY EmptySeq, LenProperties, ElementOfSeq
<1>2. Len(s) - 1 \in 0..Len(s)
  BY <1>1
<1>. QED BY <1>1, <1>2, Shortened DEF Last, Front

-----------------------------------------------------------------------------
(* The declarations of a start tag *)

(* The items of a tag are items. *)
LEMMA TagItems ==
  ASSUME NEW tag \in StartTags
  PROVE  /\ tag.items \in Seq(Items) /\ Range(tag.items) \subseteq Items
         /\ \A i \in DOMAIN tag.items : tag.items[i] \in Items
<1>1. Range(tag.items) \subseteq Items
  BY DEF Items
<1>2. tag.items \in Seq(Range(tag.items))
  BY TagsAssumption
<1>3. \A i \in DOMAIN tag.items : tag.items[i] \in Range(tag.items)
  BY DEF Range
<1>. DEFINE n == Len(tag.items)
<1>4. n \in Nat /\ tag.items = [i \in 1..n |-> tag.items[i]] /\ DOMAIN tag.items = 1..n
  BY <1>2, LenProperties
<1>5. tag.items \in Seq(Items)
  BY <1>1, <1>3, <1>4, IsASeq
<1>. QED BY <1>1, <1>3, <1>5

Kept == [a \in Seq(Items) \X Items |-> IF a[2].declares THEN Append(a[1], a[2]) ELSE a[1]]

(* Declarations is a left fold. *)
LEMMA DeclarationsFold ==
  ASSUME NEW s \in Seq(Items)
  PROVE  IsLeftFold(Declarations(s), s, <<>>, Kept, Seq(Items))
<1>. DEFINE S == DOMAIN s
            Rec(iter) == iter = [T \in SUBSET S |->
                           IF T = {} THEN <<>>
                           ELSE IF s[Max(T)].declares THEN Append(iter[T \ {Max(T)}], s[Max(T)])
                                ELSE iter[T \ {Max(T)}]]
            fold == CHOOSE iter : Rec(iter)
<1>1. Declarations(s) = fold[S]
  BY DEF Declarations, FoldLeft, MapThenFoldSet
<1>2. Kept \in [Seq(Items) \X Items -> Seq(Items)]
  BY AppendProperties DEF Kept
<1>3. <<>> \in Seq(Items)
  BY EmptySeq
<1>4. PICK g \in [SUBSET S -> Seq(Items)] : LeftFolds(g, s, <<>>, Kept)
  BY <1>2, <1>3, LeftFoldExists
<1>5. \A T \in SUBSET S : T # {} => s[Max(T)] \in Items
  <2>1. S = 1..Len(s) /\ Len(s) \in Nat /\ \A i \in S : s[i] \in Items
    BY LenProperties, ElementOfSeq
  <2>. HIDE DEF S
  <2>. QED BY <2>1, Largest
<1>6. Rec(g)
  <2>1. ASSUME NEW T \in SUBSET S, T # {}
        PROVE  g[T] = IF s[Max(T)].declares THEN Append(g[T \ {Max(T)}], s[Max(T)])
                      ELSE g[T \ {Max(T)}]
    <3>1. g[T] = Kept[<<g[T \ {Max(T)}], s[Max(T)]>>]
      BY <1>4, <2>1 DEF LeftFolds
    <3>2. g[T \ {Max(T)}] \in Seq(Items) /\ s[Max(T)] \in Items
      BY <1>5, <2>1
    <3>. QED BY <3>1, <3>2 DEF Kept
  <2>2. g[{}] = <<>>
    BY <1>4 DEF LeftFolds
  <2>. QED BY <2>1, <2>2
<1>7. Rec(fold)
  <2>. HIDE DEF Rec
  <2>. QED BY <1>6
<1>. HIDE DEF fold
<1>8. ASSUME NEW T \in SUBSET S, T # {}, fold[T \ {Max(T)}] \in Seq(Items)
      PROVE  fold[T] = Kept[<<fold[T \ {Max(T)}], s[Max(T)]>>]
  <2>1. fold[T] = IF s[Max(T)].declares THEN Append(fold[T \ {Max(T)}], s[Max(T)])
                  ELSE fold[T \ {Max(T)}]
    BY <1>7, <1>8
  <2>. QED BY <2>1, <1>5, <1>8 DEF Kept
<1>9. fold[{}] = <<>>
  BY <1>7
<1>. HIDE DEF Rec
<1>10. LeftFoldsWithin(fold, s, <<>>, Kept, Seq(Items))
  BY <1>8, <1>9 DEF LeftFoldsWithin
<1>11. IsLeftFold(fold[DOMAIN s], s, <<>>, Kept, Seq(Items))
  BY <1>2, <1>3, <1>10, LeftFoldIs
<1>. QED BY <1>1, <1>11

(* A sequence and one more member *)
LEMMA Appended ==
  ASSUME NEW S, NEW s \in Seq(S), NEW x \in S, NEW t, t = Append(s, x)
  PROVE  /\ t \in Seq(S) /\ Len(s) \in Nat /\ Len(t) = Len(s) + 1
         /\ DOMAIN s = 1..Len(s) /\ DOMAIN t = 1..(Len(s) + 1)
         /\ \A i \in 1..Len(s) : t[i] = s[i]
         /\ t[Len(s) + 1] = x
         /\ t # <<>> /\ Last(t) = x
<1>1. /\ t \in Seq(S) /\ Len(s) \in Nat /\ Len(t) = Len(s) + 1
      /\ \A i \in 1..Len(s) : t[i] = s[i]
      /\ t[Len(s) + 1] = x
  BY AppendProperties, LenProperties
<1>2. DOMAIN s = 1..Len(s) /\ DOMAIN t = 1..(Len(s) + 1)
  BY <1>1, LenProperties
<1>3. t # <<>>
  BY <1>1, EmptySeq
<1>. QED BY <1>1, <1>2, <1>3 DEF Last

(* A beginning that is one longer *)
LEMMA Longer ==
  ASSUME NEW S, NEW s \in Seq(S), NEW n \in 0..(Len(s) - 1)
  PROVE  SubSeq(s, 1, n + 1) = Append(SubSeq(s, 1, n), s[n + 1])
<1>1. Len(s) \in Nat /\ n \in 0..Len(s) /\ n + 1 \in 0..Len(s) /\ s[n + 1] \in S
  BY LenProperties, ElementOfSeq
<1>2. /\ SubSeq(s, 1, n + 1) \in Seq(S) /\ Len(SubSeq(s, 1, n + 1)) = n + 1
      /\ \A i \in 1..(n + 1) : SubSeq(s, 1, n + 1)[i] = s[i]
  BY <1>1, Shortened
<1>3. /\ SubSeq(s, 1, n) \in Seq(S) /\ Len(SubSeq(s, 1, n)) = n
      /\ \A i \in 1..n : SubSeq(s, 1, n)[i] = s[i]
  BY <1>1, Shortened
<1>4. /\ Append(SubSeq(s, 1, n), s[n + 1]) \in Seq(S)
      /\ Len(Append(SubSeq(s, 1, n), s[n + 1])) = n + 1
      /\ \A i \in 1..n : Append(SubSeq(s, 1, n), s[n + 1])[i] = SubSeq(s, 1, n)[i]
      /\ Append(SubSeq(s, 1, n), s[n + 1])[n + 1] = s[n + 1]
  BY <1>1, <1>3, AppendProperties
<1>5. \A i \in 1..(n + 1) : SubSeq(s, 1, n + 1)[i] = Append(SubSeq(s, 1, n), s[n + 1])[i]
  BY <1>1, <1>2, <1>3, <1>4
<1>. QED BY <1>2, <1>4, <1>5, SeqEqual

(* The declarations among the first n items of a tag *)
DeclaredIn(D, items, n) ==
  /\ D \in Seq(Items)
  /\ \A i \in DOMAIN D : \E j \in 1..n : items[j].declares /\ D[i] = items[j]
  /\ \A j \in 1..n : items[j].declares => \E i \in DOMAIN D : D[i] = items[j]
  /\ \A i, j \in DOMAIN D : D[i].prefix = D[j].prefix => i = j

(* The declarations stay those of the first items when an item is read. *)
LEMMA OneMoreItem ==
  ASSUME NEW tag \in StartTags, NEW k \in 0..(Len(tag.items) - 1),
         NEW D, DeclaredIn(D, tag.items, k), NEW x, x = tag.items[k + 1],
         NEW E, E = IF x.declares THEN Append(D, x) ELSE D
  PROVE  DeclaredIn(E, tag.items, k + 1)
<1>. DEFINE items == tag.items
            m     == Len(items)
<1>1. /\ items \in Seq(Items) /\ m \in Nat /\ DOMAIN items = 1..m
      /\ k \in Nat /\ k + 1 \in 1..m /\ DeclaredIn(D, items, k) /\ items[k + 1] = x
  BY TagItems, LenProperties
<1>2. D \in Seq(Items) /\ x \in Items
  BY <1>1, TagItems DEF DeclaredIn
<1>3. \A i, j \in 1..m : items[i].declares /\ items[j].declares
                           /\ items[i].prefix = items[j].prefix => i = j
  BY <1>1, TagsAssumption
<1>5. E = IF x.declares THEN Append(D, x) ELSE D
  OBVIOUS
<1>. HIDE DEF items
<1>6. CASE x.declares
  <2>. DEFINE l == Len(D)
  <2>1. /\ E \in Seq(Items) /\ DOMAIN E = 1..(l + 1) /\ DOMAIN D = 1..l
        /\ l \in Nat
        /\ \A i \in 1..l : E[i] = D[i]
        /\ E[l + 1] = x
    BY <1>1, <1>2, <1>5, <1>6, Appended
  <2>2. ASSUME NEW i \in DOMAIN E
        PROVE  \E j \in 1..(k + 1) : items[j].declares /\ E[i] = items[j]
    <3>1. CASE i = l + 1
      <4>1. k + 1 \in 1..(k + 1)
        BY <1>1
      <4>. QED BY <1>1, <1>6, <2>1, <3>1, <4>1
    <3>2. CASE i # l + 1
      <4>1. i \in DOMAIN D /\ E[i] = D[i]
        BY <2>1, <3>2
      <4>2. PICK j \in 1..k : items[j].declares /\ D[i] = items[j]
        BY <1>1, <4>1 DEF DeclaredIn
      <4>3. j \in 1..(k + 1)
        BY <1>1
      <4>. QED BY <4>1, <4>2, <4>3
    <3>. QED BY <3>1, <3>2
  <2>3. ASSUME NEW j \in 1..(k + 1), items[j].declares
        PROVE  \E i \in DOMAIN E : E[i] = items[j]
    <3>1. CASE j = k + 1
      BY <1>1, <2>1, <3>1
    <3>2. CASE j # k + 1
      <4>1. PICK i \in DOMAIN D : D[i] = items[j]
        BY <1>1, <2>3, <3>2 DEF DeclaredIn
      <4>. QED BY <2>1, <4>1
    <3>. QED BY <3>1, <3>2
  <2>4. ASSUME NEW i \in DOMAIN D
        PROVE  D[i].prefix # x.prefix
    <3>1. PICK j \in 1..k : items[j].declares /\ D[i] = items[j]
      BY <1>1, <2>4 DEF DeclaredIn
    <3>2. j \in 1..m /\ j # k + 1
      BY <1>1
    <3>. QED BY <1>1, <1>3, <1>6, <3>1, <3>2
  <2>5. ASSUME NEW i \in DOMAIN E, NEW j \in DOMAIN E,
               E[i].prefix = E[j].prefix
        PROVE  i = j
    <3>1. CASE i \in DOMAIN D /\ j \in DOMAIN D
      BY <1>1, <2>1, <2>5, <3>1 DEF DeclaredIn
    <3>2. CASE ~ (i \in DOMAIN D /\ j \in DOMAIN D)
      BY <2>1, <2>4, <2>5, <3>2
    <3>. QED BY <3>1, <3>2
  <2>. QED BY <2>1, <2>2, <2>3, <2>5 DEF DeclaredIn, items
<1>7. CASE ~x.declares
  <2>1. E = D
    BY <1>5, <1>7
  <2>2. \A j \in 1..(k + 1) : items[j].declares => j \in 1..k
    BY <1>1, <1>7
  <2>3. \A j \in 1..k : j \in 1..(k + 1)
    BY <1>1
  <2>4. \A i \in DOMAIN D : \E j \in 1..(k + 1) : items[j].declares /\ D[i] = items[j]
    BY <1>1, <2>3 DEF DeclaredIn
  <2>5. \A j \in 1..(k + 1) : items[j].declares => \E i \in DOMAIN D : D[i] = items[j]
    BY <1>1, <2>2 DEF DeclaredIn
  <2>. QED BY <1>2, <2>1, <2>4, <2>5, <1>1 DEF DeclaredIn, items
<1>. QED BY <1>6, <1>7 DEF items

(* Declarations of a beginning are the declarations in it. *)
LEMMA FirstDeclarations ==
  ASSUME NEW tag \in StartTags, NEW n \in 0..Len(tag.items)
  PROVE  DeclaredIn(Declarations(SubSeq(tag.items, 1, n)), tag.items, n)
<1>. DEFINE items == tag.items
            m     == Len(items)
            D(k)  == Declarations(SubSeq(items, 1, k))
            T     == {k \in Nat : k <= m => DeclaredIn(D(k), items, k)}
<1>1. /\ items \in Seq(Items) /\ m \in Nat /\ DOMAIN items = 1..m
      /\ \A i \in 1..m : items[i] \in Items
  BY TagItems, LenProperties
<1>2. \A i, j \in 1..m : items[i].declares /\ items[j].declares
                           /\ items[i].prefix = items[j].prefix => i = j
  BY <1>1, TagsAssumption
<1>3. 0 \in T
  <2>1. SubSeq(items, 1, 0) = <<>>
    BY SubSeqEmpty
  <2>2. IsLeftFold(Declarations(<<>>), <<>>, <<>>, Kept, Seq(Items))
    BY DeclarationsFold, EmptySeq
  <2>3. Declarations(<<>>) = <<>>
    BY <2>2, LeftFoldOfEmpty
  <2>4. DeclaredIn(<<>>, items, 0)
    <3>1. DOMAIN <<>> = {} /\ <<>> \in Seq(Items) /\ 1..0 = {}
      BY EmptySeq
    <3>. QED BY <3>1 DEF DeclaredIn
  <2>. QED BY <2>1, <2>3, <2>4
<1>4. ASSUME NEW k \in T
      PROVE  k + 1 \in T
  <2>. SUFFICES ASSUME k + 1 <= m
                PROVE  DeclaredIn(D(k + 1), items, k + 1)
    OBVIOUS
  <2>1. k \in 0..(m - 1) /\ k \in 0..m /\ DeclaredIn(D(k), items, k) /\ k + 1 \in 1..m
    BY <1>1
  <2>. DEFINE s == SubSeq(items, 1, k)
              x == items[k + 1]
  <2>2. SubSeq(items, 1, k + 1) = Append(s, x) /\ s \in Seq(Items) /\ x \in Items
    BY <1>1, <2>1, Longer, Shortened
  <2>3. /\ IsLeftFold(D(k), s, <<>>, Kept, Seq(Items))
        /\ IsLeftFold(D(k + 1), Append(s, x), <<>>, Kept, Seq(Items))
    BY <2>2, AppendProperties, DeclarationsFold
  <2>4. D(k + 1) = Kept[<<D(k), x>>] /\ D(k) \in Seq(Items)
    <3>. HIDE DEF s, x, D
    <3>. QED BY <2>2, <2>3, LeftFoldOfAppend
  <2>. HIDE DEF D, T, s
  <2>5. D(k + 1) = IF x.declares THEN Append(D(k), x) ELSE D(k)
    BY <2>2, <2>4 DEF Kept
  <2>6. DeclaredIn(D(k + 1), items, k + 1)
    <3>. HIDE DEF items, x
    <3>1. \A E, d : E = (IF x.declares THEN Append(d, x) ELSE d) /\ DeclaredIn(d, items, k)
                       => DeclaredIn(E, items, k + 1)
      BY <2>1, OneMoreItem DEF items, x
    <3>. QED BY <2>1, <2>5, <3>1
  <2>. QED BY <2>6
<1>5. T = Nat
  <2>1. T \in SUBSET Nat
    OBVIOUS
  <2>. HIDE DEF T
  <2>. QED BY <2>1, <1>3, <1>4, Induction
<1>6. n \in T /\ n <= m
  BY <1>1, <1>5
<1>. HIDE DEF D
<1>7. DeclaredIn(D(n), items, n)
  BY <1>6
<1>. QED BY <1>7 DEF D

(* The declarations of a tag, once more as a whole *)
LEMMA TagDeclarations ==
  ASSUME NEW tag \in StartTags
  PROVE  DeclaredIn(Declarations(tag.items), tag.items, Len(tag.items))
<1>. DEFINE n == Len(tag.items)
<1>1. tag.items \in Seq(Items) /\ n \in Nat
  BY TagItems, LenProperties
<1>2. /\ SubSeq(tag.items, 1, n) \in Seq(Items) /\ Len(SubSeq(tag.items, 1, n)) = n
      /\ \A i \in 1..n : SubSeq(tag.items, 1, n)[i] = tag.items[i]
  <2>1. n \in 0..n
    BY <1>1
  <2>. QED BY <1>1, <2>1, Shortened
<1>3. SubSeq(tag.items, 1, n) = tag.items
  BY <1>1, <1>2, SeqEqual
<1>4. n \in 0..n
  BY <1>1
<1>. QED BY <1>3, <1>4, FirstDeclarations

-----------------------------------------------------------------------------
(* The automaton that reads the events *)

Readers ==
  [elements : Seq([e : Elements, maps : SUBSET Mappings]),
   announced : SUBSET Mappings, ending : SUBSET Mappings, ok : BOOLEAN]

Quiet(s) == s.ending = {} /\ s.announced = {}

(* What the reader makes of an event that opens and ends nothing *)
LEMMA StepPlain ==
  ASSUME NEW s \in Readers, NEW e \in PlainEvents \cup {Event("end_document")}
  PROVE  /\ Step(s, e) \in Readers
         /\ e \in PlainEvents /\ Quiet(s) => Step(s, e) = s
         /\ e = Event("end_document") /\ Quiet(s) /\ s.ok /\ s.elements = <<>> => Step(s, e).ok
<1>1. e.event \in PlainKinds \cup {"characters", "comment", "end_document"}
      /\ (e \in PlainEvents => e.event # "end_document")
  BY DEF PlainEvents, Event, Characters, PlainKinds
<1>2. /\ e.event # "start_prefix_mapping" /\ e.event # "start_element"
      /\ e.event # "end_element" /\ e.event # "end_prefix_mapping"
  BY <1>1 DEF PlainKinds
<1>3. CASE e.event = "end_document"
  <2>1. Step(s, e) = [s EXCEPT !.ok = @ /\ Quiet(s) /\ s.elements = <<>>]
    BY <1>2, <1>3 DEF Step, Quiet
  <2>. QED BY <1>1, <1>3, <2>1 DEF Readers
<1>4. CASE e.event = "fatal_error"
  <2>1. Step(s, e) = s
    BY <1>2, <1>4 DEF Step
  <2>. QED BY <1>4, <2>1 DEF Event
<1>5. CASE e.event # "end_document" /\ e.event # "fatal_error"
  <2>1. Step(s, e) = [s EXCEPT !.ok = @ /\ Quiet(s) /\ e.event # "end_element"]
    BY <1>2, <1>5 DEF Step, Quiet
  <2>2. Quiet(s) => Step(s, e) = s
    BY <1>2, <2>1 DEF Readers
  <2>. QED BY <1>5, <2>1, <2>2 DEF Event, Readers
<1>. QED BY <1>3, <1>4, <1>5

(* What it makes of the announcement of a prefix *)
LEMMA StepStartMapping ==
  ASSUME NEW s \in Readers, NEW d \in Items, NEW e, e = Mapping("start_prefix_mapping", d)
  PROVE  /\ Step(s, e) \in Readers
         /\ s.ok /\ s.ending = {} /\ Mapped(d) \notin s.announced =>
              Step(s, e) = [s EXCEPT !.announced = @ \cup {Mapped(d)}]
<1>1. e.event = "start_prefix_mapping" /\ e.prefix = d.prefix /\ e.uri = d.uri
  BY DEF Mapping
<1>2. Step(s, e) = [s EXCEPT !.announced = @ \cup {Mapped(d)},
                             !.ok = @ /\ s.ending = {} /\ Mapped(d) \notin s.announced]
  BY <1>1 DEF Step, Mapped
<1>3. Mapped(d) \in Mappings
  BY DEF Mappings
<1>4. Step(s, e) \in Readers
  BY <1>2, <1>3 DEF Readers
<1>. QED BY <1>2, <1>4 DEF Readers

(* What it makes of the end of a prefix *)
LEMMA StepEndMapping ==
  ASSUME NEW s \in Readers, NEW d \in Items, NEW e, e = Mapping("end_prefix_mapping", d)
  PROVE  /\ Step(s, e) \in Readers
         /\ s.ok /\ Mapped(d) \in s.ending => Step(s, e) = [s EXCEPT !.ending = @ \ {Mapped(d)}]
<1>1. e.event = "end_prefix_mapping" /\ e.prefix = d.prefix /\ e.uri = d.uri
  BY DEF Mapping
<1>2. Step(s, e) = [s EXCEPT !.ending = @ \ {Mapped(d)}, !.ok = @ /\ Mapped(d) \in s.ending]
  BY <1>1 DEF Step, Mapped
<1>3. Step(s, e) \in Readers
  BY <1>2 DEF Readers
<1>. QED BY <1>2, <1>3 DEF Readers

(* What the automaton has read after a start tag and after an end tag *)
Begun(s, element) ==
  [s EXCEPT !.announced = {}, !.elements = Append(@, [e |-> element, maps |-> s.announced])]

Finished(s) == [s EXCEPT !.elements = Front(@), !.ending = Last(s.elements).maps]

(* What it makes of the start of an element *)
LEMMA StepStart ==
  ASSUME NEW s \in Readers, NEW stack \in Stacks, NEW tag \in StartTags,
         NEW e, e = StartTag(stack, tag)
  PROVE  /\ Step(s, e) \in Readers
         /\ s.ok /\ s.ending = {} => Step(s, e) = Begun(s, GenElement(stack, tag))
<1>. DEFINE new == [e |-> GenElement(stack, tag), maps |-> s.announced]
<1>1. e.event = "start_element" /\ e.element = GenElement(stack, tag)
  BY DEF StartTag
<1>2. Step(s, e) = [s EXCEPT !.elements = Append(@, new), !.announced = {},
                             !.ok = @ /\ s.ending = {}]
  BY <1>1 DEF Step
<1>3. GenElement(stack, tag) \in Elements
  BY DEF Elements
<1>4. Append(s.elements, new) \in Seq([e : Elements, maps : SUBSET Mappings])
  BY <1>3, AppendProperties DEF Readers
<1>5. Step(s, e) \in Readers
  BY <1>2, <1>4 DEF Readers
<1>. HIDE DEF new
<1>6. s.ok /\ s.ending = {} => Step(s, e) = [s EXCEPT !.announced = {}, !.elements = Append(@, new)]
  BY <1>2 DEF Readers
<1>. QED BY <1>5, <1>6 DEF new, Begun

(* What it makes of the end of an element *)
LEMMA StepEnd ==
  ASSUME NEW s \in Readers, NEW stack \in Stacks, NEW tag \in StartTags,
         NEW e, e = EndTag(stack, tag)
  PROVE  /\ Step(s, e) \in Readers
         /\ s.ok /\ Quiet(s) /\ s.elements # <<>> /\ Last(s.elements).e = GenElement(stack, tag) =>
              Step(s, e) = Finished(s)
<1>1. e.event = "end_element" /\ e.element = GenElement(stack, tag)
  BY DEF EndTag
<1>2. CASE s.elements = <<>>
  <2>1. Step(s, e) = [s EXCEPT !.ok = @ /\ Quiet(s) /\ e.event # "end_element"]
    BY <1>1, <1>2 DEF Step, Quiet
  <2>. QED BY <1>2, <2>1 DEF Readers
<1>3. CASE s.elements # <<>>
  <2>1. Step(s, e) = [s EXCEPT !.elements = Front(@), !.ending = Last(s.elements).maps,
                               !.ok = @ /\ Quiet(s) /\ Last(s.elements).e = e.element]
    BY <1>1, <1>3 DEF Step, Quiet
  <2>2. /\ Front(s.elements) \in Seq([e : Elements, maps : SUBSET Mappings])
        /\ Last(s.elements) \in [e : Elements, maps : SUBSET Mappings]
    BY <1>3, FrontOf DEF Readers
  <2>3. Step(s, e) \in Readers
    BY <2>1, <2>2 DEF Readers
  <2>. QED BY <1>1, <2>1, <2>3 DEF Readers, Finished
<1>. QED BY <1>2, <1>3

(* The reader stays a reader. *)
LEMMA StepType ==
  ASSUME NEW s \in Readers, NEW e \in Events
  PROVE  Step(s, e) \in Readers
<1>1. CASE e \in PlainEvents \cup {Event("end_document")}
  BY <1>1, StepPlain
<1>2. CASE e \in MappingEvents
  BY <1>2, StepStartMapping, StepEndMapping DEF MappingEvents
<1>3. CASE e \in TagEvents
  <2>1. CASE \E stack \in Stacks, tag \in StartTags : e = StartTag(stack, tag)
    <3>1. PICK stack \in Stacks, tag \in StartTags : e = StartTag(stack, tag)
      BY <2>1
    <3>. QED BY <3>1, StepStart
  <2>2. CASE \E stack \in Stacks, tag \in StartTags : e = EndTag(stack, tag)
    <3>1. PICK stack \in Stacks, tag \in StartTags : e = EndTag(stack, tag)
      BY <2>2
    <3>. QED BY <3>1, StepEnd
  <2>. QED BY <1>3, <2>1, <2>2 DEF TagEvents
<1>. QED BY <1>1, <1>2, <1>3 DEF Events

ReaderOf(events) == FoldLeft(Step, Reading, events)

Stepped == [a \in Readers \X Events |-> Step(a[1], a[2])]

(* ReaderOf is a left fold. *)
LEMMA ReaderFold ==
  ASSUME NEW s \in Seq(Events)
  PROVE  IsLeftFold(ReaderOf(s), s, Reading, Stepped, Readers)
<1>. DEFINE S == DOMAIN s
            Rec(iter) == iter = [T \in SUBSET S |->
                           IF T = {} THEN Reading
                           ELSE Step(iter[T \ {Max(T)}], s[Max(T)])]
            fold == CHOOSE iter : Rec(iter)
<1>1. ReaderOf(s) = fold[S]
  BY DEF ReaderOf, FoldLeft, MapThenFoldSet
<1>2. Stepped \in [Readers \X Events -> Readers]
  BY StepType DEF Stepped
<1>3. Reading \in Readers
  BY EmptySeq DEF Reading, Readers
<1>4. PICK g \in [SUBSET S -> Readers] : LeftFolds(g, s, Reading, Stepped)
  BY <1>2, <1>3, LeftFoldExists
<1>5. \A T \in SUBSET S : T # {} => s[Max(T)] \in Events
  <2>1. S = 1..Len(s) /\ Len(s) \in Nat /\ \A i \in S : s[i] \in Events
    BY LenProperties, ElementOfSeq
  <2>. HIDE DEF S
  <2>. QED BY <2>1, Largest
<1>6. Rec(g)
  <2>1. ASSUME NEW T \in SUBSET S, T # {}
        PROVE  g[T] = Step(g[T \ {Max(T)}], s[Max(T)])
    <3>1. g[T] = Stepped[<<g[T \ {Max(T)}], s[Max(T)]>>]
      BY <1>4, <2>1 DEF LeftFolds
    <3>2. g[T \ {Max(T)}] \in Readers /\ s[Max(T)] \in Events
      BY <1>5, <2>1
    <3>. QED BY <3>1, <3>2 DEF Stepped
  <2>2. g[{}] = Reading
    BY <1>4 DEF LeftFolds
  <2>. QED BY <2>1, <2>2
<1>7. Rec(fold)
  <2>. HIDE DEF Rec
  <2>. QED BY <1>6
<1>. HIDE DEF fold
<1>8. ASSUME NEW T \in SUBSET S, T # {}, fold[T \ {Max(T)}] \in Readers
      PROVE  fold[T] = Stepped[<<fold[T \ {Max(T)}], s[Max(T)]>>]
  <2>1. fold[T] = Step(fold[T \ {Max(T)}], s[Max(T)])
    BY <1>7, <1>8
  <2>. QED BY <2>1, <1>5, <1>8 DEF Stepped
<1>9. fold[{}] = Reading
  BY <1>7
<1>. HIDE DEF Rec
<1>10. LeftFoldsWithin(fold, s, Reading, Stepped, Readers)
  BY <1>8, <1>9 DEF LeftFoldsWithin
<1>11. IsLeftFold(fold[DOMAIN s], s, Reading, Stepped, Readers)
  BY <1>2, <1>3, <1>10, LeftFoldIs
<1>. QED BY <1>1, <1>11

(* The automaton takes one step for each event that is added. *)
LEMMA ReaderSteps ==
  ASSUME NEW s \in Seq(Events), NEW e \in Events
  PROVE  /\ ReaderOf(s) \in Readers /\ ReaderOf(Append(s, e)) = Step(ReaderOf(s), e)
         /\ ReaderOf(<<>>) = Reading
<1>1. Append(s, e) \in Seq(Events) /\ <<>> \in Seq(Events)
  BY AppendProperties, EmptySeq
<1>2. /\ IsLeftFold(ReaderOf(s), s, Reading, Stepped, Readers)
      /\ IsLeftFold(ReaderOf(Append(s, e)), Append(s, e), Reading, Stepped, Readers)
      /\ IsLeftFold(ReaderOf(<<>>), <<>>, Reading, Stepped, Readers)
  BY <1>1, ReaderFold
<1>3. /\ ReaderOf(s) \in Readers
      /\ ReaderOf(Append(s, e)) = Stepped[<<ReaderOf(s), e>>]
      /\ ReaderOf(<<>>) = Reading
  BY <1>2, LeftFoldOfAppend, LeftFoldOfEmpty
<1>. QED BY <1>3 DEF Stepped
-----------------------------------------------------------------------------
(* The invariant: what the stack, the rest of the running callback and the *)
(* events say of the same elements                                         *)

MappingsOf(defs) == {Mapped(defs[i]) : i \in DOMAIN defs}

(* The lowest frames of the stack hold the declarations of the elements    *)
(* tags, and the automaton has read just their start tags.                 *)
Reflects(r, stack, tags) ==
  /\ Len(stack) > Len(tags)
  /\ stack[1] = Bottom
  /\ \A k \in DOMAIN tags : stack[k + 1].defs = Declarations(tags[k].items)
  /\ Len(r.elements) = Len(tags)
  /\ \A k \in DOMAIN tags :
       r.elements[k] = [e    |-> GenElement(SubSeq(stack, 1, k + 1), tags[k]),
                        maps |-> MappingsOf(stack[k + 1].defs)]

(* What is left of PSaxStartElement when j of the declarations defs are     *)
(* announced, and of PSaxEndElement when j of the mappings are ended        *)
StartRest(tag, defs, j) ==
  [i \in 1..(Len(defs) - j + 1) |->
     IF i <= Len(defs) - j THEN DeclareIt(tag, defs[j + i]) ELSE Doing("start_element", tag)]

EndRest(defs, j) ==
  [i \in 1..(Len(defs) - j + 1) |->
     IF i <= Len(defs) - j THEN Do(Mapping("end_prefix_mapping", defs[j + i])) ELSE NarrowIt]

Before(x, program)  == <<x>> \o program
StartAll(tag, defs) == Before(Doing("extend", tag), StartRest(tag, defs, 0))
EndAll(tag, defs)   == Before(Doing("end_element", tag), EndRest(defs, 0))

(* Either nothing that is left of the running callback, program, concerns  *)
(* elements or mappings,                                                   *)
Plain(x) == x = FlushIt \/ \E e \in PlainEvents : x = Do(e)

InPlain(r, stack, tags, read, program) ==
  /\ \A i \in DOMAIN program : Plain(program[i])
  /\ program # <<>> => read # <<>> /\ Last(read).event # "start"
  /\ Len(stack) = Len(tags) + 1
  /\ Reflects(r, stack, tags)
  /\ Quiet(r)

(* or it is PSaxStartElement, before it pushes a frame                     *)
InStart(r, stack, tags, program) ==
  /\ tags # <<>>
  /\ LET tag == Last(tags)
         all == StartAll(tag, Declarations(tag.items))
     IN  program = all \/ program = Before(FlushIt, all)
  /\ Len(stack) = Len(tags)
  /\ Reflects(r, stack, Front(tags))
  /\ Quiet(r)

(* or with a frame that has j declarations of the element so far,          *)
InDeclarations(r, stack, tags, program, j) ==
  /\ tags # <<>>
  /\ LET tag  == Last(tags)
         defs == Declarations(tag.items)
     IN  /\ j \in 0..Len(defs)
         /\ program = StartRest(tag, defs, j)
         /\ Last(stack).defs = SubSeq(defs, 1, j)
         /\ Last(stack).bound <=> tag.prefix # NULL /\ GetNsMapping(stack, tag.prefix) # NULL
  /\ Len(stack) = Len(tags) + 1
  /\ Reflects(r, stack, Front(tags))
  /\ r.announced = MappingsOf(Last(stack).defs)
  /\ r.ending = {}

(* or PSaxEndElement, before it calls the method                           *)
InEnd(r, stack, tags, read, program) ==
  /\ read # <<>> /\ Last(read).event = "end" /\ Last(read).tag \in StartTags
  /\ LET tag == Last(read).tag
         all == EndAll(tag, Declarations(tag.items))
     IN  /\ program = all \/ program = Before(FlushIt, all)
         /\ Reflects(r, stack, Append(tags, tag))
  /\ Len(stack) = Len(tags) + 2
  /\ Quiet(r)

(* or after it and after the ends of j mappings.                           *)
InMappings(r, stack, tags, read, program, j) ==
  /\ read # <<>> /\ Last(read).event = "end" /\ Last(read).tag \in StartTags
  /\ LET defs == Declarations(Last(read).tag.items)
     IN  /\ j \in 0..Len(defs)
         /\ program = EndRest(defs, j)
         /\ r.ending = {Mapped(defs[i]) : i \in (j + 1)..Len(defs)}
  /\ Len(stack) = Len(tags) + 2
  /\ Reflects(r, stack, tags)
  /\ r.announced = {}

Somewhere(r, stack, tags, read, program) ==
  \/ InPlain(r, stack, tags, read, program)
  \/ InStart(r, stack, tags, program)
  \/ \E j \in Nat : InDeclarations(r, stack, tags, program, j)
  \/ InEnd(r, stack, tags, read, program)
  \/ \E j \in Nat : InMappings(r, stack, tags, read, program, j)

(* The bottom frame is never narrowed away. *)
Based == sax # NULL => sax.stack # <<>> /\ sax.stack[1] = Bottom

Streams ==
  /\ Based
  /\ ReaderOf(log).ok
  /\ status = "parsing" => Somewhere(ReaderOf(log), sax.stack, open, calls, todo)

-----------------------------------------------------------------------------
(* Programs *)

(* Putting an instruction before others *)
LEMMA PutBefore ==
  ASSUME NEW S, NEW x \in S, NEW s \in Seq(S)
  PROVE  /\ Before(x, s) \in Seq(S) /\ Before(x, s) # <<>>
         /\ Head(Before(x, s)) = x /\ Tail(Before(x, s)) = s
         /\ Len(Before(x, s)) = Len(s) + 1
<1>. DEFINE t == <<x>> \o s
<1>1. <<x>> \in Seq(S) /\ Len(<<x>>) = 1 /\ <<x>>[1] = x
  OBVIOUS
<1>2. /\ t \in Seq(S) /\ Len(t) = 1 + Len(s) /\ Len(s) \in Nat
      /\ \A i \in 1..(1 + Len(s)) : t[i] = IF i <= 1 THEN <<x>>[i] ELSE s[i - 1]
  BY <1>1, ConcatProperties, LenProperties
<1>. HIDE DEF t
<1>3. t # <<>> /\ t[1] = x
  BY <1>1, <1>2, EmptySeq
<1>4. /\ Head(t) = t[1] /\ Tail(t) \in Seq(S) /\ Len(Tail(t)) = Len(s)
      /\ \A i \in 1..Len(s) : Tail(t)[i] = t[i + 1]
  BY <1>2, <1>3, TailOf
<1>5. ASSUME NEW i \in 1..Len(s)
      PROVE  Tail(t)[i] = s[i]
  <2>1. i \in Nat /\ i >= 1 /\ i + 1 \in 1..(1 + Len(s)) /\ ~ (i + 1 <= 1) /\ (i + 1) - 1 = i
    BY <1>2
  <2>2. t[i + 1] = s[i]
    BY <1>2, <2>1
  <2>. QED BY <1>4, <2>2
<1>6. Tail(t) = s
  BY <1>4, <1>5, SeqEqual
<1>. QED BY <1>2, <1>3, <1>4, <1>6 DEF t, Before

(* One instruction before and one after those for the declarations *)
LEMMA FunctionSeq ==
  ASSUME NEW S, NEW n \in Nat, NEW f \in [1..n -> S]
  PROVE  f \in Seq(S) /\ Len(f) = n
OBVIOUS

(* A sequence between two others, written with Before *)
LEMMA Around ==
  ASSUME NEW S, NEW first \in S, NEW last \in S, NEW mid \in Seq(S), NEW rest \in Seq(S),
         Len(rest) = Len(mid) + 1, \A i \in 1..Len(mid) : rest[i] = mid[i],
         rest[Len(mid) + 1] = last
  PROVE  <<first>> \o mid \o <<last>> = Before(first, rest)
<1>1. /\ <<first>> \in Seq(S) /\ Len(<<first>>) = 1 /\ <<first>>[1] = first
      /\ <<last>> \in Seq(S) /\ Len(<<last>>) = 1 /\ <<last>>[1] = last
      /\ Len(mid) \in Nat
  BY LenProperties
<1>2. /\ mid \o <<last>> \in Seq(S) /\ Len(mid \o <<last>>) = Len(mid) + 1
      /\ \A i \in 1..(Len(mid) + 1) :
           (mid \o <<last>>)[i] = IF i <= Len(mid) THEN mid[i] ELSE <<last>>[i - Len(mid)]
  BY <1>1, ConcatProperties
<1>3. \A i \in 1..(Len(mid) + 1) : (mid \o <<last>>)[i] = rest[i]
  BY <1>1, <1>2
<1>4. mid \o <<last>> = rest
  BY <1>2, <1>3, SeqEqual
<1>. DEFINE f == <<first>>
            l == <<last>>
<1>5. f \in Seq(S) /\ l \in Seq(S) /\ mid \o l = rest
  BY <1>1, <1>4
<1>. HIDE DEF f, l
<1>6. f \in Seq(S) /\ mid \in Seq(S) /\ l \in Seq(S)
  BY <1>5
<1>7. (f \o mid) \o l = f \o (mid \o l)
  <2>1. \A T : \A a, b, c \in Seq(T) : (a \o b) \o c = a \o (b \o c)
    BY ConcatAssociative, Zenon
  <2>. QED BY <1>6, <2>1
<1>8. (f \o mid) \o l = f \o rest
  BY <1>5, <1>7
<1>. QED BY <1>8, Zenon DEF f, l, Before

(* What instructions are about *)
LEMMA Parts ==
  ASSUME NEW x \in Instructions
  PROVE  /\ x.do = "call" => x.e \in PlainEvents \cup MappingEvents
         /\ x.do \in {"extend", "start_element", "end_element", "declare"} => x.tag \in StartTags
         /\ x.do = "declare" => x.item \in Items
BY DEF Instructions, FlushIt, NarrowIt, Do, Doing, DeclareIt

(* The program of a start tag, after its first declarations *)
LEMMA StartInstructions ==
  ASSUME NEW tag \in StartTags, NEW defs \in Seq(Items), NEW j \in 0..Len(defs)
  PROVE  /\ StartRest(tag, defs, j) \in Seq(Instructions) /\ StartRest(tag, defs, j) # <<>>
         /\ Len(StartRest(tag, defs, j)) = Len(defs) - j + 1
         /\ Head(StartRest(tag, defs, j)) =
              IF j < Len(defs) THEN DeclareIt(tag, defs[j + 1]) ELSE Doing("start_element", tag)
         /\ j = Len(defs) => Tail(StartRest(tag, defs, j)) = <<>>
<1>. DEFINE n    == Len(defs)
            m    == n - j
            rest == StartRest(tag, defs, j)
            last == Doing("start_element", tag)
<1>1. last \in Instructions
  BY DEF Instructions
<1>2. n \in Nat /\ m \in Nat /\ m + 1 \in Nat /\ \A i \in 1..n : defs[i] \in Items
  BY LenProperties, ElementOfSeq
<1>3. /\ DOMAIN rest = 1..(m + 1)
      /\ rest = [i \in 1..(m + 1) |-> IF i <= m THEN DeclareIt(tag, defs[j + i]) ELSE last]
  BY <1>2 DEF StartRest
<1>4. ASSUME NEW i \in 1..m
      PROVE  DeclareIt(tag, defs[j + i]) \in Instructions
  <2>1. j + i \in 1..n
    BY <1>2
  <2>. QED BY <1>2, <2>1 DEF Instructions
<1>. HIDE DEF rest, last
<1>5. rest \in [1..(m + 1) -> Instructions]
  <2>. HIDE DEF m
  <2>1. \A i \in 1..(m + 1) : i <= m => i \in 1..m
    BY <1>2
  <2>2. \A i \in 1..(m + 1) :
          (IF i <= m THEN DeclareIt(tag, defs[j + i]) ELSE last) \in Instructions
    BY <1>1, <1>4, <2>1
  <2>. QED BY <1>3, <2>2
<1>6. rest[1] = IF j < n THEN DeclareIt(tag, defs[j + 1]) ELSE last
  BY <1>2, <1>3
<1>. HIDE DEF m
<1>7. rest \in Seq(Instructions) /\ Len(rest) = m + 1
  BY <1>2, <1>5, FunctionSeq
<1>8. rest # <<>>
  BY <1>2, <1>7, EmptySeq
<1>9. Head(rest) = rest[1] /\ Tail(rest) \in Seq(Instructions) /\ Len(Tail(rest)) = m
  BY <1>2, <1>7, <1>8, TailOf
<1>10. m = 0 => Tail(rest) = <<>>
  BY <1>9, EmptySeq
<1>. QED BY <1>2, <1>6, <1>7, <1>8, <1>9, <1>10 DEF rest, last, m

(* Going on from one declaration to the next *)
LEMMA StartAdvances ==
  ASSUME NEW tag \in StartTags, NEW defs \in Seq(Items), NEW j \in 0..(Len(defs) - 1)
  PROVE  Tail(StartRest(tag, defs, j)) = StartRest(tag, defs, j + 1)
<1>. DEFINE n == Len(defs)
            r == StartRest(tag, defs, j)
            t == StartRest(tag, defs, j + 1)
<1>1. n \in Nat /\ j \in 0..n /\ j + 1 \in 0..n /\ n - (j + 1) + 1 = n - j
  BY LenProperties
<1>2. /\ r \in Seq(Instructions) /\ r # <<>> /\ Len(r) = n - j + 1
      /\ t \in Seq(Instructions) /\ Len(t) = n - j
  BY <1>1, StartInstructions
<1>3. \A i \in 1..(n - j) : r[i + 1] = t[i]
  BY <1>1 DEF StartRest
<1>. HIDE DEF r, t
<1>4. Tail(r) \in Seq(Instructions) /\ Len(Tail(r)) = n - j /\ \A i \in 1..(n - j) : Tail(r)[i] = t[i]
  BY <1>1, <1>2, <1>3, TailOf
<1>5. Tail(r) = t
  BY <1>2, <1>4, SeqEqual
<1>. QED BY <1>5 DEF r, t

(* The program of an end tag, after its first mappings *)
LEMMA EndInstructions ==
  ASSUME NEW defs \in Seq(Items), NEW j \in 0..Len(defs)
  PROVE  /\ EndRest(defs, j) \in Seq(Instructions) /\ EndRest(defs, j) # <<>>
         /\ Len(EndRest(defs, j)) = Len(defs) - j + 1
         /\ Head(EndRest(defs, j)) =
              IF j < Len(defs) THEN Do(Mapping("end_prefix_mapping", defs[j + 1])) ELSE NarrowIt
         /\ j = Len(defs) => Tail(EndRest(defs, j)) = <<>>
<1>. DEFINE n    == Len(defs)
            m    == n - j
            rest == EndRest(defs, j)
<1>1. NarrowIt \in Instructions
  BY DEF Instructions
<1>2. n \in Nat /\ m \in Nat /\ m + 1 \in Nat /\ \A i \in 1..n : defs[i] \in Items
  BY LenProperties, ElementOfSeq
<1>3. /\ DOMAIN rest = 1..(m + 1)
      /\ rest = [i \in 1..(m + 1) |->
                   IF i <= m THEN Do(Mapping("end_prefix_mapping", defs[j + i])) ELSE NarrowIt]
  BY <1>2 DEF EndRest
<1>4. ASSUME NEW i \in 1..m
      PROVE  Do(Mapping("end_prefix_mapping", defs[j + i])) \in Instructions
  <2>1. j + i \in 1..n
    BY <1>2
  <2>. QED BY <1>2, <2>1 DEF Instructions, MappingEvents
<1>. HIDE DEF rest
<1>5. rest \in [1..(m + 1) -> Instructions]
  <2>. HIDE DEF m
  <2>1. \A i \in 1..(m + 1) : i <= m => i \in 1..m
    BY <1>2
  <2>2. \A i \in 1..(m + 1) :
          (IF i <= m THEN Do(Mapping("end_prefix_mapping", defs[j + i])) ELSE NarrowIt) \in Instructions
    BY <1>1, <1>4, <2>1
  <2>. QED BY <1>3, <2>2
<1>6. rest[1] = IF j < n THEN Do(Mapping("end_prefix_mapping", defs[j + 1])) ELSE NarrowIt
  BY <1>2, <1>3
<1>. HIDE DEF m
<1>7. rest \in Seq(Instructions) /\ Len(rest) = m + 1
  BY <1>2, <1>5, FunctionSeq
<1>8. rest # <<>>
  BY <1>2, <1>7, EmptySeq
<1>9. Head(rest) = rest[1] /\ Tail(rest) \in Seq(Instructions) /\ Len(Tail(rest)) = m
  BY <1>2, <1>7, <1>8, TailOf
<1>10. m = 0 => Tail(rest) = <<>>
  BY <1>9, EmptySeq
<1>. QED BY <1>2, <1>6, <1>7, <1>8, <1>9, <1>10 DEF rest, m

(* Its next instruction *)
LEMMA EndAdvances ==
  ASSUME NEW defs \in Seq(Items), NEW j \in 0..(Len(defs) - 1)
  PROVE  Tail(EndRest(defs, j)) = EndRest(defs, j + 1)
<1>. DEFINE n == Len(defs)
            r == EndRest(defs, j)
            t == EndRest(defs, j + 1)
<1>1. n \in Nat /\ j \in 0..n /\ j + 1 \in 0..n /\ n - (j + 1) + 1 = n - j
  BY LenProperties
<1>2. /\ r \in Seq(Instructions) /\ r # <<>> /\ Len(r) = n - j + 1
      /\ t \in Seq(Instructions) /\ Len(t) = n - j
  BY <1>1, EndInstructions
<1>3. \A i \in 1..(n - j) : r[i + 1] = t[i]
  BY <1>1 DEF EndRest
<1>. HIDE DEF r, t
<1>4. Tail(r) \in Seq(Instructions) /\ Len(Tail(r)) = n - j /\ \A i \in 1..(n - j) : Tail(r)[i] = t[i]
  BY <1>1, <1>2, <1>3, TailOf
<1>5. Tail(r) = t
  BY <1>2, <1>4, SeqEqual
<1>. QED BY <1>5 DEF r, t

(* The programs of the two callbacks *)
LEMMA StartPrograms ==
  ASSUME NEW tag \in StartTags, NEW defs \in Seq(Items)
  PROVE  /\ <<Doing("extend", tag)>>
            \o [i \in DOMAIN defs |-> [do |-> "declare", tag |-> tag, item |-> defs[i]]]
            \o <<Doing("start_element", tag)>> = StartAll(tag, defs)
         /\ StartAll(tag, defs) \in Seq(Instructions) /\ StartAll(tag, defs) # <<>>
         /\ Head(StartAll(tag, defs)) = Doing("extend", tag)
         /\ Tail(StartAll(tag, defs)) = StartRest(tag, defs, 0)
<1>. DEFINE n     == Len(defs)
            mid   == [i \in DOMAIN defs |-> [do |-> "declare", tag |-> tag, item |-> defs[i]]]
            rest  == StartRest(tag, defs, 0)
            first == Doing("extend", tag)
            last  == Doing("start_element", tag)
<1>1. first \in Instructions /\ last \in Instructions
  BY DEF Instructions
<1>2. n \in Nat /\ DOMAIN defs = 1..n /\ 0 \in 0..n /\ \A i \in 1..n : defs[i] \in Items
  BY LenProperties, ElementOfSeq
<1>3. rest \in Seq(Instructions) /\ Len(rest) = n + 1
  BY <1>2, StartInstructions
<1>4. mid \in [1..n -> Instructions]
  BY <1>2 DEF Instructions, DeclareIt
<1>5. \A i \in 1..n : rest[i] = mid[i]
  BY <1>2 DEF StartRest, DeclareIt
<1>6. rest[n + 1] = last
  BY <1>2 DEF StartRest
<1>. HIDE DEF mid, rest, first, last, n
<1>7. mid \in Seq(Instructions) /\ Len(mid) = n
  BY <1>2, <1>4, FunctionSeq
<1>8. <<first>> \o mid \o <<last>> = Before(first, rest)
  BY <1>1, <1>3, <1>5, <1>6, <1>7, Around
<1>9. /\ Before(first, rest) \in Seq(Instructions) /\ Before(first, rest) # <<>>
      /\ Head(Before(first, rest)) = first /\ Tail(Before(first, rest)) = rest
  BY <1>1, <1>3, PutBefore
<1>. QED BY <1>8, <1>9 DEF mid, rest, first, last, StartAll

(* The program that EndElement makes *)
LEMMA EndPrograms ==
  ASSUME NEW tag \in StartTags, NEW defs \in Seq(Items)
  PROVE  /\ <<Doing("end_element", tag)>>
            \o [i \in DOMAIN defs |-> Do(Mapping("end_prefix_mapping", defs[i]))]
            \o <<[do |-> "narrow"]>> = EndAll(tag, defs)
         /\ EndAll(tag, defs) \in Seq(Instructions) /\ EndAll(tag, defs) # <<>>
         /\ Head(EndAll(tag, defs)) = Doing("end_element", tag)
         /\ Tail(EndAll(tag, defs)) = EndRest(defs, 0)
<1>. DEFINE n     == Len(defs)
            mid   == [i \in DOMAIN defs |-> Do(Mapping("end_prefix_mapping", defs[i]))]
            rest  == EndRest(defs, 0)
            first == Doing("end_element", tag)
            last  == NarrowIt
<1>1. first \in Instructions /\ last \in Instructions
  BY DEF Instructions
<1>2. n \in Nat /\ DOMAIN defs = 1..n /\ 0 \in 0..n /\ \A i \in 1..n : defs[i] \in Items
  BY LenProperties, ElementOfSeq
<1>3. rest \in Seq(Instructions) /\ Len(rest) = n + 1
  BY <1>2, EndInstructions
<1>4. mid \in [1..n -> Instructions]
  BY <1>2 DEF Instructions, MappingEvents
<1>5. \A i \in 1..n : rest[i] = mid[i]
  BY <1>2 DEF EndRest
<1>6. rest[n + 1] = last
  BY <1>2 DEF EndRest
<1>. HIDE DEF mid, rest, first, last, n
<1>7. mid \in Seq(Instructions) /\ Len(mid) = n
  BY <1>2, <1>4, FunctionSeq
<1>8. <<first>> \o mid \o <<last>> = Before(first, rest)
  BY <1>1, <1>3, <1>5, <1>6, <1>7, Around
<1>9. /\ Before(first, rest) \in Seq(Instructions) /\ Before(first, rest) # <<>>
      /\ Head(Before(first, rest)) = first /\ Tail(Before(first, rest)) = rest
  BY <1>1, <1>3, PutBefore
<1>. QED BY <1>8, <1>9 DEF mid, rest, first, last, EndAll, NarrowIt

-----------------------------------------------------------------------------
(* Types *)

(* The stack keeps its type when namespaces are added, *)
LEMMA StackTypes ==
  ASSUME NEW stack \in Stacks, NEW tag \in StartTags
  PROVE  /\ ExtendNsStack(stack, tag) \in Stacks
         /\ \A item \in Items : AddNamespace(stack, tag, item) \in Stacks
<1>1. ExtendNsStack(stack, tag) \in Stacks
  <2>. DEFINE frame == [defs  |-> <<>>,
                        bound |-> tag.prefix # NULL /\ GetNsMapping(stack, tag.prefix) # NULL]
  <2>1. frame \in Frames
    BY EmptySeq DEF Frames
  <2>. HIDE DEF frame
  <2>2. Append(stack, frame) \in Stacks
    BY <2>1, AppendProperties DEF Stacks
  <2>. QED BY <2>2 DEF ExtendNsStack, frame
<1>2. ASSUME NEW item \in Items
      PROVE  AddNamespace(stack, tag, item) \in Stacks
  <2>. DEFINE n == Len(stack)
              frame == [defs  |-> Append(stack[n].defs, item),
                        bound |-> stack[n].bound \/ (tag.prefix # NULL /\ item.prefix = tag.prefix)]
  <2>1. n \in Nat /\ DOMAIN stack = 1..n /\ stack \in [1..n -> Frames]
    BY LenProperties DEF Stacks
  <2>2. AddNamespace(stack, tag, item) = [stack EXCEPT ![n] = frame]
    BY DEF AddNamespace
  <2>3. CASE n = 0
    <3>1. AddNamespace(stack, tag, item) = stack
      BY <2>1, <2>2, <2>3
    <3>. QED BY <3>1
  <2>4. CASE n # 0
    <3>1. stack[n] \in Frames /\ n \in 1..n
      BY <2>1, <2>4
    <3>2. Append(stack[n].defs, item) \in Seq(Items)
      BY <3>1, AppendProperties DEF Frames
    <3>3. frame \in Frames
      BY <3>1, <3>2 DEF Frames
    <3>. HIDE DEF frame
    <3>4. [stack EXCEPT ![n] = frame] \in [1..n -> Frames]
      BY <2>1, <3>1, <3>3
    <3>. QED BY <2>1, <2>2, <3>4, FunctionSeq DEF Stacks
  <2>. QED BY <2>1, <2>3, <2>4
<1>. QED BY <1>1, <1>2

(* and when an element ends. *)
LEMMA NarrowTypes ==
  ASSUME NEW stack \in Stacks
  PROVE  NarrowNsStack(stack) \in Stacks
<1>1. CASE stack = <<>>
  <2>1. Len(stack) = 0
    BY <1>1, EmptySeq
  <2>2. Front(stack) = <<>>
    BY <2>1, SubSeqEmpty DEF Front
  <2>. QED BY <2>2, EmptySeq DEF NarrowNsStack, Stacks
<1>2. CASE stack # <<>>
  BY <1>2, FrontOf DEF NarrowNsStack, Stacks
<1>. QED BY <1>1, <1>2

(* Sequences of two or three instructions and the like *)
LEMMA Flushing ==
  ASSUME NEW program \in Seq(Instructions)
  PROVE  /\ Flushed(program) \in Seq(Instructions)
         /\ Flushed(program) = program \/ Flushed(program) = Before(FlushIt, program)
<1>1. FlushIt \in Instructions
  BY DEF Instructions
<1>2. Before(FlushIt, program) \in Seq(Instructions)
  BY <1>1, PutBefore
<1>. QED BY <1>2 DEF Flushed, Before, FlushIt

(* The texts of the buffer stay among the contents that are reported. *)
LEMMA TextsStay ==
  ASSUME Typed, NEW c \in Contents, calls' = Append(calls, c), sax # NULL
  PROVE  /\ calls' \in Seq(Contents) /\ DOMAIN calls \subseteq DOMAIN calls'
         /\ Len(calls) + 1 \in DOMAIN calls'
         /\ Range(sax.charbuf) \subseteq DOMAIN calls'
<1>1. /\ calls' \in Seq(Contents) /\ Len(calls) \in Nat
      /\ DOMAIN calls = 1..Len(calls) /\ DOMAIN calls' = 1..(Len(calls) + 1)
  BY Appended DEF Typed
<1>2. DOMAIN calls \subseteq DOMAIN calls' /\ Len(calls) + 1 \in DOMAIN calls'
  BY <1>1
<1>3. Range(sax.charbuf) \subseteq DOMAIN calls
  BY DEF Typed
<1>. QED BY <1>1, <1>2, <1>3

(* A parse has a vector. *)
LEMMA VectorThere ==
  ASSUME Typed, status \in {"parsing", "died"}
  PROVE  /\ sax # NULL /\ sax \in Vectors
         /\ sax = [stack |-> sax.stack, charbuf |-> sax.charbuf]
         /\ sax.stack \in Stacks /\ sax.charbuf \in Seq(Nat)
BY DEF Typed, Vectors, Stacks

(* A callback starts. *)
LEMMA CallbackTyped ==
  ASSUME Typed, NEW content \in Contents, NEW program \in Seq(Instructions),
         Callback(content, program), open' \in Seq(StartTags), UNCHANGED sax
  PROVE  Typed'
<1>1. status = "parsing" /\ calls' = Append(calls, content) /\ todo' = program
      /\ UNCHANGED <<mode, join, status, log>>
  BY DEF Callback
<1>2. sax # NULL
  BY <1>1, VectorThere
<1>3. calls' \in Seq(Contents) /\ Range(sax.charbuf) \subseteq DOMAIN calls'
  BY <1>1, <1>2, TextsStay
<1>. QED BY <1>1, <1>2, <1>3 DEF Typed

(* An instruction is executed. *)
LEMMA InstructionTyped ==
  ASSUME Typed, todo # <<>>, NEW e \in Events, Silently \/ Call(e),
         UNCHANGED parser, sax' \in Vectors, Range(sax'.charbuf) \subseteq DOMAIN calls
  PROVE  Typed'
<1>1. status = "parsing"
  BY DEF Typed
<1>2. Tail(todo) \in Seq(Instructions) /\ <<>> \in Seq(Instructions)
  BY TailOf, EmptySeq DEF Typed
<1>3. /\ todo' \in Seq(Instructions)
      /\ status' = "parsing" \/ (status' = "died" /\ todo' = <<>>)
      /\ log' = log \/ log' = Append(log, e)
  BY <1>1, <1>2 DEF Silently, Call
<1>4. Append(log, e) \in Seq(Events)
  BY AppendProperties DEF Typed
<1>5. sax' # NULL
  BY NullAssumption
<1>. QED BY <1>1, <1>3, <1>4, <1>5 DEF Typed, parser

(* The calls of the parser are calls. *)
LEMMA ContentsTyped ==
  /\ Event("document") \in Contents /\ Event("dtd") \in Contents /\ Event("error") \in Contents
  /\ [event |-> "text"] \in Contents /\ [event |-> "comment"] \in Contents
<1>1. \A kind \in {"document", "dtd", "text", "comment", "error"} : [event |-> kind] \in Contents
  BY DEF Contents, Event
<1>. QED BY <1>1 DEF Event

(* Programs of one and of three instructions *)
LEMMA ProgramTyped ==
  ASSUME NEW x \in Instructions, NEW y \in Instructions, NEW z \in Instructions
  PROVE  <<x>> \in Seq(Instructions) /\ <<x, y, z>> \in Seq(Instructions)
OBVIOUS

(* The simple events are events, their calls instructions. *)
LEMMA PlainTyped ==
  /\ \A kind \in PlainKinds : Event(kind) \in PlainEvents /\ Do(Event(kind)) \in Instructions
  /\ \A n \in Nat : /\ Characters(<<n>>) \in PlainEvents
                    /\ Do(Characters(<<n>>)) \in Instructions
                    /\ [event |-> "comment", at |-> n] \in PlainEvents
                    /\ Do([event |-> "comment", at |-> n]) \in Instructions
<1>1. \A kind \in PlainKinds : Event(kind) \in PlainEvents
  BY DEF PlainEvents
<1>2. ASSUME NEW n \in Nat
      PROVE  Characters(<<n>>) \in PlainEvents /\ [event |-> "comment", at |-> n] \in PlainEvents
  <2>1. <<n>> \in Seq(Nat)
    OBVIOUS
  <2>. QED BY <2>1 DEF PlainEvents
<1>3. \A e \in PlainEvents : Do(e) \in Instructions
  BY DEF Instructions
<1>. QED BY <1>1, <1>2, <1>3

(* The types at the start, and after each kind of step *)
LEMMA InitTyped ==
  ASSUME Init
  PROVE  Typed
<1>1. <<>> \in Seq(StartTags) /\ <<>> \in Seq(Contents) /\ <<>> \in Seq(Instructions)
      /\ <<>> \in Seq(Events)
  BY EmptySeq
<1>. QED BY <1>1 DEF Init, Typed

(* The calls that an error may make *)
LEMMA ReportsPlain ==
  ASSUME NEW program \in ErrorReports
  PROVE  /\ program \in Seq(Instructions)
         /\ \A k \in DOMAIN program : program[k] = Do(Event("fatal_error"))
<1>. DEFINE report == Do(Event("fatal_error"))
<1>1. report \in Instructions
  BY PlainTyped DEF PlainKinds
<1>2. program \in {<<>>, <<report>>, <<report, report>>}
  BY DEF ErrorReports
<1>. HIDE DEF report
<1>3. program \in Seq(Instructions)
  <2>1. <<>> \in Seq(Instructions)
    OBVIOUS
  <2>2. <<report>> \in Seq(Instructions)
    BY <1>1
  <2>3. <<report, report>> \in Seq(Instructions)
    BY <1>1
  <2>. QED BY <1>2, <2>1, <2>2, <2>3
<1>4. \A k \in DOMAIN program : program[k] = report
  <2>1. CASE program = <<>>
    BY <2>1
  <2>2. CASE program = <<report>>
    BY <2>2
  <2>3. CASE program = <<report, report>>
    BY <2>3
  <2>. QED BY <1>2, <2>1, <2>2, <2>3
<1>. QED BY <1>3, <1>4 DEF report

(* A callback for the content c whose program has no parameters *)
LEMMA PlainCallbacksTyped ==
  ASSUME Typed, StartDocument \/ ExternalSubset \/ CDATABlock \/ Comment \/ FatalError
  PROVE  Typed'
<1>1. Len(calls) + 1 \in Nat
  BY LenProperties DEF Typed
<1>2. open \in Seq(StartTags)
  BY DEF Typed
<1>3. CASE StartDocument
  <2>. DEFINE program == <<Do(Event("set_document_locator")), Do(Event("start_document")),
                           Do(Event("xml_decl"))>>
  <2>1. program \in Seq(Instructions)
    BY PlainTyped DEF PlainKinds
  <2>. HIDE DEF program
  <2>2. Event("document") \in Contents /\ Flushed(program) \in Seq(Instructions)
    BY <2>1, Flushing, ContentsTyped
  <2>3. Callback(Event("document"), Flushed(program)) /\ UNCHANGED <<open, sax>>
    BY <1>3 DEF StartDocument, program
  <2>. QED BY <1>2, <2>2, <2>3, CallbackTyped
<1>4. CASE ExternalSubset
  <2>. DEFINE program == <<Do(Event("start_dtd")), Do(Event("end_dtd"))>>
  <2>1. program \in Seq(Instructions)
    BY PlainTyped DEF PlainKinds
  <2>2. Event("dtd") \in Contents
    BY DEF Contents
  <2>3. Callback(Event("dtd"), program) /\ UNCHANGED <<open, sax>>
    BY <1>4 DEF ExternalSubset
  <2>. HIDE DEF program
  <2>. QED BY <1>2, <2>1, <2>2, <2>3, CallbackTyped
<1>5. CASE CDATABlock
  <2>. DEFINE program == <<Do(Event("start_cdata")), Do(Characters(<<Len(calls) + 1>>)),
                           Do(Event("end_cdata"))>>
  <2>1. program \in Seq(Instructions)
    <3>1. /\ Do(Event("start_cdata")) \in Instructions /\ Do(Event("end_cdata")) \in Instructions
          /\ Do(Characters(<<Len(calls) + 1>>)) \in Instructions
      BY <1>1, PlainTyped DEF PlainKinds
    <3>. QED BY <3>1, ProgramTyped, Zenon
  <2>. HIDE DEF program
  <2>2. [event |-> "text"] \in Contents /\ Flushed(program) \in Seq(Instructions)
    BY <2>1, Flushing, ContentsTyped
  <2>3. Callback([event |-> "text"], Flushed(program)) /\ UNCHANGED <<open, sax>>
    BY <1>5 DEF CDATABlock, program
  <2>. QED BY <1>2, <2>2, <2>3, CallbackTyped
<1>6. CASE Comment
  <2>. DEFINE program == <<Do([event |-> "comment", at |-> Len(calls) + 1])>>
  <2>1. program \in Seq(Instructions)
    <3>1. Do([event |-> "comment", at |-> Len(calls) + 1]) \in Instructions
      BY <1>1, PlainTyped
    <3>. QED BY <3>1, ProgramTyped, Zenon
  <2>. HIDE DEF program
  <2>2. [event |-> "comment"] \in Contents /\ Flushed(program) \in Seq(Instructions)
    BY <2>1, Flushing, ContentsTyped
  <2>3. Callback([event |-> "comment"], Flushed(program)) /\ UNCHANGED <<open, sax>>
    BY <1>6 DEF Comment, program
  <2>. QED BY <1>2, <2>2, <2>3, CallbackTyped
<1>7. CASE FatalError
  <2>1. PICK program \in ErrorReports : Callback(Event("error"), program) /\ UNCHANGED <<open, sax>>
    BY <1>7 DEF FatalError
  <2>2. program \in Seq(Instructions)
    BY ReportsPlain
  <2>3. Event("error") \in Contents
    BY DEF Contents
  <2>. QED BY <1>2, <2>1, <2>2, <2>3, CallbackTyped
<1>. QED BY <1>3, <1>4, <1>5, <1>6, <1>7

(* The types after a text *)
LEMMA TextTyped ==
  ASSUME Typed, Text
  PROVE  Typed'
<1>. DEFINE text    == Len(calls) + 1
            program == IF join THEN <<>> ELSE <<Do(Characters(<<text>>))>>
<1>1. /\ status = "parsing" /\ calls' = Append(calls, [event |-> "text"]) /\ todo' = program
      /\ UNCHANGED <<mode, join, status, log, open>>
      /\ sax' = [sax EXCEPT !.charbuf = IF join THEN Append(@, text) ELSE @]
  BY DEF Text, Callback
<1>2. text \in Nat /\ program \in Seq(Instructions)
  <2>1. text \in Nat
    BY LenProperties DEF Typed
  <2>. HIDE DEF text
  <2>2. Do(Characters(<<text>>)) \in Instructions
    BY <2>1, PlainTyped
  <2>3. <<Do(Characters(<<text>>))>> \in Seq(Instructions)
    BY <2>2, ProgramTyped, Zenon
  <2>. QED BY <2>1, <2>3, EmptySeq
<1>. HIDE DEF program
<1>3. /\ sax # NULL /\ sax \in Vectors /\ sax.charbuf \in Seq(Nat)
  BY <1>1, VectorThere
<1>4. [event |-> "text"] \in Contents
  BY DEF Contents, Event
<1>5. /\ calls' \in Seq(Contents) /\ text \in DOMAIN calls'
      /\ Range(sax.charbuf) \subseteq DOMAIN calls'
  BY <1>1, <1>3, <1>4, TextsStay
<1>. HIDE DEF text
<1>6. /\ Append(sax.charbuf, text) \in Seq(Nat)
      /\ Range(Append(sax.charbuf, text)) \subseteq DOMAIN calls'
  <2>. DEFINE s == sax.charbuf
              t == Append(s, text)
  <2>1. /\ t \in Seq(Nat) /\ DOMAIN t = 1..(Len(s) + 1) /\ DOMAIN s = 1..Len(s)
        /\ Len(s) \in Nat
        /\ \A i \in 1..Len(s) : t[i] = s[i]
        /\ t[Len(s) + 1] = text
    <3>. HIDE DEF s
    <3>. QED BY <1>2, <1>3, Appended DEF s
  <2>2. \A i \in DOMAIN t : t[i] \in DOMAIN calls'
    BY <1>5, <2>1 DEF Range
  <2>. QED BY <2>1, <2>2 DEF Range
<1>7. sax' \in Vectors /\ Range(sax'.charbuf) \subseteq DOMAIN calls'
  BY <1>1, <1>3, <1>5, <1>6 DEF Vectors
<1>8. sax' # NULL
  BY <1>7, NullAssumption
<1>. QED BY <1>1, <1>2, <1>5, <1>7, <1>8 DEF Typed

(* The frame of an element, from which its end tag takes the declarations *)
LEMMA LastFrame ==
  ASSUME NEW stack \in Stacks, stack # <<>>
  PROVE  Last(stack) \in Frames /\ Last(stack).defs \in Seq(Items)
<1>1. Last(stack) \in Frames
  BY FrontOf DEF Stacks
<1>. QED BY <1>1 DEF Frames

(* The types after a tag *)
LEMMA ElementsTyped ==
  ASSUME Typed, sax # NULL => sax.stack # <<>>,
         (\E tag \in StartTags : StartElement(tag)) \/ EndElement
  PROVE  Typed'
<1>1. CASE \E tag \in StartTags : StartElement(tag)
  <2>1. PICK tag \in StartTags : StartElement(tag)
    BY <1>1
  <2>. DEFINE defs == Declarations(tag.items)
              program == <<Doing("extend", tag)>>
                          \o [i \in DOMAIN defs |->
                                [do |-> "declare", tag |-> tag, item |-> defs[i]]]
                          \o <<Doing("start_element", tag)>>
              content == [event |-> "start", tag |-> tag]
  <2>2. Callback(content, Flushed(program)) /\ open' = Append(open, tag) /\ UNCHANGED sax
    BY <2>1 DEF StartElement
  <2>3. defs \in Seq(Items)
    BY TagDeclarations DEF DeclaredIn
  <2>4. content \in Contents
    BY DEF Contents
  <2>5. program \in Seq(Instructions)
    <3>. HIDE DEF defs
    <3>1. program = StartAll(tag, defs) /\ StartAll(tag, defs) \in Seq(Instructions)
      BY <2>3, StartPrograms
    <3>. QED BY <3>1
  <2>. HIDE DEF program, content
  <2>6. Flushed(program) \in Seq(Instructions) /\ open' \in Seq(StartTags)
    BY <2>2, <2>5, Flushing, AppendProperties DEF Typed
  <2>. QED BY <2>2, <2>4, <2>6, CallbackTyped
<1>2. CASE EndElement
  <2>. DEFINE tag == Last(open)
              defs == Last(sax.stack).defs
              program == <<Doing("end_element", tag)>>
                          \o [i \in DOMAIN defs |-> Do(Mapping("end_prefix_mapping", defs[i]))]
                          \o <<[do |-> "narrow"]>>
              content == [event |-> "end", tag |-> tag]
  <2>1. Callback(content, Flushed(program)) /\ open # <<>> /\ open' = Front(open) /\ UNCHANGED sax
    BY <1>2 DEF EndElement
  <2>2. status = "parsing"
    BY <2>1 DEF Callback
  <2>3. tag \in StartTags /\ open' \in Seq(StartTags)
    BY <2>1, FrontOf DEF Typed
  <2>4. defs \in Seq(Items)
    BY <2>2, VectorThere, LastFrame
  <2>5. content \in Contents
    BY <2>3 DEF Contents
  <2>6. program \in Seq(Instructions)
    <3>. HIDE DEF tag, defs
    <3>1. program = EndAll(tag, defs) /\ EndAll(tag, defs) \in Seq(Instructions)
      BY <2>3, <2>4, EndPrograms
    <3>. QED BY <3>1
  <2>. HIDE DEF program, content
  <2>7. Flushed(program) \in Seq(Instructions)
    BY <2>6, Flushing
  <2>. QED BY <2>1, <2>3, <2>5, <2>7, CallbackTyped
<1>. QED BY <1>1, <1>2

(* What an instruction does to the vector and the event that it is about *)
LEMMA ExecuteTyped ==
  ASSUME Typed, Execute
  PROVE  Typed'
<1>. DEFINE x == Head(todo)
<1>1. todo # <<>>
  BY DEF Execute, Flush, ExtendStack, Declare, NarrowStack, CallStart, CallEnd, CallMethod, Running
<1>2. status = "parsing" /\ x \in Instructions /\ Range(sax.charbuf) \subseteq DOMAIN calls
  BY <1>1, TailOf, NullAssumption DEF Typed
<1>3. /\ sax \in Vectors /\ sax.stack \in Stacks /\ sax.charbuf \in Seq(Nat)
  BY <1>2, VectorThere
<1>4. Event("start_dtd") \in Events
  BY PlainTyped DEF PlainKinds, Events
<1>. HIDE DEF x
<1>5. CASE Flush
  <2>1. /\ sax' = [sax EXCEPT !.charbuf = <<>>]
        /\ UNCHANGED parser
        /\ Silently \/ Call(Characters(sax.charbuf))
    BY <1>5 DEF Flush
  <2>2. Characters(sax.charbuf) \in Events
    BY <1>3 DEF Events, PlainEvents
  <2>3. sax' \in Vectors /\ Range(sax'.charbuf) \subseteq DOMAIN calls
    <3>1. sax'.charbuf = <<>> /\ sax' \in Vectors
      BY <1>3, <2>1, EmptySeq DEF Vectors
    <3>. QED BY <3>1 DEF Range
  <2>. QED BY <1>1, <2>1, <2>2, <2>3, InstructionTyped
<1>6. CASE ExtendStack
  <2>1. /\ x.do = "extend" /\ sax' = [sax EXCEPT !.stack = ExtendNsStack(@, x.tag)]
        /\ UNCHANGED parser
        /\ Silently
    BY <1>6 DEF ExtendStack, Running, x
  <2>2. x.tag \in StartTags
    BY <1>2, <2>1, Parts
  <2>3. ExtendNsStack(sax.stack, x.tag) \in Stacks
    BY <1>3, <2>2, StackTypes
  <2>4. sax' \in Vectors /\ Range(sax'.charbuf) \subseteq DOMAIN calls
    BY <1>2, <1>3, <2>1, <2>3 DEF Vectors, Stacks
  <2>. QED BY <1>1, <1>4, <2>1, <2>4, InstructionTyped
<1>7. CASE Declare
  <2>1. /\ x.do = "declare" /\ sax' = [sax EXCEPT !.stack = AddNamespace(@, x.tag, x.item)]
        /\ UNCHANGED parser
        /\ Call(Mapping("start_prefix_mapping", x.item))
    BY <1>7 DEF Declare, Running, x
  <2>2. x.tag \in StartTags /\ x.item \in Items
    BY <1>2, <2>1, Parts
  <2>3. AddNamespace(sax.stack, x.tag, x.item) \in Stacks
    BY <1>3, <2>2, StackTypes
  <2>4. sax' \in Vectors /\ Range(sax'.charbuf) \subseteq DOMAIN calls
    BY <1>2, <1>3, <2>1, <2>3 DEF Vectors, Stacks
  <2>5. Mapping("start_prefix_mapping", x.item) \in Events
    BY <2>2 DEF Events, MappingEvents
  <2>. QED BY <1>1, <2>1, <2>4, <2>5, InstructionTyped
<1>8. CASE NarrowStack
  <2>1. /\ sax' = [sax EXCEPT !.stack = NarrowNsStack(@)]
        /\ UNCHANGED parser
        /\ Silently
    BY <1>8 DEF NarrowStack
  <2>2. NarrowNsStack(sax.stack) \in Stacks
    BY <1>3, NarrowTypes
  <2>3. sax' \in Vectors /\ Range(sax'.charbuf) \subseteq DOMAIN calls
    BY <1>2, <1>3, <2>1, <2>2 DEF Vectors, Stacks
  <2>. QED BY <1>1, <1>4, <2>1, <2>3, InstructionTyped
<1>9. CASE CallStart
  <2>1. x.do = "start_element" /\ Call(StartTag(sax.stack, x.tag)) /\ UNCHANGED <<parser, sax>>
    BY <1>9 DEF CallStart, Running, x
  <2>2. x.tag \in StartTags
    BY <1>2, <2>1, Parts
  <2>3. StartTag(sax.stack, x.tag) \in Events
    BY <1>3, <2>2 DEF Events, TagEvents
  <2>4. sax' \in Vectors /\ Range(sax'.charbuf) \subseteq DOMAIN calls
    BY <1>2, <1>3, <2>1
  <2>. QED BY <1>1, <2>1, <2>3, <2>4, InstructionTyped
<1>10. CASE CallEnd
  <2>1. x.do = "end_element" /\ Call(EndTag(sax.stack, x.tag)) /\ UNCHANGED <<parser, sax>>
    BY <1>10 DEF CallEnd, Running, x
  <2>2. x.tag \in StartTags
    BY <1>2, <2>1, Parts
  <2>3. EndTag(sax.stack, x.tag) \in Events
    BY <1>3, <2>2 DEF Events, TagEvents
  <2>4. sax' \in Vectors /\ Range(sax'.charbuf) \subseteq DOMAIN calls
    BY <1>2, <1>3, <2>1
  <2>. QED BY <1>1, <2>1, <2>3, <2>4, InstructionTyped
<1>11. CASE CallMethod
  <2>1. x.do = "call" /\ Call(x.e) /\ UNCHANGED <<parser, sax>>
    BY <1>11 DEF CallMethod, Running, x
  <2>2. x.e \in Events
    BY <1>2, <2>1, Parts DEF Events
  <2>3. sax' \in Vectors /\ Range(sax'.charbuf) \subseteq DOMAIN calls
    BY <1>2, <1>3, <2>1
  <2>. QED BY <1>1, <2>1, <2>2, <2>3, InstructionTyped
<1>. QED BY <1>5, <1>6, <1>7, <1>8, <1>9, <1>10, <1>11 DEF Execute

(* The types after a parse begins or ends *)
LEMMA ParseTyped ==
  ASSUME Typed, InitContext \/ Return \/ UNCHANGED vars
  PROVE  Typed'
<1>1. CASE InitContext
  <2>1. [stack |-> <<Bottom>>, charbuf |-> <<>>] \in Vectors
    <3>1. Bottom \in Frames
      BY EmptySeq DEF Bottom, Frames
    <3>2. <<Bottom>> \in Seq(Frames) /\ <<>> \in Seq(Nat)
      BY <3>1, EmptySeq
    <3>. QED BY <3>2 DEF Vectors
  <2>2. Range(<<>>) = {}
    BY DEF Range
  <2>. QED BY <1>1, <2>1, <2>2, NullAssumption DEF InitContext, Typed, parser
<1>2. CASE Return
  <2>1. Append(log, Event("end_document")) \in Seq(Events)
    BY AppendProperties DEF Typed, Events
  <2>. QED BY <1>2, <2>1 DEF Return, Typed, parser
<1>3. CASE UNCHANGED vars
  BY <1>3 DEF vars, parser, Typed
<1>. QED BY <1>1, <1>2, <1>3

(* The types after any step *)
LEMMA NextTyped ==
  ASSUME Typed, Based, [Next]_vars
  PROVE  Typed'
BY PlainCallbacksTyped, TextTyped, ElementsTyped, ExecuteTyped, ParseTyped DEF Next, Based

-----------------------------------------------------------------------------
(* More about sequences *)

(* Front and Last undo Append, *)
LEMMA FrontOfAppend ==
  ASSUME NEW S, NEW s \in Seq(S), NEW x \in S
  PROVE  Front(Append(s, x)) = s /\ Last(Append(s, x)) = x
<1>. DEFINE t == Append(s, x)
<1>0. t = Append(s, x)
  OBVIOUS
<1>. HIDE DEF t
<1>1. /\ t \in Seq(S) /\ t # <<>> /\ Len(s) \in Nat /\ Len(t) = Len(s) + 1 /\ Last(t) = x
      /\ \A i \in 1..Len(s) : t[i] = s[i]
  <2>1. /\ t \in Seq(S) /\ Len(s) \in Nat /\ Len(t) = Len(s) + 1
        /\ \A i \in 1..Len(s) : t[i] = s[i]
        /\ t[Len(s) + 1] = x
    BY <1>0, Appended
  <2>2. t # <<>> /\ Last(t) = x
    BY <2>1, EmptySeq DEF Last
  <2>. QED BY <2>1, <2>2
<1>2. Front(t) \in Seq(S) /\ Len(Front(t)) = Len(s) /\ \A i \in 1..Len(s) : Front(t)[i] = s[i]
  BY <1>1, FrontOf
<1>3. Front(t) = s
  BY <1>2, SeqEqual
<1>. QED BY <1>1, <1>3 DEF t

(* and Append undoes them. *)
LEMMA AppendToFront ==
  ASSUME NEW S, NEW s \in Seq(S), s # <<>>
  PROVE  Append(Front(s), Last(s)) = s
<1>. DEFINE f == Front(s)
            x == Last(s)
            t == Append(f, x)
<1>1. /\ f \in Seq(S) /\ Len(f) = Len(s) - 1 /\ Len(s) \in Nat \ {0} /\ x \in S /\ x = s[Len(s)]
      /\ \A i \in 1..(Len(s) - 1) : f[i] = s[i]
  BY FrontOf
<1>. HIDE DEF f, x
<1>2. t \in Seq(S) /\ Len(t) = Len(f) + 1 /\ (\A i \in 1..Len(f) : t[i] = f[i]) /\ t[Len(f) + 1] = x
  BY <1>1, Appended
<1>. HIDE DEF t
<1>3. Len(t) = Len(s) /\ \A i \in 1..Len(s) : t[i] = s[i]
  BY <1>1, <1>2
<1>4. t = s
  BY <1>2, <1>3, SeqEqual
<1>. QED BY <1>4 DEF t, f, x

-----------------------------------------------------------------------------
(* What the elements that are open say of stacks that agree on them *)

(* Equal members make equal beginnings. *)
LEMMA SameBeginning ==
  ASSUME NEW S, NEW s \in Seq(S), NEW t \in Seq(S), NEW n \in 0..Len(s), n <= Len(t),
         \A i \in 1..n : s[i] = t[i]
  PROVE  SubSeq(s, 1, n) = SubSeq(t, 1, n)
<1>1. n \in 0..Len(t)
  BY LenProperties
<1>2. /\ SubSeq(s, 1, n) \in Seq(S) /\ Len(SubSeq(s, 1, n)) = n
      /\ \A i \in 1..n : SubSeq(s, 1, n)[i] = s[i]
  BY Shortened
<1>3. /\ SubSeq(t, 1, n) \in Seq(S) /\ Len(SubSeq(t, 1, n)) = n
      /\ \A i \in 1..n : SubSeq(t, 1, n)[i] = t[i]
  BY <1>1, Shortened
<1>4. \A i \in 1..n : SubSeq(s, 1, n)[i] = SubSeq(t, 1, n)[i]
  BY <1>2, <1>3
<1>. QED BY <1>2, <1>3, <1>4, SeqEqual

(* A stack that is the same for the open elements reflects them as well. *)
LEMMA ReflectsAgain ==
  ASSUME NEW stack \in Stacks, NEW other \in Stacks, NEW tags \in Seq(StartTags),
         NEW r, NEW q, Reflects(r, stack, tags), q.elements = r.elements,
         Len(other) > Len(tags), \A i \in 1..(Len(tags) + 1) : other[i] = stack[i]
  PROVE  Reflects(q, other, tags)
<1>. DEFINE n == Len(tags)
<1>1. n \in Nat /\ DOMAIN tags = 1..n /\ Len(stack) \in Nat /\ Len(other) \in Nat /\ Len(stack) > n
  BY LenProperties DEF Reflects, Stacks
<1>2. other[1] = stack[1] /\ \A k \in DOMAIN tags : other[k + 1] = stack[k + 1]
  BY <1>1
<1>3. ASSUME NEW k \in DOMAIN tags
      PROVE  SubSeq(other, 1, k + 1) = SubSeq(stack, 1, k + 1)
  <2>1. k + 1 \in 0..Len(other) /\ k + 1 <= Len(stack) /\ \A i \in 1..(k + 1) : other[i] = stack[i]
    BY <1>1
  <2>. QED BY <2>1, SameBeginning DEF Stacks
<1>. QED BY <1>2, <1>3 DEF Reflects

(* A start tag is read *)
LEMMA ReflectsMore ==
  ASSUME NEW stack \in Stacks, NEW tags \in Seq(StartTags), tags # <<>>,
         NEW r \in Readers, NEW q, Reflects(r, stack, Front(tags)),
         Len(stack) = Len(tags) + 1,
         Last(stack).defs = Declarations(Last(tags).items),
         q.elements = Append(r.elements, [e    |-> GenElement(stack, Last(tags)),
                                          maps |-> MappingsOf(Last(stack).defs)])
  PROVE  Reflects(q, stack, tags)
<1>. DEFINE n   == Len(tags)
            new == [e    |-> GenElement(stack, Last(tags)),
                    maps |-> MappingsOf(Last(stack).defs)]
            f   == Front(tags)
<1>1. /\ n \in Nat \ {0} /\ DOMAIN tags = 1..n /\ Last(tags) = tags[n] /\ Last(tags) \in StartTags
      /\ f \in Seq(StartTags) /\ Len(f) = n - 1 /\ DOMAIN f = 1..(n - 1)
      /\ \A k \in 1..(n - 1) : f[k] = tags[k]
  <2>1. /\ n \in Nat \ {0} /\ Last(tags) = tags[n] /\ Last(tags) \in StartTags
        /\ f \in Seq(StartTags) /\ Len(f) = n - 1
        /\ \A k \in 1..(n - 1) : f[k] = tags[k]
    BY FrontOf
  <2>. HIDE DEF f
  <2>2. DOMAIN tags = 1..n /\ DOMAIN f = 1..Len(f)
    BY <2>1, LenProperties
  <2>. QED BY <2>1, <2>2
<1>2. stack # <<>> /\ Last(stack) = stack[n + 1] /\ SubSeq(stack, 1, n + 1) = stack
  <2>1. Len(stack) = n + 1 /\ stack # <<>>
    BY <1>1, EmptySeq
  <2>. QED BY <2>1, SubSeqFull DEF Last, Stacks
<1>3. Len(r.elements) = n - 1
  BY <1>1 DEF Reflects
<1>4. new \in [e : Elements, maps : SUBSET Mappings]
  <2>1. GenElement(stack, Last(tags)) \in Elements
    BY <1>1 DEF Elements
  <2>2. Last(stack).defs \in Seq(Items)
    BY <1>2, LastFrame
  <2>3. MappingsOf(Last(stack).defs) \subseteq Mappings
    <3>. DEFINE defs == Last(stack).defs
    <3>. HIDE DEF defs
    <3>1. \A i \in DOMAIN defs : defs[i] \in Items
      BY <2>2, LenProperties, ElementOfSeq DEF defs
    <3>. QED BY <3>1 DEF MappingsOf, Mappings, defs
  <2>. QED BY <2>1, <2>3
<1>. HIDE DEF new, f
<1>5. /\ Len(q.elements) = n
      /\ \A k \in 1..(n - 1) : q.elements[k] = r.elements[k]
      /\ q.elements[n] = new
  <2>. DEFINE a == r.elements
              b == q.elements
  <2>1. a \in Seq([e : Elements, maps : SUBSET Mappings]) /\ b = Append(a, new) /\ Len(a) = n - 1
    BY <1>3 DEF Readers, new
  <2>2. n - 1 + 1 = n
    BY <1>1
  <2>. HIDE DEF a, b
  <2>3. Len(b) = n /\ (\A k \in 1..(n - 1) : b[k] = a[k]) /\ b[n] = new
    BY <1>4, <2>1, <2>2, Appended
  <2>. QED BY <2>3 DEF a, b
<1>6. Reflects(r, stack, f)
  BY DEF f
<1>7. ASSUME NEW k \in DOMAIN tags
      PROVE  /\ stack[k + 1].defs = Declarations(tags[k].items)
             /\ q.elements[k] = [e    |-> GenElement(SubSeq(stack, 1, k + 1), tags[k]),
                                 maps |-> MappingsOf(stack[k + 1].defs)]
  <2>1. CASE k = n
    <3>1. k + 1 = n + 1 /\ tags[k] = Last(tags)
      BY <1>1, <2>1
    <3>. QED BY <1>2, <1>5, <2>1, <3>1 DEF new
  <2>2. CASE k # n
    <3>1. k \in 1..(n - 1) /\ k \in DOMAIN f /\ f[k] = tags[k]
      BY <1>1, <2>2
    <3>. QED BY <1>5, <1>6, <3>1 DEF Reflects
  <2>. QED BY <2>1, <2>2
<1>8. stack[1] = Bottom
  BY <1>6 DEF Reflects
<1>9. Len(stack) > Len(tags)
  BY <1>1
<1>10. Len(q.elements) = Len(tags)
  BY <1>5
<1>. QED BY <1>7, <1>10, <1>8, <1>9 DEF Reflects

(* An end tag is read *)
LEMMA ReflectsLess ==
  ASSUME NEW stack \in Stacks, NEW tags \in Seq(StartTags), NEW tag \in StartTags,
         NEW r \in Readers, Reflects(r, stack, Append(tags, tag)), Len(stack) = Len(tags) + 2
  PROVE  /\ r.elements # <<>>
         /\ Last(r.elements) = [e    |-> GenElement(stack, tag),
                                maps |-> MappingsOf(Declarations(tag.items))]
         /\ \A q : q.elements = Front(r.elements) => Reflects(q, stack, tags)
<1>. DEFINE n   == Len(tags)
            all == Append(tags, tag)
<1>1. /\ all \in Seq(StartTags) /\ n \in Nat /\ Len(all) = n + 1 /\ DOMAIN all = 1..(n + 1)
      /\ DOMAIN tags = 1..n /\ (\A i \in 1..n : all[i] = tags[i]) /\ all[n + 1] = tag
  BY Appended
<1>. HIDE DEF all
<1>2. Reflects(r, stack, all)
  BY DEF all
<1>3. Len(r.elements) = n + 1 /\ r.elements \in Seq([e : Elements, maps : SUBSET Mappings])
  BY <1>1, <1>2 DEF Reflects, Readers
<1>4. SubSeq(stack, 1, n + 2) = stack
  BY SubSeqFull DEF Stacks
<1>5. /\ stack[n + 2].defs = Declarations(tag.items)
      /\ r.elements[n + 1] = [e    |-> GenElement(stack, tag),
                              maps |-> MappingsOf(stack[n + 2].defs)]
  <2>1. n + 1 \in DOMAIN all /\ n + 1 + 1 = n + 2
    BY <1>1
  <2>. QED BY <1>1, <1>2, <1>4, <2>1 DEF Reflects
<1>6. r.elements # <<>>
  BY <1>1, <1>3, EmptySeq
<1>7. /\ Last(r.elements) = r.elements[n + 1] /\ Len(Front(r.elements)) = n
      /\ \A k \in 1..n : Front(r.elements)[k] = r.elements[k]
  <2>. DEFINE a == r.elements
  <2>1. a \in Seq([e : Elements, maps : SUBSET Mappings]) /\ a # <<>> /\ Len(a) = n + 1
    BY <1>3, <1>6
  <2>. HIDE DEF a
  <2>2. Last(a) = a[Len(a)] /\ Len(Front(a)) = Len(a) - 1 /\ \A k \in 1..(Len(a) - 1) : Front(a)[k] = a[k]
    BY <2>1, FrontOf
  <2>3. Last(a) = a[n + 1] /\ Len(Front(a)) = n /\ \A k \in 1..n : Front(a)[k] = a[k]
    BY <1>1, <2>1, <2>2
  <2>. QED BY <2>3 DEF a
<1>8. ASSUME NEW q, q.elements = Front(r.elements)
      PROVE  Reflects(q, stack, tags)
  <2>1. ASSUME NEW k \in DOMAIN tags
        PROVE  /\ stack[k + 1].defs = Declarations(tags[k].items)
               /\ q.elements[k] = [e    |-> GenElement(SubSeq(stack, 1, k + 1), tags[k]),
                                   maps |-> MappingsOf(stack[k + 1].defs)]
    <3>1. k \in DOMAIN all /\ k \in 1..n /\ all[k] = tags[k]
      BY <1>1
    <3>. QED BY <1>2, <1>7, <1>8, <3>1 DEF Reflects
  <2>2. stack[1] = Bottom /\ Len(stack) > n
    BY <1>1, <1>2 DEF Reflects
  <2>. QED BY <1>7, <1>8, <2>1, <2>2 DEF Reflects
<1>. QED BY <1>5, <1>6, <1>7, <1>8

-----------------------------------------------------------------------------
(* Looking up a prefix *)

UrisKnown(stack) == \A i \in DOMAIN stack : \A d \in Range(stack[i].defs) : d.uri # NULL

(* A declaration of a tag has a URI. *)
LEMMA TagUris ==
  ASSUME NEW tag \in StartTags, NEW d \in Range(Declarations(tag.items))
  PROVE  d.uri # NULL
<1>. DEFINE D == Declarations(tag.items)
<1>1. DeclaredIn(D, tag.items, Len(tag.items))
  BY TagDeclarations
<1>2. PICK i \in DOMAIN D : d = D[i]
  BY DEF Range
<1>3. PICK j \in 1..Len(tag.items) : tag.items[j].declares /\ D[i] = tag.items[j]
  BY <1>1, <1>2 DEF DeclaredIn
<1>4. j \in DOMAIN tag.items
  BY TagItems, LenProperties
<1>. QED BY <1>2, <1>3, <1>4, TagsAssumption

(* So has every one in a stack that reflects the open elements. *)
LEMMA ReflectsUris ==
  ASSUME NEW stack \in Stacks, NEW tags \in Seq(StartTags), NEW r, Reflects(r, stack, tags),
         Len(stack) = Len(tags) + 1
  PROVE  UrisKnown(stack)
<1>1. Len(tags) \in Nat /\ DOMAIN tags = 1..Len(tags) /\ DOMAIN stack = 1..(Len(tags) + 1)
      /\ \A k \in DOMAIN tags : tags[k] \in StartTags
  BY LenProperties, ElementOfSeq DEF Stacks
<1>2. ASSUME NEW i \in DOMAIN stack, NEW d \in Range(stack[i].defs)
      PROVE  d.uri # NULL
  <2>1. CASE i = 1
    <3>1. stack[i].defs = <<>>
      BY <2>1 DEF Reflects, Bottom
    <3>. QED BY <1>2, <3>1 DEF Range
  <2>2. CASE i # 1
    <3>1. i - 1 \in DOMAIN tags /\ i - 1 + 1 = i
      BY <1>1, <2>2
    <3>2. stack[i].defs = Declarations(tags[i - 1].items)
      BY <3>1 DEF Reflects
    <3>. QED BY <1>1, <1>2, <3>1, <3>2, TagUris
  <2>. QED BY <2>1, <2>2
<1>. QED BY <1>2 DEF UrisKnown

(* Max finds the innermost declaration. *)
LEMMA InnermostDeclaration ==
  ASSUME NEW stack \in Stacks, NEW prefix, Declaring(stack, prefix) # {}
  PROVE  LET m == Max(Declaring(stack, prefix))
         IN  /\ m \in DOMAIN stack
             /\ \E d \in Range(stack[m].defs) : d.prefix = prefix
             /\ \A i \in DOMAIN stack :
                  (\E d \in Range(stack[i].defs) : d.prefix = prefix) => i <= m
<1>. DEFINE T == Declaring(stack, prefix)
<1>1. Len(stack) \in Nat /\ DOMAIN stack = 1..Len(stack) /\ T \in SUBSET (1..Len(stack)) /\ T # {}
  BY LenProperties DEF Stacks, Declaring
<1>. HIDE DEF T
<1>2. Max(T) \in T /\ \A i \in T : i <= Max(T)
  BY <1>1, Largest
<1>. QED BY <1>2 DEF T, Declaring

(* The lookup finds a URI exactly for declared prefixes. *)
LEMMA Lookup ==
  ASSUME NEW stack \in Stacks, UrisKnown(stack), NEW prefix
  PROVE  GetNsMapping(stack, prefix) # NULL <=> Declaring(stack, prefix) # {}
<1>1. CASE Declaring(stack, prefix) = {}
  BY <1>1 DEF GetNsMapping
<1>2. CASE Declaring(stack, prefix) # {}
  <2>. DEFINE m == Max(Declaring(stack, prefix))
              u == CHOOSE d \in Range(stack[m].defs) : d.prefix = prefix
  <2>1. m \in DOMAIN stack /\ \E d \in Range(stack[m].defs) : d.prefix = prefix
    BY <1>2, InnermostDeclaration
  <2>2. GetNsMapping(stack, prefix) = u.uri
    BY <1>2 DEF GetNsMapping, UriOn
  <2>3. u \in Range(stack[m].defs)
    BY <2>1
  <2>4. u.uri # NULL
    BY <2>1, <2>3 DEF UrisKnown
  <2>. QED BY <1>2, <2>2, <2>4
<1>. QED BY <1>1, <1>2

(* PmmExtendNsStack adds no declaration. *)
LEMMA Extended ==
  ASSUME NEW stack \in Stacks, UrisKnown(stack), NEW tag \in StartTags
  PROVE  LET more == ExtendNsStack(stack, tag)
         IN  /\ more \in Stacks /\ Len(more) = Len(stack) + 1
             /\ \A i \in 1..Len(stack) : more[i] = stack[i]
             /\ Last(more).defs = <<>>
             /\ UrisKnown(more)
             /\ Last(more).bound <=> tag.prefix # NULL /\ GetNsMapping(more, tag.prefix) # NULL
<1>. DEFINE frame == [defs  |-> <<>>,
                      bound |-> tag.prefix # NULL /\ GetNsMapping(stack, tag.prefix) # NULL]
            more  == ExtendNsStack(stack, tag)
            n     == Len(stack)
<1>1. frame \in Frames /\ frame.defs = <<>>
      /\ (frame.bound <=> tag.prefix # NULL /\ GetNsMapping(stack, tag.prefix) # NULL)
  BY EmptySeq DEF Frames
<1>2. more = Append(stack, frame)
  BY DEF ExtendNsStack
<1>. HIDE DEF frame, more
<1>3. /\ more \in Stacks /\ n \in Nat /\ Len(more) = n + 1
      /\ DOMAIN stack = 1..n /\ DOMAIN more = 1..(n + 1)
      /\ \A i \in 1..n : more[i] = stack[i]
      /\ more[n + 1] = frame
  BY <1>1, <1>2, Appended DEF Stacks
<1>4. Last(more) = frame
  BY <1>3 DEF Last
<1>5. Range(frame.defs) = {}
  BY <1>1 DEF Range
<1>6. Declaring(more, tag.prefix) = Declaring(stack, tag.prefix)
  BY <1>3, <1>5 DEF Declaring
<1>7. UrisKnown(more)
  BY <1>3, <1>5 DEF UrisKnown
<1>8. GetNsMapping(more, tag.prefix) # NULL <=> GetNsMapping(stack, tag.prefix) # NULL
  BY <1>3, <1>6, <1>7, Lookup
<1>. QED BY <1>1, <1>3, <1>4, <1>7, <1>8 DEF more

(* PmmAddNamespace adds one declaration to the last frame. *)
LEMMA Added ==
  ASSUME NEW stack \in Stacks, stack # <<>>, UrisKnown(stack), NEW tag \in StartTags,
         NEW item \in Items, item.uri # NULL,
         Last(stack).bound <=> tag.prefix # NULL /\ GetNsMapping(stack, tag.prefix) # NULL
  PROVE  LET more == AddNamespace(stack, tag, item)
         IN  /\ more \in Stacks /\ Len(more) = Len(stack)
             /\ \A i \in 1..(Len(stack) - 1) : more[i] = stack[i]
             /\ Last(more).defs = Append(Last(stack).defs, item)
             /\ UrisKnown(more)
             /\ Last(more).bound <=> tag.prefix # NULL /\ GetNsMapping(more, tag.prefix) # NULL
<1>. DEFINE n     == Len(stack)
            old   == Last(stack)
            frame == [defs  |-> Append(old.defs, item),
                      bound |-> old.bound \/ (tag.prefix # NULL /\ item.prefix = tag.prefix)]
            more  == AddNamespace(stack, tag, item)
<1>1. /\ n \in Nat \ {0} /\ DOMAIN stack = 1..n /\ n \in 1..n
      /\ old = stack[n] /\ old \in Frames /\ old.defs \in Seq(Items)
  BY FrontOf, LastFrame, LenProperties DEF Stacks
<1>2. more = [stack EXCEPT ![n] = frame]
  BY DEF AddNamespace, Last
<1>3. more \in Stacks
  BY StackTypes
<1>4. /\ frame.defs = Append(old.defs, item)
      /\ (frame.bound <=> old.bound \/ (tag.prefix # NULL /\ item.prefix = tag.prefix))
  OBVIOUS
<1>. HIDE DEF frame, more, old
<1>5. /\ DOMAIN more = 1..n /\ (\A i \in 1..(n - 1) : more[i] = stack[i]) /\ more[n] = frame
      /\ Len(more) = n
  <2>1. DOMAIN more = 1..n /\ (\A i \in 1..(n - 1) : more[i] = stack[i]) /\ more[n] = frame
    <3>. HIDE DEF n
    <3>1. DOMAIN more = DOMAIN stack
      BY <1>2
    <3>2. \A i \in DOMAIN stack : more[i] = IF i = n THEN frame ELSE stack[i]
      BY <1>2
    <3>3. \A i \in 1..(n - 1) : i \in 1..n /\ i # n
      BY <1>1
    <3>. QED BY <1>1, <3>1, <3>2, <3>3
  <2>2. DOMAIN more = 1..Len(more) /\ Len(more) \in Nat
    BY <1>3, LenProperties DEF Stacks
  <2>. QED BY <1>1, <2>1, <2>2
<1>6. Last(more) = frame
  BY <1>5 DEF Last
<1>7. Range(frame.defs) = Range(old.defs) \cup {item}
  <2>. DEFINE s == old.defs
              t == frame.defs
  <2>1. s \in Seq(Items) /\ t = Append(s, item)
    BY <1>1, <1>4
  <2>. HIDE DEF s, t
  <2>2. /\ Len(s) \in Nat /\ DOMAIN s = 1..Len(s) /\ DOMAIN t = 1..(Len(s) + 1)
        /\ \A i \in 1..Len(s) : t[i] = s[i]
        /\ t[Len(s) + 1] = item
    BY <2>1, Appended
  <2>3. Range(t) = Range(s) \cup {item}
    <3>1. \A i \in DOMAIN t : t[i] \in Range(s) \cup {item}
      BY <2>2 DEF Range
    <3>2. \A i \in DOMAIN s : i \in DOMAIN t /\ t[i] = s[i]
      BY <2>2
    <3>3. Len(s) + 1 \in DOMAIN t
      BY <2>2
    <3>. QED BY <2>2, <3>1, <3>2, <3>3 DEF Range
  <2>. QED BY <2>3 DEF s, t
<1>8. UrisKnown(more)
  <2>1. ASSUME NEW i \in 1..n, NEW d \in Range(more[i].defs)
        PROVE  d.uri # NULL
    <3>1. CASE i = n
      BY <1>1, <1>5, <1>7, <2>1, <3>1 DEF UrisKnown
    <3>2. CASE i # n
      BY <1>1, <1>5, <2>1, <3>2 DEF UrisKnown
    <3>. QED BY <3>1, <3>2
  <2>. QED BY <1>5, <2>1 DEF UrisKnown
<1>9. ASSUME NEW prefix
      PROVE  Declaring(more, prefix) # {} <=> Declaring(stack, prefix) # {} \/ item.prefix = prefix
  <2>1. ASSUME NEW i \in Declaring(more, prefix)
        PROVE  Declaring(stack, prefix) # {} \/ item.prefix = prefix
    <3>1. i \in 1..n /\ \E d \in Range(more[i].defs) : d.prefix = prefix
      BY <1>5, <2>1 DEF Declaring
    <3>2. CASE i = n
      BY <1>1, <1>5, <1>7, <3>1, <3>2 DEF Declaring
    <3>3. CASE i # n
      BY <1>1, <1>5, <3>1, <3>3 DEF Declaring
    <3>. QED BY <3>2, <3>3
  <2>2. ASSUME NEW i \in Declaring(stack, prefix)
        PROVE  i \in Declaring(more, prefix)
    <3>1. i \in 1..n /\ \E d \in Range(stack[i].defs) : d.prefix = prefix
      BY <1>1, <2>2 DEF Declaring
    <3>2. CASE i = n
      BY <1>1, <1>5, <1>7, <3>1, <3>2 DEF Declaring
    <3>3. CASE i # n
      BY <1>1, <1>5, <3>1, <3>3 DEF Declaring
    <3>. QED BY <3>2, <3>3
  <2>3. ASSUME item.prefix = prefix
        PROVE  n \in Declaring(more, prefix)
    BY <1>1, <1>5, <1>7, <2>3 DEF Declaring
  <2>. QED BY <2>1, <2>2, <2>3
<1>10. GetNsMapping(more, tag.prefix) # NULL
         <=> GetNsMapping(stack, tag.prefix) # NULL \/ item.prefix = tag.prefix
  BY <1>3, <1>8, <1>9, Lookup
<1>11. Last(more).defs = Append(Last(stack).defs, item)
  BY <1>4, <1>6 DEF old
<1>12. Last(more).bound <=> tag.prefix # NULL /\ GetNsMapping(more, tag.prefix) # NULL
  BY <1>4, <1>6, <1>10 DEF old
<1>. QED BY <1>3, <1>5, <1>8, <1>11, <1>12 DEF more

-----------------------------------------------------------------------------
(* How one phase of a callback leads to the next *)

(* The declarations of a tag have URIs and different prefixes. *)
LEMMA TagDefs ==
  ASSUME NEW tag \in StartTags
  PROVE  /\ Declarations(tag.items) \in Seq(Items)
         /\ \A i \in DOMAIN Declarations(tag.items) :
              /\ Declarations(tag.items)[i] \in Items
              /\ Declarations(tag.items)[i].uri # NULL
         /\ \A i, j \in DOMAIN Declarations(tag.items) :
              Mapped(Declarations(tag.items)[i]) = Mapped(Declarations(tag.items)[j]) => i = j
<1>. DEFINE D == Declarations(tag.items)
<1>1. DeclaredIn(D, tag.items, Len(tag.items))
  BY TagDeclarations
<1>. HIDE DEF D
<1>2. D \in Seq(Items)
  BY <1>1 DEF DeclaredIn
<1>3. \A i \in DOMAIN D : D[i] \in Items /\ D[i] \in Range(D)
  BY <1>2, LenProperties, ElementOfSeq DEF Range
<1>4. \A i \in DOMAIN D : D[i].uri # NULL
  BY <1>3, TagUris DEF D
<1>5. \A i, j \in DOMAIN D : Mapped(D[i]) = Mapped(D[j]) => i = j
  BY <1>1 DEF DeclaredIn, Mapped
<1>. QED BY <1>2, <1>3, <1>4, <1>5 DEF D

(* PSaxStartElement pushes the frame. *)
LEMMA FramePushed ==
  ASSUME NEW stack \in Stacks, NEW tags \in Seq(StartTags), NEW r,
         NEW program, program = StartAll(Last(tags), Declarations(Last(tags).items)),
         InStart(r, stack, tags, program)
  PROVE  /\ Last(tags) \in StartTags /\ program # <<>>
         /\ Head(program) = Doing("extend", Last(tags))
         /\ InDeclarations(r, ExtendNsStack(stack, Last(tags)), tags, Tail(program), 0)
<1>. DEFINE tag  == Last(tags)
            defs == Declarations(tag.items)
            more == ExtendNsStack(stack, tag)
            f    == Front(tags)
<1>1. /\ tag \in StartTags /\ f \in Seq(StartTags) /\ Len(tags) \in Nat \ {0} /\ Len(f) = Len(tags) - 1
      /\ tags # <<>>
  BY FrontOf DEF InStart
<1>2. defs \in Seq(Items) /\ 0 \in 0..Len(defs) /\ SubSeq(defs, 1, 0) = <<>>
  BY <1>1, TagDefs, SubSeqEmpty, LenProperties
<1>3. program # <<>> /\ Head(program) = Doing("extend", tag) /\ Tail(program) = StartRest(tag, defs, 0)
  <2>. HIDE DEF tag, defs
  <2>1. program = StartAll(tag, defs)
    BY DEF tag, defs
  <2>. QED BY <1>1, <1>2, <2>1, StartPrograms
<1>4. Reflects(r, stack, f) /\ Quiet(r) /\ Len(stack) = Len(tags)
  BY DEF InStart
<1>5. UrisKnown(stack)
  <2>. HIDE DEF f
  <2>. QED BY <1>1, <1>4, ReflectsUris
<1>6. /\ more \in Stacks /\ Len(more) = Len(stack) + 1
      /\ \A i \in 1..Len(stack) : more[i] = stack[i]
      /\ Last(more).defs = <<>>
      /\ Last(more).bound <=> tag.prefix # NULL /\ GetNsMapping(more, tag.prefix) # NULL
  BY <1>1, <1>5, Extended
<1>7. Reflects(r, more, f)
  <2>. HIDE DEF f, more
  <2>1. Len(more) > Len(f) /\ \A i \in 1..(Len(f) + 1) : more[i] = stack[i]
    BY <1>1, <1>4, <1>6
  <2>. QED BY <1>1, <1>4, <1>6, <2>1, ReflectsAgain
<1>8. r.announced = MappingsOf(Last(more).defs) /\ r.ending = {}
  BY <1>4, <1>6 DEF Quiet, MappingsOf
<1>9. Len(more) = Len(tags) + 1
  BY <1>4, <1>6
<1>. QED BY <1>1, <1>2, <1>3, <1>6, <1>7, <1>8, <1>9 DEF InDeclarations

(* PmmAddNamespace, and the announcement of the mapping *)
LEMMA OneMoreDeclared ==
  ASSUME NEW stack \in Stacks, NEW tags \in Seq(StartTags), NEW r \in Readers, NEW program, NEW j,
         InDeclarations(r, stack, tags, program, j),
         j < Len(Declarations(Last(tags).items)),
         NEW d, d = Declarations(Last(tags).items)[j + 1],
         NEW q, q = [r EXCEPT !.announced = @ \cup {Mapped(d)}]
  PROVE  /\ Last(tags) \in StartTags /\ d \in Items /\ program # <<>>
         /\ Head(program) = DeclareIt(Last(tags), d)
         /\ Mapped(d) \notin r.announced /\ r.ending = {}
         /\ InDeclarations(q, AddNamespace(stack, Last(tags), d), tags, Tail(program), j + 1)
<1>. DEFINE tag  == Last(tags)
            defs == Declarations(tag.items)
            more == AddNamespace(stack, tag, d)
            f    == Front(tags)
<1>1. /\ tag \in StartTags /\ f \in Seq(StartTags) /\ Len(tags) \in Nat \ {0} /\ Len(f) = Len(tags) - 1
      /\ tags # <<>>
  BY FrontOf DEF InDeclarations
<1>2. /\ j \in 0..Len(defs) /\ program = StartRest(tag, defs, j)
      /\ Last(stack).defs = SubSeq(defs, 1, j)
      /\ (Last(stack).bound <=> tag.prefix # NULL /\ GetNsMapping(stack, tag.prefix) # NULL)
      /\ Len(stack) = Len(tags) + 1
      /\ Reflects(r, stack, f)
      /\ r.announced = MappingsOf(Last(stack).defs)
      /\ r.ending = {}
  BY DEF InDeclarations
<1>3. /\ defs \in Seq(Items) /\ Len(defs) \in Nat /\ DOMAIN defs = 1..Len(defs)
      /\ j \in Nat /\ j \in 0..(Len(defs) - 1) /\ j + 1 \in 0..Len(defs) /\ j + 1 \in DOMAIN defs
      /\ d = defs[j + 1]
  BY <1>1, <1>2, TagDefs, LenProperties
<1>4. d \in Items /\ d.uri # NULL
  <2>1. \A i \in DOMAIN defs : defs[i] \in Items /\ defs[i].uri # NULL
    BY <1>1, TagDefs
  <2>. HIDE DEF defs
  <2>. QED BY <1>3, <2>1
<1>5. program # <<>> /\ Head(program) = DeclareIt(tag, d) /\ Tail(program) = StartRest(tag, defs, j + 1)
  <2>1. j < Len(defs)
    OBVIOUS
  <2>. HIDE DEF tag, defs
  <2>2. /\ StartRest(tag, defs, j) # <<>>
        /\ Head(StartRest(tag, defs, j)) = DeclareIt(tag, defs[j + 1])
    BY <1>1, <1>2, <1>3, <2>1, StartInstructions
  <2>3. Tail(StartRest(tag, defs, j)) = StartRest(tag, defs, j + 1)
    BY <1>1, <1>3, StartAdvances
  <2>. QED BY <1>2, <1>3, <2>2, <2>3
<1>6. \A i, k \in DOMAIN defs : Mapped(defs[i]) = Mapped(defs[k]) => i = k
  BY <1>1, TagDefs
<1>. HIDE DEF defs, f, tag
<1>7. /\ SubSeq(defs, 1, j) \in Seq(Items) /\ Len(SubSeq(defs, 1, j)) = j
      /\ \A i \in 1..j : SubSeq(defs, 1, j)[i] = defs[i]
      /\ SubSeq(defs, 1, j + 1) = Append(SubSeq(defs, 1, j), d)
  <2>1. j \in 0..Len(defs)
    BY <1>2
  <2>. QED BY <1>3, <2>1, Shortened, Longer
<1>8. Mapped(d) \notin r.announced
  <2>. DEFINE s == SubSeq(defs, 1, j)
  <2>1. DOMAIN s = 1..j
    BY <1>7, LenProperties
  <2>2. \A i \in 1..j : s[i] = defs[i] /\ i \in DOMAIN defs /\ i # j + 1
    BY <1>3, <1>7
  <2>3. \A i \in 1..j : Mapped(s[i]) # Mapped(d)
    BY <1>3, <1>6, <2>2
  <2>. HIDE DEF s
  <2>4. r.announced = {Mapped(s[i]) : i \in 1..j}
    BY <1>2, <2>1 DEF MappingsOf, s
  <2>. QED BY <2>3, <2>4
<1>9. UrisKnown(stack)
  <2>1. Len(stack) = Len(f) + 2
    BY <1>1, <1>2
  <2>2. \A i \in DOMAIN stack : i \in 1..(Len(f) + 1) \/ i = Len(stack)
    BY <1>1, <2>1, LenProperties DEF Stacks
  <2>3. \A e \in Range(stack[Len(stack)].defs) : e.uri # NULL
    <3>. DEFINE s == SubSeq(defs, 1, j)
    <3>1. stack[Len(stack)].defs = s /\ DOMAIN s = 1..j
      BY <1>2, <1>7, LenProperties DEF Last
    <3>2. \A i \in 1..j : s[i] = defs[i] /\ i \in DOMAIN defs
      BY <1>3, <1>7
    <3>3. \A i \in DOMAIN defs : defs[i].uri # NULL
      BY <1>1, TagDefs DEF defs
    <3>. HIDE DEF s
    <3>. QED BY <3>1, <3>2, <3>3 DEF Range
  <2>4. \A i \in 1..(Len(f) + 1) : \A e \in Range(stack[i].defs) : e.uri # NULL
    <3>. DEFINE low == SubSeq(stack, 1, Len(f) + 1)
    <3>1. Len(f) + 1 \in 0..Len(stack) /\ Len(f) \in Nat
      BY <1>1, <2>1, LenProperties
    <3>2. low \in Stacks /\ Len(low) = Len(f) + 1 /\ \A i \in 1..(Len(f) + 1) : low[i] = stack[i]
      BY <3>1, Shortened DEF Stacks
    <3>. HIDE DEF low
    <3>3. Reflects(r, low, f)
      <4>1. Len(low) > Len(f)
        BY <3>1, <3>2
      <4>. QED BY <1>1, <1>2, <3>2, <4>1, ReflectsAgain
    <3>4. UrisKnown(low)
      BY <1>1, <3>2, <3>3, ReflectsUris
    <3>5. DOMAIN low = 1..(Len(f) + 1)
      BY <3>2, LenProperties DEF Stacks
    <3>. QED BY <3>2, <3>4, <3>5 DEF UrisKnown
  <2>. QED BY <2>2, <2>3, <2>4 DEF UrisKnown
<1>10. stack # <<>>
  BY <1>1, <1>2, EmptySeq
<1>11. /\ more \in Stacks /\ Len(more) = Len(stack)
       /\ \A i \in 1..(Len(stack) - 1) : more[i] = stack[i]
       /\ Last(more).defs = Append(Last(stack).defs, d)
       /\ Last(more).bound <=> tag.prefix # NULL /\ GetNsMapping(more, tag.prefix) # NULL
  BY <1>1, <1>2, <1>4, <1>9, <1>10, Added
<1>. HIDE DEF more
<1>12. Last(more).defs = SubSeq(defs, 1, j + 1)
  BY <1>2, <1>7, <1>11
<1>13. q.elements = r.elements /\ q.ending = {} /\ q.announced = r.announced \cup {Mapped(d)}
  BY <1>2 DEF Readers
<1>14. Reflects(q, more, f)
  <2>1. Len(more) > Len(f) /\ \A i \in 1..(Len(f) + 1) : more[i] = stack[i]
    BY <1>1, <1>2, <1>11
  <2>2. more \in Stacks /\ f \in Seq(StartTags) /\ Reflects(r, stack, f) /\ q.elements = r.elements
    BY <1>1, <1>2, <1>11, <1>13
  <2>3. ASSUME NEW z, z.elements = r.elements
        PROVE  Reflects(z, more, f)
    BY <2>1, <2>2, <2>3, ReflectsAgain
  <2>. QED BY <2>2, <2>3
<1>15. q.announced = MappingsOf(Last(more).defs)
  <2>. DEFINE s == SubSeq(defs, 1, j)
              t == SubSeq(defs, 1, j + 1)
  <2>1. s \in Seq(Items) /\ t = Append(s, d) /\ Len(s) = j
    BY <1>7
  <2>2. r.announced = MappingsOf(s) /\ Last(more).defs = t
    BY <1>2, <1>12
  <2>. HIDE DEF s, t
  <2>3. /\ DOMAIN s = 1..j /\ DOMAIN t = 1..(j + 1)
        /\ (\A i \in 1..j : t[i] = s[i]) /\ t[j + 1] = d
    BY <1>4, <2>1, Appended
  <2>4. MappingsOf(t) = MappingsOf(s) \cup {Mapped(d)}
    <3>1. \A i \in 1..(j + 1) : i \in 1..j \/ i = j + 1
      BY <1>3
    <3>2. \A i \in 1..j : i \in 1..(j + 1)
      BY <1>3
    <3>3. j + 1 \in 1..(j + 1)
      BY <1>3
    <3>. QED BY <2>3, <3>1, <3>2, <3>3 DEF MappingsOf
  <2>. QED BY <1>13, <2>2, <2>4
<1>16. Len(more) = Len(tags) + 1
  BY <1>2, <1>11
<1>17. InDeclarations(q, more, tags, Tail(program), j + 1)
  BY <1>1, <1>3, <1>5, <1>11, <1>12, <1>13, <1>14, <1>15, <1>16
     DEF InDeclarations, tag, defs, f
<1>. QED BY <1>1, <1>2, <1>4, <1>5, <1>8, <1>17 DEF more, tag

(* All declarations of the element are on its frame when it is started. *)
LEMMA AllDeclared ==
  ASSUME NEW stack, NEW tags \in Seq(StartTags), NEW r, NEW program, NEW j,
         InDeclarations(r, stack, tags, program, j), j = Len(Declarations(Last(tags).items))
  PROVE  /\ Last(tags) \in StartTags /\ program # <<>> /\ Tail(program) = <<>>
         /\ Head(program) = Doing("start_element", Last(tags))
         /\ Last(stack).defs = Declarations(Last(tags).items)
<1>. DEFINE tag  == Last(tags)
            defs == Declarations(tag.items)
<1>1. tag \in StartTags
  BY FrontOf DEF InDeclarations
<1>2. /\ j \in 0..Len(defs) /\ program = StartRest(tag, defs, j)
      /\ Last(stack).defs = SubSeq(defs, 1, j)
  BY DEF InDeclarations
<1>3. defs \in Seq(Items) /\ j = Len(defs)
  BY <1>1, TagDefs
<1>. HIDE DEF defs, tag
<1>4. SubSeq(defs, 1, j) = defs
  BY <1>3, SubSeqFull
<1>5. /\ StartRest(tag, defs, j) # <<>> /\ Tail(StartRest(tag, defs, j)) = <<>>
      /\ Head(StartRest(tag, defs, j)) = Doing("start_element", tag)
  BY <1>1, <1>2, <1>3, StartInstructions
<1>. QED BY <1>1, <1>2, <1>4, <1>5 DEF defs, tag

(* The handler is called for the start tag. *)
LEMMA ElementStarted ==
  ASSUME NEW stack \in Stacks, NEW tags \in Seq(StartTags), NEW r \in Readers, NEW program, NEW j,
         InDeclarations(r, stack, tags, program, j), j = Len(Declarations(Last(tags).items)),
         NEW q, q = Begun(r, GenElement(stack, Last(tags))), NEW read
  PROVE  InPlain(q, stack, tags, read, <<>>)
<1>. DEFINE new == [e |-> GenElement(stack, Last(tags)), maps |-> MappingsOf(Last(stack).defs)]
<1>1. /\ tags # <<>> /\ Len(stack) = Len(tags) + 1 /\ Reflects(r, stack, Front(tags))
      /\ r.announced = MappingsOf(Last(stack).defs) /\ r.ending = {}
  BY DEF InDeclarations
<1>2. q.elements = Append(r.elements, new) /\ q.announced = {} /\ q.ending = {}
  BY <1>1 DEF Readers, Begun
<1>3. Last(stack).defs = Declarations(Last(tags).items)
  BY AllDeclared
<1>4. Reflects(q, stack, tags)
  <2>1. ASSUME NEW z, z.elements = Append(r.elements, new)
        PROVE  Reflects(z, stack, tags)
    BY <1>1, <1>3, <2>1, ReflectsMore
  <2>. QED BY <1>2, <2>1
<1>. QED BY <1>1, <1>2, <1>4 DEF InPlain, Quiet

(* The handler is called for the end tag. *)
LEMMA ElementEnded ==
  ASSUME NEW stack \in Stacks, NEW tags \in Seq(StartTags), NEW r \in Readers, NEW read, NEW program,
         InEnd(r, stack, tags, read, program),
         program = EndAll(Last(read).tag, Declarations(Last(read).tag.items)),
         NEW q, q = Finished(r)
  PROVE  /\ Last(read).tag \in StartTags /\ program # <<>>
         /\ Head(program) = Doing("end_element", Last(read).tag)
         /\ Quiet(r) /\ r.elements # <<>>
         /\ Last(r.elements).e = GenElement(stack, Last(read).tag)
         /\ InMappings(q, stack, tags, read, Tail(program), 0)
<1>. DEFINE tag  == Last(read).tag
            defs == Declarations(tag.items)
<1>1. /\ tag \in StartTags /\ read # <<>> /\ Last(read).event = "end"
      /\ Reflects(r, stack, Append(tags, tag)) /\ Len(stack) = Len(tags) + 2 /\ Quiet(r)
  BY DEF InEnd
<1>2. defs \in Seq(Items) /\ Len(defs) \in Nat /\ DOMAIN defs = 1..Len(defs)
  BY <1>1, TagDefs, LenProperties
<1>. HIDE DEF tag
<1>3. /\ r.elements # <<>>
      /\ Last(r.elements) = [e |-> GenElement(stack, tag), maps |-> MappingsOf(Declarations(tag.items))]
      /\ \A z : z.elements = Front(r.elements) => Reflects(z, stack, tags)
  BY <1>1, ReflectsLess
<1>4. q.elements = Front(r.elements) /\ q.ending = MappingsOf(defs) /\ q.announced = {}
  BY <1>1, <1>3 DEF Readers, Quiet, Finished
<1>5. program # <<>> /\ Head(program) = Doing("end_element", tag) /\ Tail(program) = EndRest(defs, 0)
  <2>1. program = EndAll(tag, defs)
    BY DEF tag
  <2>. HIDE DEF defs
  <2>. QED BY <1>1, <1>2, <2>1, EndPrograms
<1>6. q.ending = {Mapped(defs[i]) : i \in (0 + 1)..Len(defs)}
  <2>. HIDE DEF defs
  <2>. QED BY <1>2, <1>4 DEF MappingsOf
<1>7. 0 \in 0..Len(defs)
  BY <1>2
<1>8. Reflects(q, stack, tags)
  BY <1>3, <1>4
<1>. QED BY <1>1, <1>3, <1>4, <1>5, <1>6, <1>7, <1>8 DEF InMappings, tag

(* PmmNarrowNsStack ends one more mapping. *)
LEMMA OneMoreEnded ==
  ASSUME NEW stack \in Stacks, NEW tags \in Seq(StartTags), NEW r \in Readers, NEW read,
         NEW program, NEW j, InMappings(r, stack, tags, read, program, j),
         j < Len(Declarations(Last(read).tag.items)),
         NEW d, d = Declarations(Last(read).tag.items)[j + 1],
         NEW q, q = [r EXCEPT !.ending = @ \ {Mapped(d)}]
  PROVE  /\ d \in Items /\ program # <<>>
         /\ Head(program) = Do(Mapping("end_prefix_mapping", d))
         /\ Mapped(d) \in r.ending
         /\ InMappings(q, stack, tags, read, Tail(program), j + 1)
<1>. DEFINE tag  == Last(read).tag
            defs == Declarations(tag.items)
<1>1. /\ tag \in StartTags /\ read # <<>> /\ Last(read).event = "end"
      /\ j \in 0..Len(defs) /\ program = EndRest(defs, j)
      /\ r.ending = {Mapped(defs[i]) : i \in (j + 1)..Len(defs)}
      /\ Len(stack) = Len(tags) + 2 /\ Reflects(r, stack, tags) /\ r.announced = {}
  BY DEF InMappings
<1>2. defs \in Seq(Items) /\ \A i, k \in DOMAIN defs : Mapped(defs[i]) = Mapped(defs[k]) => i = k
  BY <1>1, TagDefs
<1>. HIDE DEF tag
<1>3. j < Len(defs) /\ d = defs[j + 1]
  BY DEF tag
<1>. HIDE DEF defs
<1>4. /\ Len(defs) \in Nat /\ DOMAIN defs = 1..Len(defs) /\ j \in Nat
      /\ j \in 0..(Len(defs) - 1) /\ j + 1 \in 0..Len(defs) /\ j + 1 \in 1..Len(defs)
      /\ j + 1 \in (j + 1)..Len(defs)
  BY <1>1, <1>2, <1>3, LenProperties
<1>5. d \in Items
  BY <1>2, <1>3, <1>4, ElementOfSeq
<1>6. program # <<>> /\ Head(program) = Do(Mapping("end_prefix_mapping", d))
      /\ Tail(program) = EndRest(defs, j + 1)
  <2>1. EndRest(defs, j) # <<>> /\ Head(EndRest(defs, j)) = Do(Mapping("end_prefix_mapping", defs[j + 1]))
    BY <1>1, <1>2, <1>3, EndInstructions
  <2>2. Tail(EndRest(defs, j)) = EndRest(defs, j + 1)
    BY <1>2, <1>4, EndAdvances
  <2>. QED BY <1>1, <1>3, <2>1, <2>2
<1>7. Mapped(d) \in r.ending
  BY <1>1, <1>3, <1>4
<1>8. q.elements = r.elements /\ q.announced = {} /\ q.ending = r.ending \ {Mapped(d)}
  BY <1>1 DEF Readers
<1>9. r.ending \ {Mapped(d)} = {Mapped(defs[i]) : i \in (j + 1 + 1)..Len(defs)}
  <2>1. \A i \in (j + 1)..Len(defs) :
          i \in DOMAIN defs /\ (i = j + 1 \/ i \in (j + 1 + 1)..Len(defs))
    BY <1>4
  <2>2. \A i \in (j + 1 + 1)..Len(defs) : i \in (j + 1)..Len(defs) /\ i # j + 1
    BY <1>4
  <2>3. \A i \in (j + 1)..Len(defs) : Mapped(defs[i]) = Mapped(d) <=> i = j + 1
    BY <1>2, <1>3, <1>4, <2>1
  <2>. QED BY <1>1, <2>1, <2>2, <2>3
<1>10. Reflects(q, stack, tags)
  BY <1>1, <1>8 DEF Reflects
<1>11. InMappings(q, stack, tags, read, Tail(program), j + 1)
  BY <1>1, <1>4, <1>6, <1>8, <1>9, <1>10 DEF InMappings, defs, tag
<1>. QED BY <1>5, <1>6, <1>7, <1>11

(* All mappings of the element are ended when its frame is dropped. *)
LEMMA FramePopped ==
  ASSUME NEW stack \in Stacks, NEW tags \in Seq(StartTags), NEW r \in Readers, NEW read,
         NEW program, NEW j, InMappings(r, stack, tags, read, program, j),
         j = Len(Declarations(Last(read).tag.items))
  PROVE  /\ program # <<>> /\ Head(program) = NarrowIt /\ Tail(program) = <<>>
         /\ InPlain(r, NarrowNsStack(stack), tags, read, <<>>)
<1>. DEFINE tag  == Last(read).tag
            defs == Declarations(tag.items)
            less == Front(stack)
<1>1. /\ tag \in StartTags
      /\ j \in 0..Len(defs) /\ program = EndRest(defs, j)
      /\ r.ending = {Mapped(defs[i]) : i \in (j + 1)..Len(defs)}
      /\ Len(stack) = Len(tags) + 2 /\ Reflects(r, stack, tags) /\ r.announced = {}
  BY DEF InMappings
<1>2. defs \in Seq(Items) /\ Len(defs) \in Nat /\ j = Len(defs)
  BY <1>1, TagDefs, LenProperties
<1>. HIDE DEF defs
<1>3. program # <<>> /\ Head(program) = NarrowIt /\ Tail(program) = <<>>
  BY <1>1, <1>2, EndInstructions
<1>4. Quiet(r)
  <2>1. (j + 1)..Len(defs) = {}
    BY <1>2
  <2>. QED BY <1>1, <2>1 DEF Quiet
<1>5. Len(tags) \in Nat /\ stack # <<>>
  BY <1>1, LenProperties, EmptySeq
<1>6. less \in Stacks /\ Len(less) = Len(tags) + 1 /\ \A i \in 1..(Len(tags) + 1) : less[i] = stack[i]
  <2>1. /\ less \in Stacks /\ Len(less) = Len(stack) - 1
        /\ \A i \in 1..(Len(stack) - 1) : less[i] = stack[i]
    BY <1>5, FrontOf DEF Stacks
  <2>2. Len(stack) - 1 = Len(tags) + 1
    BY <1>1, <1>5
  <2>. QED BY <2>1, <2>2
<1>. HIDE DEF less
<1>7. Reflects(r, less, tags)
  <2>1. Len(less) > Len(tags)
    BY <1>5, <1>6
  <2>. QED BY <1>1, <1>6, <2>1, ReflectsAgain
<1>. QED BY <1>3, <1>4, <1>6, <1>7 DEF InPlain, NarrowNsStack, less

(* A flush is put before the program of a callback. *)
LEMMA FlushFirst ==
  ASSUME NEW program \in Seq(Instructions)
  PROVE  /\ Before(FlushIt, program) # <<>> /\ Head(Before(FlushIt, program)) = FlushIt
         /\ Tail(Before(FlushIt, program)) = program
<1>1. FlushIt \in Instructions
  BY DEF Instructions
<1>. QED BY <1>1, PutBefore

-----------------------------------------------------------------------------
(* Executing an instruction in each of the phases *)

(* An instruction is executed by its own action. *)
LEMMA ByInstruction ==
  ASSUME Execute
  PROVE  /\ todo # <<>>
         /\ Head(todo).do = "flush" => Flush
         /\ Head(todo).do = "extend" => ExtendStack
         /\ Head(todo).do = "declare" => Declare
         /\ Head(todo).do = "narrow" => NarrowStack
         /\ Head(todo).do = "start_element" => CallStart
         /\ Head(todo).do = "end_element" => CallEnd
         /\ Head(todo).do = "call" => CallMethod
BY DEF Execute, Flush, ExtendStack, Declare, NarrowStack, CallStart, CallEnd, CallMethod, Running

(* What holds whenever an instruction is executed *)
LEMMA Executing ==
  ASSUME Typed, Streams, todo # <<>>
  PROVE  /\ status = "parsing" /\ sax # NULL /\ sax \in Vectors
         /\ sax.stack \in Stacks /\ sax.stack # <<>> /\ sax.stack[1] = Bottom
         /\ sax.charbuf \in Seq(Nat)
         /\ todo \in Seq(Instructions) /\ open \in Seq(StartTags)
         /\ ReaderOf(log) \in Readers /\ ReaderOf(log).ok
         /\ Somewhere(ReaderOf(log), sax.stack, open, calls, todo)
<1>1. status = "parsing"
  BY DEF Typed
<1>2. ReaderOf(log) \in Readers
  BY ReaderSteps, PlainTyped DEF Typed, Events, PlainKinds
<1>. QED BY <1>1, <1>2, VectorThere DEF Typed, Streams, Based

(* A method is called: the automaton must accept the event. *)
LEMMA CallKeeps ==
  ASSUME Typed, Streams, todo # <<>>, NEW e \in Events, Call(e), UNCHANGED parser,
         sax' # NULL, sax'.stack # <<>>, sax'.stack[1] = Bottom,
         NEW q, q = Step(ReaderOf(log), e), q.ok,
         Somewhere(q, sax'.stack, open, calls, Tail(todo))
  PROVE  Streams'
<1>1. log' = Append(log, e) /\ open' = open /\ calls' = calls
  BY DEF Call, parser
<1>2. ReaderOf(log') = q
  BY <1>1, ReaderSteps DEF Typed
<1>3. status' = "died" \/ todo' = Tail(todo)
  BY DEF Call
<1>. QED BY <1>1, <1>2, <1>3 DEF Streams, Based

(* An instruction without an event keeps the streams. *)
LEMMA SilenceKeeps ==
  ASSUME Streams, Silently, UNCHANGED parser,
         sax' # NULL, sax'.stack # <<>>, sax'.stack[1] = Bottom,
         Somewhere(ReaderOf(log), sax'.stack, open, calls, Tail(todo))
  PROVE  Streams'
<1>1. log' = log /\ open' = open /\ calls' = calls /\ todo' = Tail(todo)
  BY DEF Silently, parser
<1>. QED BY <1>1 DEF Streams, Based

(* The flush: the buffer is empty or the handler hears of plain text. *)
LEMMA FlushKeeps ==
  ASSUME Typed, Streams, Flush, Quiet(ReaderOf(log)),
         Somewhere(ReaderOf(log), sax.stack, open, calls, Tail(todo))
  PROVE  Streams'
<1>. DEFINE r == ReaderOf(log)
            e == Characters(sax.charbuf)
<1>1. todo # <<>> /\ UNCHANGED parser /\ sax' = [sax EXCEPT !.charbuf = <<>>]
      /\ (Silently \/ Call(e))
  BY DEF Flush, Running
<1>2. sax' # NULL /\ sax'.stack = sax.stack
  <2>1. sax' \in Vectors /\ sax'.stack = sax.stack
    BY <1>1, Executing, EmptySeq DEF Vectors
  <2>. QED BY <2>1, NullAssumption
<1>3. e \in PlainEvents /\ e \in Events
  BY <1>1, Executing DEF PlainEvents, Events
<1>4. Step(r, e) = r /\ r.ok
  BY <1>1, <1>3, Executing, StepPlain
<1>5. CASE Silently
  BY <1>1, <1>2, <1>5, Executing, SilenceKeeps
<1>6. CASE Call(e)
  BY <1>1, <1>2, <1>3, <1>4, <1>6, Executing, CallKeeps
<1>. QED BY <1>1, <1>5, <1>6

(* An instruction between two tags keeps them. *)
LEMMA PlainKeeps ==
  ASSUME Typed, Streams, Execute, InPlain(ReaderOf(log), sax.stack, open, calls, todo)
  PROVE  Streams'
<1>. DEFINE r == ReaderOf(log)
            x == Head(todo)
<1>1. todo # <<>> /\ todo \in Seq(Instructions) /\ r \in Readers /\ r.ok /\ sax # NULL
      /\ sax.stack # <<>> /\ sax.stack[1] = Bottom
  BY ByInstruction, Executing
<1>2. /\ \A i \in DOMAIN todo : Plain(todo[i])
      /\ calls # <<>> /\ Last(calls).event # "start" /\ Quiet(r)
      /\ Len(sax.stack) = Len(open) + 1 /\ Reflects(r, sax.stack, open)
  BY <1>1 DEF InPlain
<1>3. Plain(x) /\ \A i \in DOMAIN Tail(todo) : Plain(Tail(todo)[i])
  <2>1. /\ x = todo[1] /\ Len(todo) \in Nat \ {0} /\ DOMAIN todo = 1..Len(todo)
        /\ DOMAIN Tail(todo) = 1..(Len(todo) - 1)
        /\ \A i \in 1..(Len(todo) - 1) : Tail(todo)[i] = todo[i + 1]
    <3>1. /\ x = todo[1] /\ Len(todo) \in Nat \ {0} /\ Tail(todo) \in Seq(Instructions)
          /\ Len(Tail(todo)) = Len(todo) - 1
          /\ \A i \in 1..(Len(todo) - 1) : Tail(todo)[i] = todo[i + 1]
      BY <1>1, TailOf
    <3>2. DOMAIN todo = 1..Len(todo) /\ DOMAIN Tail(todo) = 1..Len(Tail(todo))
      BY <1>1, <3>1, LenProperties
    <3>. QED BY <3>1, <3>2
  <2>2. 1 \in DOMAIN todo /\ \A i \in 1..(Len(todo) - 1) : i + 1 \in DOMAIN todo
    BY <2>1
  <2>. QED BY <1>2, <2>1, <2>2
<1>4. Somewhere(r, sax.stack, open, calls, Tail(todo))
  BY <1>2, <1>3 DEF Somewhere, InPlain
<1>5. CASE x = FlushIt
  <2>1. Flush
    BY <1>5, ByInstruction DEF FlushIt
  <2>. QED BY <1>2, <1>4, <2>1, FlushKeeps
<1>6. CASE \E e \in PlainEvents : x = Do(e)
  <2>1. PICK e \in PlainEvents : x = Do(e)
    BY <1>6
  <2>2. x.do = "call" /\ x.e = e /\ e \in Events
    BY <2>1 DEF Do, Events
  <2>3. Call(e) /\ UNCHANGED <<parser, sax>>
    BY <2>2, ByInstruction DEF CallMethod
  <2>4. Step(r, e) = r
    BY <1>1, <1>2, StepPlain
  <2>. QED BY <1>1, <1>4, <2>2, <2>3, <2>4, CallKeeps
<1>. QED BY <1>3, <1>5, <1>6 DEF Plain

(* So does the first of a start tag, *)
LEMMA StartKeeps ==
  ASSUME Typed, Streams, Execute, InStart(ReaderOf(log), sax.stack, open, todo)
  PROVE  Streams'
<1>. DEFINE r   == ReaderOf(log)
            tag == Last(open)
            all == StartAll(tag, Declarations(tag.items))
<1>1. /\ todo # <<>> /\ r \in Readers /\ sax # NULL /\ sax \in Vectors
      /\ sax.stack \in Stacks /\ open \in Seq(StartTags) /\ sax.stack # <<>> /\ sax.stack[1] = Bottom
  BY ByInstruction, Executing
<1>2. /\ open # <<>> /\ (todo = all \/ todo = Before(FlushIt, all)) /\ Quiet(r)
      /\ Len(sax.stack) = Len(open) /\ Reflects(r, sax.stack, Front(open))
  BY DEF InStart
<1>3. tag \in StartTags
  BY <1>1, <1>2, FrontOf
<1>4. CASE todo = all
  <2>1. /\ Head(todo) = Doing("extend", tag)
        /\ InDeclarations(r, ExtendNsStack(sax.stack, tag), open, Tail(todo), 0)
    BY <1>1, <1>4, FramePushed
  <2>2. Silently /\ UNCHANGED parser /\ sax' = [sax EXCEPT !.stack = ExtendNsStack(@, tag)]
    BY <2>1, ByInstruction DEF ExtendStack, Doing
  <2>3. UrisKnown(sax.stack)
    <3>1. Front(open) \in Seq(StartTags) /\ Len(sax.stack) = Len(Front(open)) + 1
      BY <1>1, <1>2, FrontOf
    <3>. QED BY <1>1, <1>2, <3>1, ReflectsUris
  <2>4. ExtendNsStack(sax.stack, tag) \in Stacks
    BY <1>1, <1>3, StackTypes
  <2>5. sax' # NULL /\ sax'.stack = ExtendNsStack(sax.stack, tag)
    <3>1. sax' \in Vectors /\ sax'.stack = ExtendNsStack(sax.stack, tag)
      BY <1>1, <2>2, <2>4 DEF Vectors, Stacks
    <3>. QED BY <3>1, NullAssumption
  <2>6. sax'.stack # <<>> /\ sax'.stack[1] = Bottom
    <3>. DEFINE more == ExtendNsStack(sax.stack, tag)
    <3>1. more \in Stacks /\ Len(more) = Len(sax.stack) + 1 /\ \A i \in 1..Len(sax.stack) : more[i] = sax.stack[i]
      BY <1>1, <1>3, <2>3, Extended
    <3>. HIDE DEF more
    <3>2. Len(sax.stack) \in Nat \ {0} /\ 1 \in 1..Len(sax.stack)
      BY <1>1, EmptySeq DEF Stacks
    <3>. QED BY <1>1, <2>5, <3>1, <3>2, EmptySeq DEF more
  <2>7. Somewhere(r, sax'.stack, open, calls, Tail(todo))
    <3>1. 0 \in Nat
      OBVIOUS
    <3>. QED BY <2>1, <2>5, <3>1 DEF Somewhere
  <2>. QED BY <2>2, <2>5, <2>6, <2>7, SilenceKeeps
<1>5. CASE todo = Before(FlushIt, all)
  <2>1. all \in Seq(Instructions)
    <3>. HIDE DEF tag
    <3>. QED BY <1>3, TagDefs, StartPrograms
  <2>2. Head(todo) = FlushIt /\ Tail(todo) = all
    <3>. HIDE DEF all
    <3>. QED BY <1>5, <2>1, FlushFirst
  <2>3. Flush
    BY <2>2, ByInstruction DEF FlushIt
  <2>4. Somewhere(r, sax.stack, open, calls, Tail(todo))
    BY <1>2, <2>2 DEF InStart, Somewhere
  <2>. QED BY <1>2, <2>3, <2>4, FlushKeeps
<1>. QED BY <1>2, <1>4, <1>5

(* each of its declarations and its start, *)
LEMMA DeclarationsKeep ==
  ASSUME Typed, Streams, Execute, NEW j \in Nat,
         InDeclarations(ReaderOf(log), sax.stack, open, todo, j)
  PROVE  Streams'
<1>. DEFINE r    == ReaderOf(log)
            tag  == Last(open)
            defs == Declarations(tag.items)
<1>1. /\ todo # <<>> /\ r \in Readers /\ r.ok /\ sax # NULL /\ sax \in Vectors
      /\ sax.stack \in Stacks /\ open \in Seq(StartTags) /\ sax.stack # <<>> /\ sax.stack[1] = Bottom
  BY ByInstruction, Executing
<1>2. /\ open # <<>> /\ j \in 0..Len(defs) /\ r.ending = {} /\ Len(sax.stack) = Len(open) + 1
      /\ r.announced = MappingsOf(Last(sax.stack).defs)
  BY DEF InDeclarations
<1>3. tag \in StartTags
  BY <1>1, <1>2, FrontOf
<1>4. defs \in Seq(Items) /\ Len(defs) \in Nat
  BY <1>3, TagDefs, LenProperties
<1>5. CASE j < Len(defs)
  <2>. DEFINE d    == defs[j + 1]
              q    == [r EXCEPT !.announced = @ \cup {Mapped(d)}]
              e    == Mapping("start_prefix_mapping", d)
              more == AddNamespace(sax.stack, tag, d)
  <2>1. /\ d \in Items /\ Head(todo) = DeclareIt(tag, d)
        /\ Mapped(d) \notin r.announced /\ r.ending = {}
        /\ InDeclarations(q, more, open, Tail(todo), j + 1)
    BY <1>1, <1>5, OneMoreDeclared
  <2>. HIDE DEF d, q
  <2>2. Call(e) /\ UNCHANGED parser /\ sax' = [sax EXCEPT !.stack = more]
    BY <2>1, ByInstruction DEF Declare, DeclareIt
  <2>3. more \in Stacks
    BY <1>1, <1>3, <2>1, StackTypes
  <2>4. sax' # NULL /\ sax'.stack = more
    <3>1. sax' \in Vectors /\ sax'.stack = more
      BY <1>1, <2>2, <2>3 DEF Vectors, Stacks
    <3>. QED BY <3>1, NullAssumption
  <2>5. more # <<>> /\ more[1] = Bottom
    <3>1. Reflects(q, more, Front(open)) /\ Len(more) = Len(open) + 1 /\ Len(open) \in Nat
      BY <1>1, <2>1, LenProperties DEF InDeclarations
    <3>2. more[1] = Bottom
      BY <3>1 DEF Reflects
    <3>. QED BY <3>1, <3>2, EmptySeq
  <2>6. Step(r, e) = q /\ q.ok
    BY <1>1, <2>1, StepStartMapping DEF q, Readers
  <2>7. e \in Events
    BY <2>1 DEF Events, MappingEvents
  <2>8. Somewhere(q, more, open, calls, Tail(todo))
    <3>1. j + 1 \in Nat
      OBVIOUS
    <3>. QED BY <2>1, <3>1 DEF Somewhere
  <2>. HIDE DEF more, e
  <2>. QED BY <1>1, <2>2, <2>4, <2>5, <2>6, <2>7, <2>8, CallKeeps
<1>6. CASE j = Len(defs)
  <2>. DEFINE e == StartTag(sax.stack, tag)
              q == Begun(r, GenElement(sax.stack, tag))
  <2>1. Head(todo) = Doing("start_element", tag) /\ Tail(todo) = <<>>
    BY <1>1, <1>6, AllDeclared
  <2>2. Call(e) /\ UNCHANGED <<parser, sax>>
    BY <2>1, ByInstruction DEF CallStart, Doing
  <2>3. InPlain(q, sax.stack, open, calls, <<>>)
    BY <1>1, <1>6, ElementStarted
  <2>4. Step(r, e) = q
    <3>1. r \in Readers /\ r.ok /\ r.ending = {} /\ sax.stack \in Stacks /\ tag \in StartTags
      BY <1>1, <1>2, <1>3
    <3>2. e = StartTag(sax.stack, tag)
      OBVIOUS
    <3>. HIDE DEF e, r, tag
    <3>. QED BY <3>1, <3>2, StepStart
  <2>5. q.ok
    BY <1>1 DEF Readers, Begun
  <2>. HIDE DEF q
  <2>6. e \in Events
    BY <1>1, <1>3 DEF Events, TagEvents
  <2>7. Somewhere(q, sax.stack, open, calls, Tail(todo))
    BY <2>1, <2>3 DEF Somewhere
  <2>. HIDE DEF e
  <2>. QED BY <1>1, <2>2, <2>4, <2>5, <2>6, <2>7, CallKeeps
<1>. QED BY <1>2, <1>4, <1>5, <1>6

(* the first of an end tag, *)
LEMMA EndKeeps ==
  ASSUME Typed, Streams, Execute, InEnd(ReaderOf(log), sax.stack, open, calls, todo)
  PROVE  Streams'
<1>. DEFINE r   == ReaderOf(log)
            tag == Last(calls).tag
            all == EndAll(tag, Declarations(tag.items))
<1>1. /\ todo # <<>> /\ r \in Readers /\ r.ok /\ sax # NULL /\ sax \in Vectors
      /\ sax.stack \in Stacks /\ open \in Seq(StartTags) /\ sax.stack # <<>> /\ sax.stack[1] = Bottom
  BY ByInstruction, Executing
<1>2. /\ tag \in StartTags /\ (todo = all \/ todo = Before(FlushIt, all)) /\ Quiet(r)
  BY DEF InEnd
<1>3. CASE todo = all
  <2>. DEFINE q == Finished(r)
              e == EndTag(sax.stack, tag)
  <2>1. /\ Head(todo) = Doing("end_element", tag)
        /\ r.elements # <<>> /\ Last(r.elements).e = GenElement(sax.stack, tag)
        /\ InMappings(q, sax.stack, open, calls, Tail(todo), 0)
    <3>1. /\ InEnd(r, sax.stack, open, calls, todo) /\ r \in Readers
          /\ todo = EndAll(Last(calls).tag, Declarations(Last(calls).tag.items))
      BY <1>1, <1>3
    <3>. HIDE DEF r
    <3>. QED BY <1>1, <3>1, ElementEnded
  <2>2. Call(e) /\ UNCHANGED <<parser, sax>>
    BY <2>1, ByInstruction DEF CallEnd, Doing
  <2>3. Step(r, e) = q
    BY <1>1, <1>2, <2>1, StepEnd
  <2>4. q.ok
    BY <1>1 DEF Readers, Finished
  <2>. HIDE DEF q
  <2>5. e \in Events
    BY <1>1, <1>2 DEF Events, TagEvents
  <2>6. Somewhere(q, sax.stack, open, calls, Tail(todo))
    <3>1. 0 \in Nat
      OBVIOUS
    <3>. QED BY <2>1, <3>1 DEF Somewhere
  <2>. HIDE DEF e
  <2>. QED BY <1>1, <2>2, <2>3, <2>4, <2>5, <2>6, CallKeeps
<1>4. CASE todo = Before(FlushIt, all)
  <2>1. all \in Seq(Instructions)
    <3>. HIDE DEF tag
    <3>. QED BY <1>2, TagDefs, EndPrograms
  <2>2. Head(todo) = FlushIt /\ Tail(todo) = all
    <3>. HIDE DEF all
    <3>. QED BY <1>4, <2>1, FlushFirst
  <2>3. Flush
    BY <2>2, ByInstruction DEF FlushIt
  <2>4. Somewhere(r, sax.stack, open, calls, Tail(todo))
    BY <1>2, <2>2 DEF InEnd, Somewhere
  <2>. QED BY <1>2, <2>3, <2>4, FlushKeeps
<1>. QED BY <1>2, <1>3, <1>4

(* each of its mappings and the last one, *)
LEMMA MappingsKeep ==
  ASSUME Typed, Streams, Execute, NEW j \in Nat,
         InMappings(ReaderOf(log), sax.stack, open, calls, todo, j)
  PROVE  Streams'
<1>. DEFINE r    == ReaderOf(log)
            tag  == Last(calls).tag
            defs == Declarations(tag.items)
<1>1. /\ todo # <<>> /\ r \in Readers /\ r.ok /\ sax # NULL /\ sax \in Vectors
      /\ sax.stack \in Stacks /\ open \in Seq(StartTags) /\ sax.stack # <<>> /\ sax.stack[1] = Bottom
  BY ByInstruction, Executing
<1>2. tag \in StartTags /\ j \in 0..Len(defs)
  BY DEF InMappings
<1>3. defs \in Seq(Items) /\ Len(defs) \in Nat
  BY <1>2, TagDefs, LenProperties
<1>4. CASE j < Len(defs)
  <2>. DEFINE d == defs[j + 1]
              q == [r EXCEPT !.ending = @ \ {Mapped(d)}]
              e == Mapping("end_prefix_mapping", d)
  <2>1. /\ d \in Items /\ Head(todo) = Do(e) /\ Mapped(d) \in r.ending
        /\ InMappings(q, sax.stack, open, calls, Tail(todo), j + 1)
    BY <1>1, <1>4, OneMoreEnded
  <2>. HIDE DEF d, q
  <2>2. Call(e) /\ UNCHANGED <<parser, sax>>
    BY <2>1, ByInstruction DEF CallMethod, Do
  <2>3. Step(r, e) = q /\ q.ok
    BY <1>1, <2>1, StepEndMapping DEF q, Readers
  <2>4. e \in Events
    BY <2>1 DEF Events, MappingEvents
  <2>5. Somewhere(q, sax.stack, open, calls, Tail(todo))
    <3>1. j + 1 \in Nat
      OBVIOUS
    <3>. QED BY <2>1, <3>1 DEF Somewhere
  <2>. HIDE DEF e
  <2>. QED BY <1>1, <2>2, <2>3, <2>4, <2>5, CallKeeps
<1>5. CASE j = Len(defs)
  <2>. DEFINE less == NarrowNsStack(sax.stack)
  <2>1. Head(todo) = NarrowIt /\ Tail(todo) = <<>> /\ InPlain(r, less, open, calls, <<>>)
    BY <1>1, <1>5, FramePopped
  <2>2. Silently /\ UNCHANGED parser /\ sax' = [sax EXCEPT !.stack = less]
    BY <2>1, ByInstruction DEF NarrowStack, NarrowIt
  <2>3. less \in Stacks
    BY <1>1, NarrowTypes
  <2>4. sax' # NULL /\ sax'.stack = less
    <3>1. sax' \in Vectors /\ sax'.stack = less
      BY <1>1, <2>2, <2>3 DEF Vectors, Stacks
    <3>. QED BY <3>1, NullAssumption
  <2>5. less # <<>> /\ less[1] = Bottom
    <3>1. Reflects(r, less, open) /\ Len(less) = Len(open) + 1 /\ Len(open) \in Nat
      BY <1>1, <2>1, LenProperties DEF InPlain
    <3>2. less[1] = Bottom
      BY <3>1 DEF Reflects
    <3>. QED BY <3>1, <3>2, EmptySeq
  <2>6. Somewhere(r, less, open, calls, Tail(todo))
    BY <2>1 DEF Somewhere
  <2>. HIDE DEF less
  <2>. QED BY <2>2, <2>4, <2>5, <2>6, SilenceKeeps
<1>. QED BY <1>2, <1>3, <1>4, <1>5

(* and so any instruction. *)
LEMMA ExecuteKeeps ==
  ASSUME Typed, Streams, Execute
  PROVE  Streams'
<1>1. Somewhere(ReaderOf(log), sax.stack, open, calls, todo)
  BY ByInstruction, Executing
<1>. QED BY <1>1, PlainKeeps, StartKeeps, DeclarationsKeep, EndKeeps, MappingsKeep DEF Somewhere

-----------------------------------------------------------------------------
(* The callbacks *)

(* Between two callbacks nothing is under way. *)
LEMMA BetweenCallbacks ==
  ASSUME Typed, Streams, status = "parsing", todo = <<>>
  PROVE  InPlain(ReaderOf(log), sax.stack, open, calls, <<>>)
<1>. DEFINE r == ReaderOf(log)
<1>1. Somewhere(r, sax.stack, open, calls, <<>>)
  BY DEF Streams
<1>2. ~InStart(r, sax.stack, open, <<>>)
  <2>1. SUFFICES ASSUME InStart(r, sax.stack, open, <<>>)
                 PROVE  FALSE
    OBVIOUS
  <2>. DEFINE tag  == Last(open)
              defs == Declarations(tag.items)
  <2>2. tag \in StartTags
    BY <2>1, FrontOf DEF InStart, Typed
  <2>. HIDE DEF tag
  <2>3. StartAll(tag, defs) \in Seq(Instructions) /\ StartAll(tag, defs) # <<>>
    BY <2>2, TagDefs, StartPrograms
  <2>4. Before(FlushIt, StartAll(tag, defs)) # <<>>
    BY <2>3, FlushFirst
  <2>. QED BY <2>1, <2>3, <2>4 DEF InStart, tag
<1>3. ASSUME NEW j \in Nat, InDeclarations(r, sax.stack, open, <<>>, j)
      PROVE  FALSE
  <2>. DEFINE tag  == Last(open)
              defs == Declarations(tag.items)
  <2>1. tag \in StartTags /\ j \in 0..Len(defs) /\ StartRest(tag, defs, j) = <<>>
    BY <1>3, FrontOf DEF InDeclarations, Typed
  <2>. HIDE DEF tag
  <2>. QED BY <2>1, TagDefs, StartInstructions
<1>4. ~InEnd(r, sax.stack, open, calls, <<>>)
  <2>1. SUFFICES ASSUME InEnd(r, sax.stack, open, calls, <<>>)
                 PROVE  FALSE
    OBVIOUS
  <2>. DEFINE tag  == Last(calls).tag
              defs == Declarations(tag.items)
  <2>2. tag \in StartTags
    BY <2>1 DEF InEnd
  <2>. HIDE DEF tag
  <2>3. EndAll(tag, defs) \in Seq(Instructions) /\ EndAll(tag, defs) # <<>>
    BY <2>2, TagDefs, EndPrograms
  <2>4. Before(FlushIt, EndAll(tag, defs)) # <<>>
    BY <2>3, FlushFirst
  <2>. QED BY <2>1, <2>3, <2>4 DEF InEnd, tag
<1>5. ASSUME NEW j \in Nat, InMappings(r, sax.stack, open, calls, <<>>, j)
      PROVE  FALSE
  <2>. DEFINE tag  == Last(calls).tag
              defs == Declarations(tag.items)
  <2>1. tag \in StartTags /\ j \in 0..Len(defs) /\ EndRest(defs, j) = <<>>
    BY <1>5 DEF InMappings
  <2>. HIDE DEF tag
  <2>. QED BY <2>1, TagDefs, EndInstructions
<1>. QED BY <1>1, <1>2, <1>3, <1>4, <1>5 DEF Somewhere

AllPlain(program) == \A i \in DOMAIN program : Plain(program[i])

(* Programs of simple events *)
LEMMA PlainPrograms ==
  /\ \A x \in PlainEvents : AllPlain(<<Do(x)>>)
  /\ \A x, y \in PlainEvents : AllPlain(<<Do(x), Do(y)>>)
  /\ \A x, y, z \in PlainEvents : AllPlain(<<Do(x), Do(y), Do(z)>>)
  /\ AllPlain(<<>>)
<1>1. \A x \in PlainEvents : Plain(Do(x))
  BY DEF Plain
<1>. QED BY <1>1 DEF AllPlain

(* A flush before one is simple too. *)
LEMMA FlushedPlain ==
  ASSUME NEW program \in Seq(Instructions), AllPlain(program)
  PROVE  AllPlain(Flushed(program))
<1>1. CASE Flushed(program) = program
  BY <1>1
<1>2. CASE Flushed(program) = Before(FlushIt, program)
  <2>. DEFINE t == Before(FlushIt, program)
  <2>1. FlushIt \in Instructions
    BY DEF Instructions
  <2>2. t \in Seq(Instructions) /\ t # <<>> /\ Head(t) = FlushIt /\ Tail(t) = program
    BY <2>1, PutBefore
  <2>. HIDE DEF t
  <2>3. /\ t[1] = FlushIt /\ Len(t) \in Nat \ {0} /\ Len(program) = Len(t) - 1
        /\ \A i \in 1..(Len(t) - 1) : program[i] = t[i + 1]
    BY <2>2, TailOf
  <2>4. DOMAIN t = 1..Len(t) /\ DOMAIN program = 1..Len(program)
    BY <2>2, LenProperties
  <2>5. ASSUME NEW i \in DOMAIN t
        PROVE  Plain(t[i])
    <3>1. CASE i = 1
      BY <2>3, <3>1 DEF Plain
    <3>2. CASE i # 1
      <4>1. i - 1 \in DOMAIN program /\ i - 1 \in 1..(Len(t) - 1) /\ i - 1 + 1 = i
        BY <2>3, <2>4, <3>2
      <4>. QED BY <2>3, <4>1 DEF AllPlain
    <3>. QED BY <3>1, <3>2
  <2>. QED BY <1>2, <2>5 DEF AllPlain, t
<1>. QED BY <1>1, <1>2, Flushing

(* The callback that was just made is the last one. *)
LEMMA LastCall ==
  ASSUME Typed, NEW content \in Contents, calls' = Append(calls, content)
  PROVE  calls' # <<>> /\ Last(calls') = content
<1>1. calls \in Seq(Contents)
  BY DEF Typed
<1>2. Append(calls, content) # <<>> /\ Last(Append(calls, content)) = content
  BY <1>1, AppendProperties, FrontOfAppend
<1>. QED BY <1>2

(* A callback that does not concern elements *)
LEMMA PlainCallbackKeeps ==
  ASSUME Typed, Streams, NEW content \in Contents, content.event # "start",
         NEW program, AllPlain(program), status = "parsing", todo = <<>>,
         calls' = Append(calls, content), todo' = program, UNCHANGED <<status, log, open>>,
         sax' # NULL, sax'.stack = sax.stack
  PROVE  Streams'
<1>. DEFINE r == ReaderOf(log)
<1>1. InPlain(r, sax.stack, open, calls, <<>>)
  BY BetweenCallbacks
<1>2. calls' # <<>> /\ Last(calls') = content
  BY LastCall
<1>3. InPlain(r, sax.stack, open, calls', program)
  BY <1>1, <1>2 DEF InPlain, AllPlain
<1>4. sax # NULL
  BY VectorThere
<1>. QED BY <1>3, <1>4 DEF Streams, Based, Somewhere

(* A callback that makes such a program keeps the streams. *)
LEMMA PlainCallbacksKeep ==
  ASSUME Typed, Streams, StartDocument \/ ExternalSubset \/ Text \/ CDATABlock \/ Comment \/ FatalError
  PROVE  Streams'
<1>1. status = "parsing" /\ todo = <<>>
  BY DEF StartDocument, ExternalSubset, Text, CDATABlock, Comment, FatalError, Callback
<1>2. sax # NULL /\ sax \in Vectors
  BY <1>1, VectorThere
<1>3. Len(calls) + 1 \in Nat
  BY LenProperties DEF Typed
<1>4. CASE StartDocument
  <2>. DEFINE program == <<Do(Event("set_document_locator")), Do(Event("start_document")),
                           Do(Event("xml_decl"))>>
  <2>1. program \in Seq(Instructions) /\ AllPlain(program)
    BY PlainTyped, PlainPrograms DEF PlainKinds
  <2>. HIDE DEF program
  <2>2. AllPlain(Flushed(program))
    BY <2>1, FlushedPlain
  <2>3. Event("document") \in Contents /\ Event("document").event # "start"
    BY ContentsTyped DEF Event
  <2>4. Callback(Event("document"), Flushed(program)) /\ UNCHANGED <<open, sax>>
    BY <1>4 DEF StartDocument, program
  <2>. QED BY <1>1, <1>2, <2>2, <2>3, <2>4, PlainCallbackKeeps DEF Callback
<1>5. CASE ExternalSubset
  <2>. DEFINE program == <<Do(Event("start_dtd")), Do(Event("end_dtd"))>>
  <2>1. AllPlain(program)
    BY PlainTyped, PlainPrograms DEF PlainKinds
  <2>. HIDE DEF program
  <2>2. Event("dtd") \in Contents /\ Event("dtd").event # "start"
    BY ContentsTyped DEF Event
  <2>3. Callback(Event("dtd"), program) /\ UNCHANGED <<open, sax>>
    BY <1>5 DEF ExternalSubset, program
  <2>. QED BY <1>1, <1>2, <2>1, <2>2, <2>3, PlainCallbackKeeps DEF Callback
<1>6. CASE Text
  <2>. DEFINE program == IF join THEN <<>> ELSE <<Do(Characters(<<Len(calls) + 1>>))>>
  <2>1. AllPlain(program)
    BY <1>3, PlainTyped, PlainPrograms
  <2>. HIDE DEF program
  <2>2. [event |-> "text"] \in Contents /\ [event |-> "text"].event # "start"
    BY ContentsTyped
  <2>3. Callback([event |-> "text"], program) /\ UNCHANGED open
    BY <1>6 DEF Text, program
  <2>4. sax' # NULL /\ sax'.stack = sax.stack
    <3>1. Typed'
      BY <1>6, TextTyped
    <3>2. status' = "parsing"
      BY <1>1, <2>3 DEF Callback
    <3>3. sax' # NULL
      BY <3>1, <3>2 DEF Typed
    <3>. QED BY <1>2, <1>6, <3>3 DEF Text, Vectors
  <2>. QED BY <1>1, <2>1, <2>2, <2>3, <2>4, PlainCallbackKeeps DEF Callback
<1>7. CASE CDATABlock
  <2>. DEFINE program == <<Do(Event("start_cdata")), Do(Characters(<<Len(calls) + 1>>)),
                           Do(Event("end_cdata"))>>
  <2>1. program \in Seq(Instructions) /\ AllPlain(program)
    <3>1. /\ Event("start_cdata") \in PlainEvents /\ Event("end_cdata") \in PlainEvents
          /\ Characters(<<Len(calls) + 1>>) \in PlainEvents
          /\ Do(Event("start_cdata")) \in Instructions /\ Do(Event("end_cdata")) \in Instructions
          /\ Do(Characters(<<Len(calls) + 1>>)) \in Instructions
      BY <1>3, PlainTyped DEF PlainKinds
    <3>2. program \in Seq(Instructions)
      BY <3>1, ProgramTyped, Zenon
    <3>3. AllPlain(program)
      BY <3>1, PlainPrograms, Zenon
    <3>. QED BY <3>2, <3>3
  <2>. HIDE DEF program
  <2>2. AllPlain(Flushed(program))
    BY <2>1, FlushedPlain
  <2>3. [event |-> "text"] \in Contents /\ [event |-> "text"].event # "start"
    BY ContentsTyped
  <2>4. Callback([event |-> "text"], Flushed(program)) /\ UNCHANGED <<open, sax>>
    BY <1>7 DEF CDATABlock, program
  <2>. QED BY <1>1, <1>2, <2>2, <2>3, <2>4, PlainCallbackKeeps DEF Callback
<1>8. CASE Comment
  <2>. DEFINE program == <<Do([event |-> "comment", at |-> Len(calls) + 1])>>
  <2>1. program \in Seq(Instructions) /\ AllPlain(program)
    <3>1. /\ [event |-> "comment", at |-> Len(calls) + 1] \in PlainEvents
          /\ Do([event |-> "comment", at |-> Len(calls) + 1]) \in Instructions
      BY <1>3, PlainTyped
    <3>2. program \in Seq(Instructions)
      BY <3>1, ProgramTyped, Zenon
    <3>3. AllPlain(program)
      BY <3>1, PlainPrograms, Zenon
    <3>. QED BY <3>2, <3>3
  <2>. HIDE DEF program
  <2>2. AllPlain(Flushed(program))
    BY <2>1, FlushedPlain
  <2>3. [event |-> "comment"] \in Contents /\ [event |-> "comment"].event # "start"
    BY ContentsTyped
  <2>4. Callback([event |-> "comment"], Flushed(program)) /\ UNCHANGED <<open, sax>>
    BY <1>8 DEF Comment, program
  <2>. QED BY <1>1, <1>2, <2>2, <2>3, <2>4, PlainCallbackKeeps DEF Callback
<1>9. CASE FatalError
  <2>3. PICK program \in ErrorReports : Callback(Event("error"), program) /\ UNCHANGED <<open, sax>>
    BY <1>9 DEF FatalError
  <2>1. AllPlain(program)
    <3>1. Plain(Do(Event("fatal_error")))
      BY PlainTyped DEF PlainKinds, Plain
    <3>. QED BY <3>1, ReportsPlain DEF AllPlain
  <2>2. Event("error") \in Contents /\ Event("error").event # "start"
    BY ContentsTyped DEF Event
  <2>. QED BY <1>1, <1>2, <2>1, <2>2, <2>3, PlainCallbackKeeps DEF Callback
<1>. QED BY <1>4, <1>5, <1>6, <1>7, <1>8, <1>9

(* So does the one of a start tag, *)
LEMMA StartElementKeeps ==
  ASSUME Typed, Streams, NEW tag \in StartTags, StartElement(tag)
  PROVE  Streams'
<1>. DEFINE r       == ReaderOf(log)
            defs    == Declarations(tag.items)
            all     == StartAll(tag, defs)
            content == [event |-> "start", tag |-> tag]
            program == <<Doing("extend", tag)>>
                        \o [i \in DOMAIN defs |->
                              [do |-> "declare", tag |-> tag, item |-> defs[i]]]
                        \o <<Doing("start_element", tag)>>
<1>1. Callback(content, Flushed(program)) /\ open' = Append(open, tag) /\ UNCHANGED sax
  BY DEF StartElement
<1>2. program = all /\ all \in Seq(Instructions)
  <2>. HIDE DEF defs
  <2>1. defs \in Seq(Items)
    BY TagDefs DEF defs
  <2>. QED BY <2>1, StartPrograms
<1>. HIDE DEF program, all
<1>3. status = "parsing" /\ todo = <<>> /\ status' = status /\ log' = log /\ todo' = Flushed(program)
  BY <1>1 DEF Callback
<1>4. InPlain(r, sax.stack, open, calls, <<>>)
  BY <1>3, BetweenCallbacks
<1>5. todo' = all \/ todo' = Before(FlushIt, all)
  BY <1>2, <1>3, Flushing
<1>6. /\ open \in Seq(StartTags) /\ Front(open') = open /\ Last(open') = tag /\ open' # <<>>
      /\ Len(open') = Len(open) + 1
  <2>1. open \in Seq(StartTags)
    BY DEF Typed
  <2>2. Front(open') = open /\ Last(open') = tag
    BY <1>1, <2>1, FrontOfAppend
  <2>. QED BY <1>1, <2>1, <2>2, AppendProperties
<1>7. /\ Len(sax.stack) = Len(open) + 1 /\ Reflects(r, sax.stack, open) /\ Quiet(r)
  BY <1>4 DEF InPlain
<1>8. InStart(r, sax.stack, open', todo')
  BY <1>5, <1>6, <1>7 DEF InStart, all
<1>. QED BY <1>1, <1>3, <1>8 DEF Streams, Based, Somewhere

(* the one of an end tag, *)
LEMMA EndElementKeeps ==
  ASSUME Typed, Streams, EndElement
  PROVE  Streams'
<1>. DEFINE r       == ReaderOf(log)
            tag     == Last(open)
            defs    == Last(sax.stack).defs
            all     == EndAll(tag, defs)
            content == [event |-> "end", tag |-> tag]
            program == <<Doing("end_element", tag)>>
                        \o [i \in DOMAIN defs |-> Do(Mapping("end_prefix_mapping", defs[i]))]
                        \o <<[do |-> "narrow"]>>
            f       == Front(open)
<1>1. /\ Callback(content, Flushed(program)) /\ open # <<>> /\ open' = f /\ UNCHANGED sax
  BY DEF EndElement
<1>2. status = "parsing" /\ todo = <<>> /\ status' = status /\ log' = log
      /\ todo' = Flushed(program) /\ calls' = Append(calls, content)
  BY <1>1 DEF Callback
<1>3. /\ Len(sax.stack) = Len(open) + 1 /\ Reflects(r, sax.stack, open) /\ Quiet(r)
  BY <1>2, BetweenCallbacks DEF InPlain
<1>4. /\ open \in Seq(StartTags) /\ tag \in StartTags /\ tag = open[Len(open)] /\ f \in Seq(StartTags)
      /\ Len(open) \in Nat \ {0} /\ DOMAIN open = 1..Len(open) /\ Len(f) = Len(open) - 1
  <2>1. open \in Seq(StartTags)
    BY DEF Typed
  <2>2. DOMAIN open = 1..Len(open)
    BY <2>1, LenProperties
  <2>. QED BY <1>1, <2>1, <2>2, FrontOf
<1>5. defs = Declarations(tag.items)
  <2>1. Len(open) \in DOMAIN open
    BY <1>4
  <2>. QED BY <1>3, <1>4, <2>1 DEF Reflects, Last
<1>6. program = all /\ all \in Seq(Instructions)
  <2>1. defs \in Seq(Items)
    BY <1>4, <1>5, TagDefs
  <2>. HIDE DEF defs, tag
  <2>. QED BY <1>4, <2>1, EndPrograms
<1>7. Append(f, tag) = open
  BY <1>1, <1>4, AppendToFront
<1>. HIDE DEF program, all, defs, tag, f
<1>8. todo' = all \/ todo' = Before(FlushIt, all)
  BY <1>2, <1>6, Flushing
<1>9. content \in Contents
  BY <1>4 DEF Contents
<1>10. calls' # <<>> /\ Last(calls') = content
  <2>. HIDE DEF content
  <2>. QED BY <1>2, <1>9, LastCall
<1>11. Last(calls').event = "end" /\ Last(calls').tag = tag
  BY <1>10
<1>12. InEnd(r, sax.stack, open', calls', todo')
  <2>1. Len(sax.stack) = Len(open') + 2
    BY <1>1, <1>3, <1>4
  <2>. QED BY <1>1, <1>3, <1>4, <1>5, <1>7, <1>8, <1>10, <1>11, <2>1 DEF InEnd, all
<1>. QED BY <1>1, <1>2, <1>12 DEF Streams, Based, Somewhere

(* the beginning and the end of a parse, *)
LEMMA ParseKeeps ==
  ASSUME Typed, Streams, InitContext \/ Return \/ UNCHANGED vars
  PROVE  Streams'
<1>1. CASE InitContext
  <2>1. /\ status = "idle" /\ open' = <<>> /\ log' = <<>> /\ todo' = <<>>
        /\ sax' = [stack |-> <<Bottom>>, charbuf |-> <<>>]
    BY <1>1 DEF InitContext, Typed, parser
  <2>2. ReaderOf(log') = Reading
    BY <2>1, ReaderSteps, PlainTyped DEF Typed, Events, PlainKinds
  <2>3. InPlain(Reading, <<Bottom>>, <<>>, calls', <<>>)
    BY DEF InPlain, Reflects, Reading, Quiet
  <2>4. Based'
    BY <2>1 DEF Based
  <2>5. sax'.stack = <<Bottom>> /\ Reading.ok
    BY <2>1 DEF Reading
  <2>6. Somewhere(ReaderOf(log'), sax'.stack, open', calls', todo')
    BY <2>1, <2>2, <2>3, <2>5 DEF Somewhere
  <2>. QED BY <2>2, <2>4, <2>5, <2>6 DEF Streams
<1>2. CASE Return
  <2>. DEFINE r == ReaderOf(log)
  <2>1. /\ status = "parsing" /\ todo = <<>> /\ sax' = NULL /\ status' # "parsing"
        /\ log' = log \/ (log' = Append(log, Event("end_document")) /\ open = <<>>)
    BY <1>2 DEF Return, Complete
  <2>2. InPlain(r, sax.stack, open, calls, <<>>)
    BY <2>1, BetweenCallbacks
  <2>3. r \in Readers /\ r.ok
    BY ReaderSteps, PlainTyped DEF Typed, Streams, Events, PlainKinds
  <2>4. ReaderOf(log').ok
    <3>1. CASE log' = log
      BY <2>3, <3>1
    <3>2. CASE log' = Append(log, Event("end_document")) /\ open = <<>>
      <4>1. Quiet(r) /\ Len(r.elements) = 0
        BY <2>2, <3>2, EmptySeq DEF InPlain, Reflects
      <4>2. r.elements = <<>>
        BY <2>3, <4>1, EmptySeq DEF Readers
      <4>3. Step(r, Event("end_document")).ok
        BY <2>3, <4>1, <4>2, StepPlain
      <4>. QED BY <3>2, <4>3, ReaderSteps DEF Typed, Events
    <3>. QED BY <2>1, <3>1, <3>2
  <2>. QED BY <2>1, <2>4 DEF Streams, Based
<1>3. CASE UNCHANGED vars
  BY <1>3 DEF vars, parser, Streams, Based
<1>. QED BY <1>1, <1>2, <1>3

(* and so any step. *)
LEMMA NextKeeps ==
  ASSUME Typed, Streams, [Next]_vars
  PROVE  Streams'
BY ExecuteKeeps, PlainCallbacksKeep, StartElementKeeps, EndElementKeeps, ParseKeeps DEF Next

-----------------------------------------------------------------------------
(* Theorems *)

(* The types, and the agreement of the namespace stack, the rest of the    *)
(* running callback and the events: the invariant of all that follows.     *)
THEOREM AlwaysAgree == Spec => [](Typed /\ Streams)
<1>1. Init => Typed /\ Streams
  <2>1. Init => ReaderOf(log) = Reading
    BY InitTyped, ReaderSteps, PlainTyped DEF Init, Typed, Events, PlainKinds
  <2>. QED BY <2>1, InitTyped DEF Init, Streams, Based, Reading
<1>2. Typed /\ Streams /\ [Next]_vars => (Typed /\ Streams)'
  BY NextTyped, NextKeeps DEF Streams
<1>. QED BY <1>1, <1>2, PTL DEF Spec

(* TypeOK: the vector of a context is there exactly while a parse needs    *)
(* it, its lowest frame is never dropped, and its buffer holds the places  *)
(* of texts that libxml2 has reported.                                     *)
THEOREM TypesOK == Spec => []TypeOK
<1>1. Typed /\ Streams => TypeOK
  <2>. SUFFICES ASSUME Typed, Streams
                PROVE  TypeOK
    OBVIOUS
  <2>1. Range(open) \subseteq StartTags
    BY LenProperties, ElementOfSeq DEF Typed, Range
  <2>2. ASSUME sax # NULL
        PROVE  /\ sax \in Vectors /\ sax.stack # <<>> /\ Head(sax.stack) = Bottom
               /\ Range(sax.charbuf) \subseteq DOMAIN calls
    <3>1. sax \in Vectors /\ sax.stack \in Seq(Frames) /\ Range(sax.charbuf) \subseteq DOMAIN calls
      BY <2>2 DEF Typed, Vectors
    <3>2. sax.stack # <<>> /\ sax.stack[1] = Bottom
      BY <2>2 DEF Streams, Based
    <3>. QED BY <3>1, <3>2, TailOf
  <2>. QED BY <2>1, <2>2 DEF Typed, TypeOK
<1>. QED BY <1>1, AlwaysAgree, PTL

(* StackMatchesTags: between two callbacks of libxml2 ns_stack has a frame *)
(* for each open element, with its declarations.                           *)
THEOREM StackAlwaysMatches == Spec => []StackMatchesTags
<1>1. Typed /\ Streams => StackMatchesTags
  <2>. SUFFICES ASSUME Typed, Streams, status = "parsing", todo = <<>>
                PROVE  [i \in 1..Len(sax.stack) - 1 |-> sax.stack[i + 1].defs]
                         = [i \in DOMAIN open |-> Declarations(open[i].items)]
    BY DEF StackMatchesTags
  <2>1. Len(sax.stack) = Len(open) + 1 /\ Reflects(ReaderOf(log), sax.stack, open)
    BY BetweenCallbacks DEF InPlain
  <2>2. Len(open) \in Nat /\ DOMAIN open = 1..Len(open)
    BY LenProperties DEF Typed
  <2>3. 1..Len(sax.stack) - 1 = DOMAIN open
    BY <2>1, <2>2
  <2>. QED BY <2>1, <2>3 DEF Reflects
<1>. QED BY <1>1, AlwaysAgree, PTL

(* StreamWellFormed: wherever a method dies and however deep the elements  *)
(* are, the events nest, an end tag is named as its start tag was, and the *)
(* mappings are announced right before an element and ended right after    *)
(* it.                                                                     *)
THEOREM StreamAlwaysWellFormed == Spec => []StreamWellFormed
<1>1. Streams => StreamWellFormed
  BY DEF Streams, StreamWellFormed, ReaderOf
<1>. QED BY <1>1, AlwaysAgree, PTL

-----------------------------------------------------------------------------
(* The names of a start tag *)

(* The declarations of a prefix in a start tag *)
Declared(tag, prefix) == {item \in Range(tag.items) : item.declares /\ item.prefix = prefix}

(* The frame says of a prefix what the start tag says. *)
Says(frame, tag, prefix) ==
  {d \in Range(frame.defs) : d.prefix = prefix} = Declared(tag, prefix)

(* A prefix has at most one declaration in a tag. *)
LEMMA OneDeclaration ==
  ASSUME NEW tag \in StartTags, NEW prefix,
         NEW x \in Declared(tag, prefix), NEW y \in Declared(tag, prefix)
  PROVE  x = y
<1>1. PICK i \in DOMAIN tag.items : x = tag.items[i]
  BY DEF Declared, Range
<1>2. PICK j \in DOMAIN tag.items : y = tag.items[j]
  BY DEF Declared, Range
<1>. QED BY <1>1, <1>2, TagsAssumption DEF Declared

(* A frame with the declarations of the first n items says of a prefix     *)
(* what the tag says, when no later item declares it.                      *)
LEMMA FrameSays ==
  ASSUME NEW tag \in StartTags, NEW n \in Nat, n <= Len(tag.items), NEW frame,
         DeclaredIn(frame.defs, tag.items, n), NEW prefix,
         \A j \in DOMAIN tag.items : j > n => ~(tag.items[j].declares /\ tag.items[j].prefix = prefix)
  PROVE  Says(frame, tag, prefix)
<1>1. /\ Len(tag.items) \in Nat /\ DOMAIN tag.items = 1..Len(tag.items)
  BY TagItems, LenProperties
<1>2. ASSUME NEW d \in Range(frame.defs), d.prefix = prefix
      PROVE  d \in Declared(tag, prefix)
  <2>1. PICK i \in DOMAIN frame.defs : d = frame.defs[i]
    BY DEF Range
  <2>2. PICK j \in 1..n : tag.items[j].declares /\ d = tag.items[j]
    BY <2>1 DEF DeclaredIn
  <2>3. j \in DOMAIN tag.items
    BY <1>1
  <2>. QED BY <1>2, <2>2, <2>3 DEF Declared, Range
<1>3. ASSUME NEW d \in Declared(tag, prefix)
      PROVE  d \in Range(frame.defs) /\ d.prefix = prefix
  <2>1. PICK j \in DOMAIN tag.items : d = tag.items[j]
    BY DEF Declared, Range
  <2>2. d.declares /\ d.prefix = prefix
    BY DEF Declared
  <2>3. j \in 1..n
    BY <1>1, <2>1, <2>2
  <2>4. PICK i \in DOMAIN frame.defs : frame.defs[i] = tag.items[j]
    BY <2>1, <2>2, <2>3 DEF DeclaredIn
  <2>. QED BY <2>1, <2>2, <2>4 DEF Range
<1>. QED BY <1>2, <1>3 DEF Says

(* A stack whose frames say of a prefix what the open tags say gives it    *)
(* the meaning it has in the document.                                     *)
LEMMA SameMeaning ==
  ASSUME NEW stack \in Stacks, NEW tags \in Seq(StartTags), NEW prefix,
         Len(stack) = Len(tags) + 1, stack[1] = Bottom,
         \A k \in DOMAIN tags : Says(stack[k + 1], tags[k], prefix)
  PROVE  GetNsMapping(stack, prefix) = Meaning(tags, prefix)
<1>. DEFINE S == Declaring(stack, prefix)
            T == {i \in DOMAIN tags : \E item \in Range(tags[i].items) :
                                        item.declares /\ item.prefix = prefix}
            n == Len(tags)
<1>1. n \in Nat /\ DOMAIN tags = 1..n /\ DOMAIN stack = 1..(n + 1)
  BY LenProperties DEF Stacks
<1>2. T = {i \in 1..n : Declared(tags[i], prefix) # {}}
  BY <1>1 DEF Declared
<1>3. S = {i \in 1..(n + 1) : {d \in Range(stack[i].defs) : d.prefix = prefix} # {}}
  BY <1>1 DEF Declaring
<1>4. 1 \notin S
  <2>1. Range(stack[1].defs) = {}
    BY DEF Bottom, Range
  <2>. QED BY <1>3, <2>1
<1>5. ASSUME NEW k \in 1..n
      PROVE  k + 1 \in S <=> k \in T
  <2>1. {d \in Range(stack[k + 1].defs) : d.prefix = prefix} = Declared(tags[k], prefix)
    BY <1>1 DEF Says
  <2>2. k + 1 \in 1..(n + 1)
    BY <1>1
  <2>. HIDE DEF S, T
  <2>. QED BY <1>2, <1>3, <2>1, <2>2
<1>6. CASE S = {}
  <2>1. T = {}
    BY <1>1, <1>5, <1>6
  <2>. QED BY <1>6, <2>1 DEF GetNsMapping, Meaning
<1>7. CASE S # {}
  <2>. DEFINE m == Max(S)
              k == Max(T)
              d == CHOOSE d \in Range(stack[m].defs) : d.prefix = prefix
              x == CHOOSE item \in Range(tags[k].items) : item.declares /\ item.prefix = prefix
  <2>1. m \in S /\ (\A i \in S : i <= m) /\ m \in 1..(n + 1) /\ m # 1
    <3>1. S \in SUBSET (1..(n + 1)) /\ n + 1 \in Nat
      BY <1>1, <1>3
    <3>. HIDE DEF S
    <3>. QED BY <1>4, <1>7, <3>1, Largest
  <2>2. m - 1 \in 1..n /\ m - 1 + 1 = m
    BY <1>1, <2>1
  <2>3. m - 1 \in T
    BY <1>5, <2>1, <2>2
  <2>4. k \in T /\ (\A i \in T : i <= k) /\ k \in 1..n
    <3>1. T \in SUBSET (1..n)
      BY <1>2
    <3>. HIDE DEF T
    <3>. QED BY <1>1, <2>3, <3>1, Largest
  <2>5. k = m - 1
    <3>1. k + 1 \in S
      BY <1>5, <2>4
    <3>2. k + 1 <= m /\ m - 1 <= k
      BY <2>1, <2>3, <2>4, <3>1
    <3>. HIDE DEF k, m
    <3>. QED BY <1>1, <2>1, <2>4, <3>2
  <2>. HIDE DEF m, k
  <2>6. Says(stack[m], tags[k], prefix) /\ tags[k] \in StartTags
    BY <1>1, <2>2, <2>4, <2>5, ElementOfSeq
  <2>7. d \in Range(stack[m].defs) /\ d.prefix = prefix
    BY <1>3, <2>1
  <2>8. x \in Range(tags[k].items) /\ x.declares /\ x.prefix = prefix
    BY <1>2, <2>4 DEF Declared
  <2>. HIDE DEF d, x
  <2>9. d = x
    <3>1. d \in Declared(tags[k], prefix) /\ x \in Declared(tags[k], prefix)
      BY <2>6, <2>7, <2>8 DEF Says, Declared
    <3>. QED BY <2>6, <3>1, OneDeclaration
  <2>10. GetNsMapping(stack, prefix) = d.uri
    BY <1>7 DEF GetNsMapping, UriOn, m, d
  <2>11. Meaning(tags, prefix) = x.uri
    BY <2>3 DEF Meaning, k, x
  <2>. QED BY <2>9, <2>10, <2>11
<1>. QED BY <1>6, <1>7

(* The frames below the last one say what the tags say. *)
LEMMA LowerFramesSay ==
  ASSUME NEW stack \in Stacks, NEW tags \in Seq(StartTags), tags # <<>>, NEW r, NEW prefix,
         Reflects(r, stack, Front(tags)), NEW k \in 1..(Len(tags) - 1)
  PROVE  Says(stack[k + 1], tags[k], prefix)
<1>1. /\ Front(tags) \in Seq(StartTags) /\ Len(Front(tags)) = Len(tags) - 1
      /\ Len(tags) \in Nat \ {0} /\ \A i \in 1..(Len(tags) - 1) : Front(tags)[i] = tags[i]
  BY FrontOf
<1>2. DOMAIN Front(tags) = 1..(Len(tags) - 1) /\ DOMAIN tags = 1..Len(tags)
  BY <1>1, LenProperties
<1>3. stack[k + 1].defs = Declarations(tags[k].items) /\ tags[k] \in StartTags
  BY <1>1, <1>2, ElementOfSeq DEF Reflects
<1>4. Len(tags[k].items) \in Nat /\ DOMAIN tags[k].items = 1..Len(tags[k].items)
  BY <1>3, TagItems, LenProperties
<1>5. DeclaredIn(stack[k + 1].defs, tags[k].items, Len(tags[k].items))
  BY <1>3, TagDeclarations
<1>. QED BY <1>3, <1>4, <1>5, FrameSays

(* A stack whose last frame has the declarations of the first n items of   *)
(* the last tag says what a prefix means that no later item declares.      *)
LEMMA MeaningSoFar ==
  ASSUME NEW stack \in Stacks, NEW tags \in Seq(StartTags), tags # <<>>,
         Len(stack) = Len(tags) + 1, NEW r, Reflects(r, stack, Front(tags)),
         NEW last \in Stacks, Len(last) = Len(stack), \A i \in 1..Len(tags) : last[i] = stack[i],
         NEW n \in Nat, n <= Len(Last(tags).items),
         DeclaredIn(last[Len(last)].defs, Last(tags).items, n), NEW prefix,
         \A j \in DOMAIN Last(tags).items :
            j > n => ~(Last(tags).items[j].declares /\ Last(tags).items[j].prefix = prefix)
  PROVE  GetNsMapping(last, prefix) = Meaning(tags, prefix)
<1>1. /\ Len(tags) \in Nat \ {0} /\ Last(tags) = tags[Len(tags)] /\ Last(tags) \in StartTags
      /\ DOMAIN tags = 1..Len(tags)
  BY FrontOf, LenProperties
<1>2. last[1] = Bottom
  BY <1>1 DEF Reflects
<1>3. ASSUME NEW k \in DOMAIN tags
      PROVE  Says(last[k + 1], tags[k], prefix)
  <2>1. CASE k = Len(tags)
    BY <1>1, <2>1, FrameSays
  <2>2. CASE k # Len(tags)
    <3>1. k \in 1..(Len(tags) - 1) /\ k + 1 \in 1..Len(tags)
      BY <1>1, <2>2
    <3>. QED BY <3>1, LowerFramesSay
  <2>. QED BY <2>1, <2>2
<1>. QED BY <1>2, <1>3, SameMeaning

(* What NamesResolved says of the event of a start tag *)
RightNames(e, tags) ==
  LET tag == Last(tags)
  IN  /\ e.element.uri = Meaning(tags, tag.prefix)
      /\ e.element.cut <=> tag.prefix # NULL /\ e.element.uri # NULL
      /\ \A k \in DOMAIN tag.items :
           ~tag.items[k].declares /\ ~DeclaredLater(tag, k) =>
             e.attrs[k] = Meaning(tags, tag.items[k].prefix)

(* The handler is called with the right names: all declarations are on the *)
(* stack.                                                                  *)
LEMMA NamesRight ==
  ASSUME NEW stack \in Stacks, NEW tags \in Seq(StartTags), NEW r, NEW program, NEW j,
         InDeclarations(r, stack, tags, program, j), j = Len(Declarations(Last(tags).items))
  PROVE  RightNames(StartTag(stack, Last(tags)), tags)
<1>. DEFINE tag   == Last(tags)
            items == tag.items
            e     == StartTag(stack, tag)
<1>1. /\ tags # <<>> /\ Len(stack) = Len(tags) + 1 /\ Reflects(r, stack, Front(tags))
      /\ (Last(stack).bound <=> tag.prefix # NULL /\ GetNsMapping(stack, tag.prefix) # NULL)
  BY DEF InDeclarations
<1>2. Last(stack).defs = Declarations(items) /\ tag \in StartTags
  BY AllDeclared
<1>3. Len(tags) \in Nat \ {0} /\ Last(stack) = stack[Len(stack)]
  BY <1>1, FrontOf DEF Last
<1>4. Len(items) \in Nat /\ DOMAIN items = 1..Len(items)
  BY <1>2, TagItems, LenProperties
<1>5. DeclaredIn(stack[Len(stack)].defs, items, Len(items))
  BY <1>2, <1>3, TagDeclarations
<1>6. GetNsMapping(stack, tag.prefix) = Meaning(tags, tag.prefix)
  BY <1>1, <1>4, <1>5, MeaningSoFar
<1>7. /\ e.element.uri = Meaning(tags, tag.prefix)
      /\ e.element.cut <=> tag.prefix # NULL /\ e.element.uri # NULL
  BY <1>1, <1>6 DEF StartTag, GenElement
<1>8. ASSUME NEW k \in DOMAIN items, ~items[k].declares, ~DeclaredLater(tag, k)
      PROVE  e.attrs[k] = Meaning(tags, items[k].prefix)
  <2>. DEFINE seen  == Declarations(SubSeq(items, 1, k - 1))
              frame == [defs |-> seen, bound |-> FALSE]
              last  == Append(Front(stack), frame)
  <2>1. e.attrs[k] = GetNsMapping(last, items[k].prefix)
    BY <1>8 DEF StartTag, GenAttributes
  <2>2. k - 1 \in 0..Len(items) /\ k - 1 \in Nat /\ k - 1 <= Len(items)
    BY <1>4
  <2>3. DeclaredIn(seen, items, k - 1)
    BY <1>2, <2>2, FirstDeclarations
  <2>4. frame \in Frames /\ frame.defs = seen
    BY <2>3 DEF Frames, DeclaredIn
  <2>. HIDE DEF frame
  <2>5. /\ Front(stack) \in Seq(Frames) /\ Len(Front(stack)) = Len(tags)
        /\ \A i \in 1..Len(tags) : Front(stack)[i] = stack[i]
    <3>1. stack \in Seq(Frames) /\ stack # <<>>
      BY <1>1, <1>3, EmptySeq DEF Stacks
    <3>2. /\ Front(stack) \in Seq(Frames) /\ Len(Front(stack)) = Len(stack) - 1
          /\ \A i \in 1..(Len(stack) - 1) : Front(stack)[i] = stack[i]
      BY <3>1, FrontOf
    <3>3. Len(stack) - 1 = Len(tags)
      BY <1>1, <1>3
    <3>. QED BY <3>2, <3>3
  <2>6. /\ last \in Seq(Frames) /\ Len(last) = Len(tags) + 1
        /\ \A i \in 1..Len(tags) : last[i] = stack[i]
        /\ last[Len(tags) + 1] = frame
    BY <2>4, <2>5, AppendProperties
  <2>. HIDE DEF last, seen
  <2>7. /\ last \in Stacks /\ Len(last) = Len(stack) /\ DeclaredIn(last[Len(last)].defs, items, k - 1)
    BY <1>1, <2>3, <2>4, <2>6 DEF Stacks
  <2>8. \A i \in DOMAIN items : i > k - 1 => ~(items[i].declares /\ items[i].prefix = items[k].prefix)
    BY <1>4, <1>8 DEF DeclaredLater
  <2>9. GetNsMapping(last, items[k].prefix) = Meaning(tags, items[k].prefix)
    BY <1>1, <2>2, <2>6, <2>7, <2>8, MeaningSoFar
  <2>. QED BY <2>1, <2>9
<1>. HIDE DEF e
<1>9. RightNames(e, tags)
  BY <1>7, <1>8 DEF RightNames
<1>. QED BY <1>9 DEF e

(* The event that was appended is the last one. *)
LEMMA LastOfAppend ==
  ASSUME log \in Seq(Events), NEW e \in Events
  PROVE  Append(log, e) # <<>> /\ Last(Append(log, e)) = e
BY AppendProperties, FrontOfAppend

(* Only the method of a start tag ends a callback for a start tag. *)
LEMMA NamesKeep ==
  ASSUME Typed, Streams, NamesResolved, [Next]_vars
  PROVE  NamesResolved'
<1>. SUFFICES ASSUME log' # <<>>, Last(log').event = "start_element", status' \in {"parsing", "died"},
                     todo' = <<>>, Last(calls').event = "start"
              PROVE  RightNames(Last(log'), open')
  BY DEF NamesResolved, RightNames
<1>1. CASE UNCHANGED vars
  BY <1>1 DEF vars, parser, NamesResolved, RightNames
<1>2. CASE InitContext \/ Return
  <2>1. status' # "died" /\ (status' = "parsing" => status = "idle" /\ log' = log)
    BY <1>2 DEF InitContext, Return
  <2>. QED BY <2>1 DEF Typed
<1>3. CASE StartDocument \/ ExternalSubset \/ EndElement \/ Text \/ CDATABlock \/ Comment \/ FatalError
  <2>1. PICK content \in Contents : calls' = Append(calls, content) /\ content.event # "start"
    <3>1. CASE EndElement
      <4>1. PICK tag : tag = Last(open)
        OBVIOUS
      <4>2. calls' = Append(calls, [event |-> "end", tag |-> tag])
        BY <3>1, <4>1 DEF EndElement, Callback
      <4>3. tag \in StartTags
        BY <3>1, <4>1, FrontOf DEF EndElement, Typed
      <4>. QED BY <4>2, <4>3 DEF Contents
    <3>2. CASE ~EndElement
      <4>1. \E kind \in {"document", "dtd", "text", "comment", "error"} : calls' = Append(calls, Event(kind))
        BY <1>3, <3>2 DEF StartDocument, ExternalSubset, Text, CDATABlock, Comment, FatalError, Callback, Event
      <4>2. \A kind \in {"document", "dtd", "text", "comment", "error"} :
              Event(kind) \in Contents /\ Event(kind).event # "start"
        BY DEF Contents, Event
      <4>. QED BY <4>1, <4>2
    <3>. QED BY <3>1, <3>2
  <2>2. Last(calls') = content
    BY <2>1, LastCall
  <2>. QED BY <2>1, <2>2
<1>4. ASSUME NEW tag \in StartTags, StartElement(tag)
      PROVE  FALSE
  <2>. DEFINE defs == Declarations(tag.items)
              all  == StartAll(tag, defs)
              program == <<Doing("extend", tag)>>
                           \o [i \in DOMAIN defs |->
                                 [do |-> "declare", tag |-> tag, item |-> defs[i]]]
                           \o <<Doing("start_element", tag)>>
  <2>1. defs \in Seq(Items) /\ todo' = Flushed(program)
    BY <1>4, TagDefs DEF StartElement, Callback
  <2>. HIDE DEF defs
  <2>2. program = all /\ all \in Seq(Instructions) /\ all # <<>>
    BY <2>1, StartPrograms
  <2>. HIDE DEF program, all
  <2>3. todo' = all \/ todo' = Before(FlushIt, all)
    BY <2>1, <2>2, Flushing
  <2>. QED BY <2>2, <2>3, FlushFirst
<1>5. CASE Execute
  <2>. DEFINE r == ReaderOf(log)
  <2>1. /\ todo # <<>> /\ sax.stack \in Stacks /\ open \in Seq(StartTags)
        /\ todo \in Seq(Instructions) /\ Somewhere(r, sax.stack, open, calls, todo)
    BY <1>5, ByInstruction, Executing
  <2>2. open' = open /\ calls' = calls
    BY <1>5 DEF Execute, Flush, ExtendStack, Declare, NarrowStack, CallStart, CallEnd, CallMethod, parser
  <2>3. Last(calls).event = "start"
    BY <2>2
  <2>4. CASE InPlain(r, sax.stack, open, calls, todo)
    BY <2>1, <2>3, <2>4 DEF InPlain
  <2>5. CASE InEnd(r, sax.stack, open, calls, todo) \/ \E j \in Nat : InMappings(r, sax.stack, open, calls, todo, j)
    BY <2>3, <2>5 DEF InEnd, InMappings
  <2>6. CASE InStart(r, sax.stack, open, todo)
    <3>. DEFINE all == StartAll(Last(open), Declarations(Last(open).items))
    <3>1. Last(open) \in StartTags
      BY <2>1, <2>6, FrontOf DEF InStart
    <3>2. /\ all \in Seq(Instructions) /\ Head(all) = Doing("extend", Last(open))
          /\ Tail(all) = StartRest(Last(open), Declarations(Last(open).items), 0)
      BY <3>1, TagDefs, StartPrograms
    <3>3. CASE todo = all
      <4>1. ExtendStack
        BY <1>5, <3>2, <3>3, ByInstruction DEF Doing
      <4>2. todo' = Tail(all)
        BY <3>3, <4>1 DEF ExtendStack, Silently
      <4>3. Tail(all) # <<>>
        <5>. DEFINE defs == Declarations(Last(open).items)
        <5>1. defs \in Seq(Items) /\ 0 \in 0..Len(defs)
          BY <3>1, TagDefs, LenProperties
        <5>. HIDE DEF defs
        <5>2. StartRest(Last(open), defs, 0) # <<>>
          BY <3>1, <5>1, StartInstructions
        <5>. QED BY <3>2, <5>2 DEF defs
      <4>. QED BY <4>2, <4>3
    <3>4. CASE todo = Before(FlushIt, all)
      <4>1. Head(todo) = FlushIt /\ Tail(todo) = all /\ all # <<>>
        BY <3>1, <3>2, <3>4, FlushFirst, TagDefs, StartPrograms
      <4>2. Flush
        BY <1>5, <4>1, ByInstruction DEF FlushIt
      <4>3. log' = Append(log, Characters(sax.charbuf))
        BY <4>1, <4>2 DEF Flush, Call, Silently
      <4>4. Characters(sax.charbuf) \in Events
        BY <1>5, <2>1, Executing DEF Events, PlainEvents
      <4>5. Last(log') = Characters(sax.charbuf)
        BY <4>3, <4>4, LastOfAppend DEF Typed
      <4>. QED BY <4>5 DEF Characters
    <3>. QED BY <2>6, <3>3, <3>4 DEF InStart
  <2>7. ASSUME NEW j \in Nat, InDeclarations(r, sax.stack, open, todo, j)
        PROVE  RightNames(Last(log'), open')
    <3>. DEFINE tag  == Last(open)
                defs == Declarations(tag.items)
    <3>1. /\ tag \in StartTags /\ j \in 0..Len(defs)
      BY <2>1, <2>7, FrontOf DEF InDeclarations
    <3>2. defs \in Seq(Items) /\ Len(defs) \in Nat
      BY <3>1, TagDefs, LenProperties
    <3>3. CASE j < Len(defs)
      <4>. DEFINE e == Mapping("start_prefix_mapping", defs[j + 1])
      <4>1. Head(todo) = DeclareIt(tag, defs[j + 1]) /\ defs[j + 1] \in Items
        <5>1. r \in Readers
          BY <2>1, Executing
        <5>2. PICK d, q : d = defs[j + 1] /\ q = [r EXCEPT !.announced = @ \cup {Mapped(d)}]
          OBVIOUS
        <5>. HIDE DEF r, defs
        <5>3. d = Declarations(Last(open).items)[j + 1] /\ j < Len(Declarations(Last(open).items))
          BY <3>3, <5>2 DEF defs
        <5>. QED BY <2>1, <2>7, <5>1, <5>2, <5>3, OneMoreDeclared DEF r
      <4>2. log' = Append(log, e)
        BY <1>5, <4>1, ByInstruction DEF Declare, DeclareIt, Call
      <4>3. e \in Events
        BY <4>1 DEF Events, MappingEvents
      <4>4. Last(log') = e
        <5>. HIDE DEF e
        <5>. QED BY <4>2, <4>3, LastOfAppend DEF Typed
      <4>. QED BY <4>4 DEF Mapping
    <3>4. CASE j = Len(defs)
      <4>1. Head(todo) = Doing("start_element", tag)
        BY <2>1, <2>7, <3>4, AllDeclared
      <4>2. log' = Append(log, StartTag(sax.stack, tag))
        BY <1>5, <4>1, ByInstruction DEF CallStart, Doing, Call
      <4>3. StartTag(sax.stack, tag) \in Events
        BY <2>1, <3>1 DEF Events, TagEvents
      <4>4. Last(log') = StartTag(sax.stack, tag)
        BY <4>2, <4>3, LastOfAppend DEF Typed
      <4>5. RightNames(StartTag(sax.stack, tag), open)
        BY <2>1, <2>7, <3>4, NamesRight
      <4>. QED BY <2>2, <4>4, <4>5
    <3>. QED BY <3>1, <3>2, <3>3, <3>4
  <2>. QED BY <2>1, <2>4, <2>5, <2>6, <2>7 DEF Somewhere
<1>. QED BY <1>1, <1>2, <1>3, <1>4, <1>5 DEF Next

(* NamesResolved: the element of a start tag, and each attribute that does *)
(* not stand before the declaration of its own prefix in that tag, are     *)
(* reported with the namespaces that their prefixes have in the document.  *)
THEOREM NamesAlwaysResolved == Spec => []NamesResolved
<1>1. Init => NamesResolved
  BY DEF Init, NamesResolved
<1>2. Typed /\ Streams /\ NamesResolved /\ [Next]_vars => NamesResolved'
  BY NamesKeep
<1>. QED BY <1>1, <1>2, AlwaysAgree, PTL DEF Spec

-----------------------------------------------------------------------------
(* The texts and comments that reach the handler *)

DeliveredBy(events) ==
  FoldLeft(LAMBDA seen, e : CASE e.event = "characters" -> seen \o e.data
                              [] e.event = "comment"    -> Append(seen, e.at)
                              [] OTHER                  -> seen,
           <<>>, events)

(* What the handler has seen after one more event *)
Seeing(seen, e) ==
  CASE e.event = "characters" -> seen \o e.data
    [] e.event = "comment"    -> Append(seen, e.at)
    [] OTHER                  -> seen

Told == [a \in Seq(Nat) \X Events |-> Seeing(a[1], a[2])]

(* Events of texts and comments carry places in the input. *)
LEMMA EventTexts ==
  ASSUME NEW e \in Events
  PROVE  /\ e.event = "characters" => e.data \in Seq(Nat)
         /\ e.event = "comment" => e.at \in Nat
BY DEF Events, PlainEvents, MappingEvents, TagEvents, Event, Characters, Mapping, StartTag, EndTag, PlainKinds

(* What is seen is a sequence of places. *)
LEMMA SeeingTyped ==
  ASSUME NEW seen \in Seq(Nat), NEW e \in Events
  PROVE  Seeing(seen, e) \in Seq(Nat)
<1>1. CASE e.event = "characters"
  <2>1. e.data \in Seq(Nat)
    BY <1>1, EventTexts
  <2>. QED BY <1>1, <2>1, ConcatProperties DEF Seeing
<1>2. CASE e.event = "comment"
  <2>1. e.at \in Nat
    BY <1>2, EventTexts
  <2>. QED BY <1>2, <2>1, AppendProperties DEF Seeing
<1>. QED BY <1>1, <1>2 DEF Seeing

(* What was delivered is a fold over the events. *)
LEMMA DeliveredFold ==
  ASSUME NEW s \in Seq(Events)
  PROVE  IsLeftFold(DeliveredBy(s), s, <<>>, Told, Seq(Nat))
<1>. DEFINE S == DOMAIN s
            Rec(iter) == iter = [T \in SUBSET S |->
                           IF T = {} THEN <<>>
                           ELSE Seeing(iter[T \ {Max(T)}], s[Max(T)])]
            fold == CHOOSE iter : Rec(iter)
<1>1. DeliveredBy(s) = fold[S]
  BY DEF DeliveredBy, Seeing, FoldLeft, MapThenFoldSet
<1>2. Told \in [Seq(Nat) \X Events -> Seq(Nat)]
  BY SeeingTyped DEF Told
<1>3. <<>> \in Seq(Nat)
  BY EmptySeq
<1>4. PICK g \in [SUBSET S -> Seq(Nat)] : LeftFolds(g, s, <<>>, Told)
  BY <1>2, <1>3, LeftFoldExists
<1>5. \A T \in SUBSET S : T # {} => s[Max(T)] \in Events
  <2>1. S = 1..Len(s) /\ Len(s) \in Nat /\ \A i \in S : s[i] \in Events
    BY LenProperties, ElementOfSeq
  <2>. HIDE DEF S
  <2>. QED BY <2>1, Largest
<1>6. Rec(g)
  <2>1. ASSUME NEW T \in SUBSET S, T # {}
        PROVE  g[T] = Seeing(g[T \ {Max(T)}], s[Max(T)])
    <3>1. g[T] = Told[<<g[T \ {Max(T)}], s[Max(T)]>>]
      BY <1>4, <2>1 DEF LeftFolds
    <3>2. g[T \ {Max(T)}] \in Seq(Nat) /\ s[Max(T)] \in Events
      BY <1>5, <2>1
    <3>. QED BY <3>1, <3>2 DEF Told
  <2>2. g[{}] = <<>>
    BY <1>4 DEF LeftFolds
  <2>. QED BY <2>1, <2>2
<1>7. Rec(fold)
  <2>. HIDE DEF Rec
  <2>. QED BY <1>6
<1>. HIDE DEF fold
<1>8. ASSUME NEW T \in SUBSET S, T # {}, fold[T \ {Max(T)}] \in Seq(Nat)
      PROVE  fold[T] = Told[<<fold[T \ {Max(T)}], s[Max(T)]>>]
  <2>1. fold[T] = Seeing(fold[T \ {Max(T)}], s[Max(T)])
    BY <1>7, <1>8
  <2>. QED BY <2>1, <1>5, <1>8 DEF Told
<1>9. fold[{}] = <<>>
  BY <1>7
<1>. HIDE DEF Rec
<1>10. LeftFoldsWithin(fold, s, <<>>, Told, Seq(Nat))
  BY <1>8, <1>9 DEF LeftFoldsWithin
<1>11. IsLeftFold(fold[DOMAIN s], s, <<>>, Told, Seq(Nat))
  BY <1>2, <1>3, <1>10, LeftFoldIs
<1>. QED BY <1>1, <1>11

(* One more event delivers what it carries. *)
LEMMA DeliveredSteps ==
  ASSUME NEW s \in Seq(Events), NEW e \in Events
  PROVE  /\ DeliveredBy(s) \in Seq(Nat) /\ DeliveredBy(Append(s, e)) = Seeing(DeliveredBy(s), e)
         /\ DeliveredBy(<<>>) = <<>>
<1>1. Append(s, e) \in Seq(Events) /\ <<>> \in Seq(Events)
  BY AppendProperties, EmptySeq
<1>2. /\ IsLeftFold(DeliveredBy(s), s, <<>>, Told, Seq(Nat))
      /\ IsLeftFold(DeliveredBy(Append(s, e)), Append(s, e), <<>>, Told, Seq(Nat))
      /\ IsLeftFold(DeliveredBy(<<>>), <<>>, <<>>, Told, Seq(Nat))
  BY <1>1, DeliveredFold
<1>3. /\ DeliveredBy(s) \in Seq(Nat)
      /\ DeliveredBy(Append(s, e)) = Told[<<DeliveredBy(s), e>>]
      /\ DeliveredBy(<<>>) = <<>>
  BY <1>2, LeftFoldOfAppend, LeftFoldOfEmpty
<1>. QED BY <1>3 DEF Told

(* The content of the callbacks read *)
Places(read) == [i \in DOMAIN read |-> i]

IsContent(c) == c.event \in {"text", "comment"}

ContentOf(read) ==
  FoldLeft(LAMBDA seen, i : IF read[i].event \in {"text", "comment"} THEN Append(seen, i) ELSE seen,
           <<>>, [i \in DOMAIN read |-> i])

Picked(seen, read, i) == IF IsContent(read[i]) THEN Append(seen, i) ELSE seen

PickedFrom(read) == [a \in Seq(Nat) \X DOMAIN read |-> Picked(a[1], read, a[2])]

(* The content of a beginning of the callbacks is a fold over its places. *)
LEMMA ContentFold ==
  ASSUME NEW t \in Seq(Contents), NEW s \in Seq(Contents), Len(s) <= Len(t),
         \A i \in 1..Len(s) : s[i] = t[i]
  PROVE  /\ IsLeftFold(ContentOf(s), Places(s), <<>>, PickedFrom(t), Seq(Nat))
         /\ Places(s) \in Seq(DOMAIN t)
<1>. DEFINE S == DOMAIN s
            p == Places(s)
            Rec(iter) == iter = [T \in SUBSET DOMAIN p |->
                           IF T = {} THEN <<>>
                           ELSE Picked(iter[T \ {Max(T)}], s, p[Max(T)])]
            fold == CHOOSE iter : Rec(iter)
            step == PickedFrom(t)
<1>0. /\ S = 1..Len(s) /\ Len(s) \in Nat /\ DOMAIN t = 1..Len(t) /\ Len(t) \in Nat
      /\ DOMAIN p = S /\ S \subseteq DOMAIN t /\ \A i \in S : p[i] = i /\ s[i] = t[i]
  BY LenProperties DEF Places
<1>00. p \in Seq(DOMAIN t)
  BY <1>0, IsASeq DEF Places
<1>1. ContentOf(s) = fold[DOMAIN p]
  BY DEF ContentOf, Picked, IsContent, Places, FoldLeft, MapThenFoldSet
<1>2. step \in [Seq(Nat) \X DOMAIN t -> Seq(Nat)]
  <2>1. ASSUME NEW seen \in Seq(Nat), NEW i \in DOMAIN t
        PROVE  Picked(seen, t, i) \in Seq(Nat)
    <3>1. i \in Nat
      BY <1>0
    <3>. QED BY <3>1, AppendProperties DEF Picked
  <2>. QED BY <2>1 DEF PickedFrom
<1>3. <<>> \in Seq(Nat)
  BY EmptySeq
<1>. HIDE DEF p
<1>4. PICK g \in [SUBSET DOMAIN p -> Seq(Nat)] : LeftFolds(g, p, <<>>, step)
  <2>. HIDE DEF step
  <2>. QED BY <1>00, <1>2, <1>3, LeftFoldExists
<1>5. ASSUME NEW T \in SUBSET DOMAIN p, T # {}
      PROVE  p[Max(T)] \in DOMAIN t /\ s[p[Max(T)]] = t[p[Max(T)]]
  <2>1. Max(T) \in S
    <3>. HIDE DEF S
    <3>. QED BY <1>0, <1>5, Largest
  <2>. QED BY <1>0, <2>1
<1>55. ASSUME NEW T \in SUBSET DOMAIN p, T # {}, NEW v \in Seq(Nat)
       PROVE  step[<<v, p[Max(T)]>>] = Picked(v, s, p[Max(T)])
  BY <1>5, <1>55 DEF PickedFrom, Picked
<1>. HIDE DEF step
<1>6. Rec(g)
  <2>1. ASSUME NEW T \in SUBSET DOMAIN p, T # {}
        PROVE  g[T] = Picked(g[T \ {Max(T)}], s, p[Max(T)])
    <3>1. g[T] = step[<<g[T \ {Max(T)}], p[Max(T)]>>]
      BY <1>4, <2>1 DEF LeftFolds
    <3>2. g[T \ {Max(T)}] \in Seq(Nat)
      BY <2>1
    <3>. QED BY <2>1, <3>1, <3>2, <1>55
  <2>2. g[{}] = <<>>
    BY <1>4 DEF LeftFolds
  <2>. QED BY <2>1, <2>2
<1>7. Rec(fold)
  <2>. HIDE DEF Rec
  <2>. QED BY <1>6
<1>. HIDE DEF fold
<1>8. ASSUME NEW T \in SUBSET DOMAIN p, T # {}, fold[T \ {Max(T)}] \in Seq(Nat)
      PROVE  fold[T] = step[<<fold[T \ {Max(T)}], p[Max(T)]>>]
  <2>1. fold[T] = Picked(fold[T \ {Max(T)}], s, p[Max(T)])
    BY <1>7, <1>8
  <2>. QED BY <2>1, <1>55, <1>8
<1>9. fold[{}] = <<>>
  BY <1>7
<1>. HIDE DEF Rec
<1>10. LeftFoldsWithin(fold, p, <<>>, step, Seq(Nat))
  BY <1>8, <1>9 DEF LeftFoldsWithin
<1>11. IsLeftFold(fold[DOMAIN p], p, <<>>, step, Seq(Nat))
  BY <1>00, <1>2, <1>3, <1>10, LeftFoldIs
<1>. QED BY <1>00, <1>1, <1>11 DEF p, step

(* One more callback adds its place when it is a text or a comment. *)
LEMMA ContentSteps ==
  ASSUME NEW s \in Seq(Contents), NEW c \in Contents
  PROVE  /\ ContentOf(s) \in Seq(Nat) /\ Len(s) + 1 \in Nat
         /\ ContentOf(Append(s, c)) =
              IF IsContent(c) THEN Append(ContentOf(s), Len(s) + 1) ELSE ContentOf(s)
<1>. DEFINE t == Append(s, c)
            n == Len(s)
<1>1. /\ t \in Seq(Contents) /\ n \in Nat /\ Len(t) = n + 1 /\ DOMAIN s = 1..n
      /\ DOMAIN t = 1..(n + 1) /\ t[n + 1] = c /\ \A i \in 1..n : s[i] = t[i]
  BY Appended
<1>. HIDE DEF t, n
<1>2. Len(s) <= Len(t) /\ \A i \in 1..Len(s) : s[i] = t[i]
  BY <1>1 DEF n
<1>3. /\ IsLeftFold(ContentOf(s), Places(s), <<>>, PickedFrom(t), Seq(Nat))
      /\ Places(s) \in Seq(DOMAIN t)
  BY <1>1, <1>2, ContentFold
<1>4. /\ IsLeftFold(ContentOf(t), Places(t), <<>>, PickedFrom(t), Seq(Nat))
      /\ Places(t) \in Seq(DOMAIN t)
  <2>1. Len(t) <= Len(t)
    BY <1>1
  <2>. QED BY <1>1, <2>1, ContentFold
<1>5. n + 1 \in DOMAIN t
  BY <1>1
<1>6. Places(t) = Append(Places(s), n + 1)
  <2>1. Len(Places(s)) = n /\ \A i \in 1..n : Places(s)[i] = i
    BY <1>1, <1>3, LenProperties DEF Places
  <2>2. Len(Places(t)) = n + 1 /\ \A i \in 1..(n + 1) : Places(t)[i] = i
    BY <1>1, <1>4, LenProperties DEF Places
  <2>3. /\ Append(Places(s), n + 1) \in Seq(DOMAIN t) /\ Len(Append(Places(s), n + 1)) = n + 1
        /\ \A i \in 1..(n + 1) : Append(Places(s), n + 1)[i] = i
    <3>1. PICK u : u = Append(Places(s), n + 1)
      OBVIOUS
    <3>2. /\ u \in Seq(DOMAIN t) /\ Len(u) = n + 1 /\ u[n + 1] = n + 1
          /\ \A i \in 1..n : u[i] = Places(s)[i]
      BY <1>3, <1>5, <2>1, <3>1, AppendProperties
    <3>3. ASSUME NEW i \in 1..(n + 1)
          PROVE  u[i] = i
      <4>1. i \in 1..n \/ i = n + 1
        BY <1>1
      <4>. QED BY <2>1, <3>2, <4>1
    <3>. QED BY <3>1, <3>2, <3>3
  <2>. QED BY <1>4, <2>2, <2>3, SeqEqual
<1>7. /\ ContentOf(s) \in Seq(Nat)
      /\ ContentOf(t) = PickedFrom(t)[<<ContentOf(s), n + 1>>]
  BY <1>3, <1>4, <1>5, <1>6, LeftFoldOfAppend
<1>8. ContentOf(t) = Picked(ContentOf(s), t, n + 1)
  BY <1>5, <1>7 DEF PickedFrom
<1>. QED BY <1>1, <1>7, <1>8 DEF Picked, t, n

-----------------------------------------------------------------------------
(* The order of the texts *)

(* An instruction that delivers nothing of its own, and one for the piece  *)
(* n of the content                                                        *)
Silent(x) == x.do # "call" \/ ~(x.e.event \in {"characters", "comment"})

Delivering(x, n) == x = Do(Characters(<<n>>)) \/ x = Do([event |-> "comment", at |-> n])

AllSilent(program) == \A i \in DOMAIN program : Silent(program[i])

(* Exactly one instruction delivers the piece n. *)
Delivers(program, n) ==
  \E j \in DOMAIN program :
     /\ Delivering(program[j], n)
     /\ \A i \in DOMAIN program : i # j => Silent(program[i])

(* What the handler has seen and the buffer are the content, or the        *)
(* running callback has still to deliver the last piece, after a flush.    *)
TextsAgree(seen, buffer, content, program) ==
  \/ AllSilent(program) /\ seen \o buffer = content
  \/ \E n \in Nat :
        /\ Delivers(program, n)
        /\ content = Append(seen \o buffer, n)
        /\ buffer # <<>> => Head(program) = FlushIt

Ordered ==
  status = "parsing" =>
    /\ ~join => sax.charbuf = <<>>
    /\ TextsAgree(Delivered, sax.charbuf, Content, todo)

(* The instruction that delivers is not the first one: it is left. *)
LEMMA DeliversLater ==
  ASSUME NEW program \in Seq(Instructions), program # <<>>, NEW n,
         NEW j \in DOMAIN program, j # 1, Delivering(program[j], n),
         \A i \in DOMAIN program : i # j => Silent(program[i])
  PROVE  Delivers(Tail(program), n)
<1>. DEFINE rest == Tail(program)
<1>1. /\ Len(program) \in Nat \ {0}
      /\ DOMAIN program = 1..Len(program) /\ DOMAIN rest = 1..(Len(program) - 1)
      /\ \A i \in 1..(Len(program) - 1) : rest[i] = program[i + 1]
  BY TailOf, LenProperties
<1>. HIDE DEF rest
<1>2. j - 1 \in DOMAIN rest /\ rest[j - 1] = program[j]
  <2>1. j - 1 \in 1..(Len(program) - 1) /\ j - 1 + 1 = j
    BY <1>1
  <2>. QED BY <1>1, <2>1
<1>3. ASSUME NEW i \in DOMAIN rest, i # j - 1
      PROVE  Silent(rest[i])
  <2>1. i + 1 \in DOMAIN program /\ i + 1 # j /\ rest[i] = program[i + 1]
    BY <1>1, <1>3
  <2>. QED BY <2>1
<1>4. Delivers(rest, n)
  BY <1>2, <1>3 DEF Delivers
<1>. QED BY <1>4 DEF rest

(* What is left after a flush *)
LEMMA AgreeFlushed ==
  ASSUME NEW seen \in Seq(Nat), NEW buffer \in Seq(Nat), NEW content,
         NEW program \in Seq(Instructions), program # <<>>, Head(program) = FlushIt,
         TextsAgree(seen, buffer, content, program)
  PROVE  TextsAgree(seen \o buffer, <<>>, content, Tail(program))
<1>. DEFINE rest == Tail(program)
<1>1. /\ Len(program) \in Nat \ {0} /\ Len(rest) = Len(program) - 1 /\ program[1] = FlushIt
      /\ DOMAIN program = 1..Len(program) /\ DOMAIN rest = 1..(Len(program) - 1)
      /\ \A i \in 1..(Len(program) - 1) : rest[i] = program[i + 1]
  BY TailOf, LenProperties
<1>. HIDE DEF rest
<1>2. (seen \o buffer) \o <<>> = seen \o buffer
  BY ConcatProperties, ConcatEmptySeq
<1>3. CASE AllSilent(program) /\ seen \o buffer = content
  <2>1. AllSilent(rest)
    <3>1. \A i \in DOMAIN rest : i + 1 \in DOMAIN program /\ rest[i] = program[i + 1]
      BY <1>1
    <3>. QED BY <1>3, <3>1 DEF AllSilent
  <2>. QED BY <1>2, <1>3, <2>1 DEF TextsAgree, rest
<1>4. CASE \E n \in Nat : Delivers(program, n) /\ content = Append(seen \o buffer, n)
  <2>1. PICK n \in Nat : Delivers(program, n) /\ content = Append(seen \o buffer, n)
    BY <1>4
  <2>2. PICK j \in DOMAIN program : /\ Delivering(program[j], n)
                                    /\ \A i \in DOMAIN program : i # j => Silent(program[i])
    BY <2>1 DEF Delivers
  <2>3. j # 1
    BY <1>1, <2>2 DEF Delivering, FlushIt, Do
  <2>4. Delivers(rest, n)
    BY <1>1, <2>2, <2>3, DeliversLater DEF rest
  <2>. QED BY <1>2, <2>1, <2>4 DEF TextsAgree, rest
<1>. QED BY <1>3, <1>4 DEF TextsAgree

(* What is left after an instruction that neither flushes nor delivers *)
LEMMA AgreeSilent ==
  ASSUME NEW seen, NEW buffer, NEW content,
         NEW program \in Seq(Instructions), program # <<>>,
         Silent(Head(program)), Head(program) # FlushIt,
         TextsAgree(seen, buffer, content, program)
  PROVE  TextsAgree(seen, buffer, content, Tail(program))
<1>. DEFINE rest == Tail(program)
<1>1. /\ Len(program) \in Nat \ {0} /\ program[1] = Head(program)
      /\ DOMAIN program = 1..Len(program) /\ DOMAIN rest = 1..(Len(program) - 1)
      /\ \A i \in 1..(Len(program) - 1) : rest[i] = program[i + 1]
  BY TailOf, LenProperties
<1>. HIDE DEF rest
<1>3. CASE AllSilent(program) /\ seen \o buffer = content
  <2>1. \A i \in DOMAIN rest : i + 1 \in DOMAIN program /\ rest[i] = program[i + 1]
    BY <1>1
  <2>. QED BY <1>3, <2>1 DEF TextsAgree, AllSilent, rest
<1>4. CASE \E n \in Nat : Delivers(program, n) /\ content = Append(seen \o buffer, n) /\ buffer = <<>>
  <2>1. PICK n \in Nat : Delivers(program, n) /\ content = Append(seen \o buffer, n) /\ buffer = <<>>
    BY <1>4
  <2>2. PICK j \in DOMAIN program : /\ Delivering(program[j], n)
                                    /\ \A i \in DOMAIN program : i # j => Silent(program[i])
    BY <2>1 DEF Delivers
  <2>3. ~Silent(program[j])
    BY <2>2 DEF Delivering, Silent, Do, Characters
  <2>4. Delivers(rest, n)
    BY <1>1, <2>2, <2>3, DeliversLater DEF rest
  <2>. QED BY <2>1, <2>4 DEF TextsAgree, rest
<1>. QED BY <1>3, <1>4 DEF TextsAgree

(* What is left after the instruction that delivers *)
LEMMA AgreeDelivered ==
  ASSUME NEW seen \in Seq(Nat), NEW buffer \in Seq(Nat), NEW content,
         NEW program \in Seq(Instructions), program # <<>>, NEW e, Head(program) = Do(e),
         ~Silent(Head(program)), TextsAgree(seen, buffer, content, program)
  PROVE  buffer = <<>> /\ TextsAgree(Seeing(seen, e), <<>>, content, Tail(program))
<1>. DEFINE rest == Tail(program)
<1>1. /\ Len(program) \in Nat \ {0} /\ program[1] = Head(program) /\ 1 \in DOMAIN program
      /\ DOMAIN program = 1..Len(program) /\ DOMAIN rest = 1..(Len(program) - 1)
      /\ \A i \in 1..(Len(program) - 1) : rest[i] = program[i + 1]
  BY TailOf, LenProperties
<1>. HIDE DEF rest
<1>2. PICK n \in Nat : /\ Delivers(program, n) /\ content = Append(seen \o buffer, n)
                       /\ buffer # <<>> => Head(program) = FlushIt
  BY <1>1 DEF TextsAgree, AllSilent
<1>3. buffer = <<>>
  BY <1>2 DEF FlushIt, Silent
<1>4. PICK j \in DOMAIN program : /\ Delivering(program[j], n)
                                  /\ \A i \in DOMAIN program : i # j => Silent(program[i])
  BY <1>2 DEF Delivers
<1>5. j = 1
  BY <1>1, <1>4
<1>6. e = Characters(<<n>>) \/ e = [event |-> "comment", at |-> n]
  BY <1>1, <1>4, <1>5 DEF Delivering, Do
<1>7. Seeing(seen, e) = Append(seen, n)
  <2>1. CASE e = Characters(<<n>>)
    BY <2>1, AppendIsConcat DEF Seeing, Characters
  <2>2. CASE e = [event |-> "comment", at |-> n]
    BY <2>2 DEF Seeing
  <2>. QED BY <1>6, <2>1, <2>2
<1>8. AllSilent(rest)
  <2>1. \A i \in DOMAIN rest : i + 1 \in DOMAIN program /\ i + 1 # 1 /\ rest[i] = program[i + 1]
    BY <1>1
  <2>. QED BY <1>4, <1>5, <2>1 DEF AllSilent
<1>9. seen \o <<>> = seen /\ Append(seen, n) \o <<>> = Append(seen, n)
  <2>1. Append(seen, n) \in Seq(Nat)
    BY AppendProperties
  <2>. QED BY <2>1, ConcatEmptySeq
<1>. QED BY <1>2, <1>3, <1>7, <1>8, <1>9 DEF TextsAgree, rest

(* Delivered and Content, as folds over the events and the callbacks *)
LEMMA Seen ==
  ASSUME Typed
  PROVE  /\ Delivered = DeliveredBy(log) /\ Delivered \in Seq(Nat)
         /\ Content = ContentOf(calls) /\ Content \in Seq(Nat)
<1>1. Delivered = DeliveredBy(log) /\ Content = ContentOf(calls)
  BY DEF Delivered, DeliveredBy, Content, ContentOf
<1>2. log \in Seq(Events) /\ calls \in Seq(Contents)
  BY DEF Typed
<1>3. [event |-> "text"] \in Contents /\ Event("end_document") \in Events
  BY ContentsTyped DEF Events
<1>. QED BY <1>1, <1>2, <1>3, DeliveredSteps, ContentSteps

(* Delivered and Content after a step *)
LEMMA SeenNext ==
  /\ Delivered' = DeliveredBy(log')
  /\ Content' = ContentOf(calls')
<1>1. (Delivered = DeliveredBy(log)) /\ (Content = ContentOf(calls))
  BY DEF Delivered, DeliveredBy, Content, ContentOf
<1>2. (Delivered = DeliveredBy(log))' /\ (Content = ContentOf(calls))'
  BY <1>1, PTL
<1>. QED BY <1>2

(* The handler is called, or not: the running callback goes on. *)
LEMMA OrderGoesOn ==
  ASSUME Typed, todo # <<>>, UNCHANGED parser, log' = log, todo' = Tail(todo),
         Ordered, Silent(Head(todo)), Head(todo) # FlushIt, sax'.charbuf = sax.charbuf
  PROVE  Ordered'
<1>1. status = "parsing" /\ todo \in Seq(Instructions)
  BY DEF Typed
<1>2. join' = join /\ calls' = calls
  BY DEF parser
<1>3. Delivered' = Delivered /\ Content' = Content
  BY <1>2, Seen, SeenNext
<1>4. TextsAgree(Delivered, sax.charbuf, Content, Tail(todo))
  BY <1>1, AgreeSilent DEF Ordered
<1>. QED BY <1>1, <1>2, <1>3, <1>4 DEF Ordered

(* An event that delivers no text keeps the order. *)
LEMMA OrderCalled ==
  ASSUME Typed, todo # <<>>, UNCHANGED parser, NEW e \in Events, Call(e), Ordered,
         Silent(Head(todo)), ~(e.event \in {"characters", "comment"}),
         Head(todo) # FlushIt, sax'.charbuf = sax.charbuf
  PROVE  Ordered'
<1>1. status = "parsing" /\ todo \in Seq(Instructions) /\ log \in Seq(Events)
  BY DEF Typed
<1>2. join' = join /\ calls' = calls /\ log' = Append(log, e)
  BY DEF parser, Call
<1>3. Delivered' = Delivered /\ Content' = Content
  <2>1. DeliveredBy(log') = Seeing(DeliveredBy(log), e)
    BY <1>1, <1>2, DeliveredSteps
  <2>2. Seeing(DeliveredBy(log), e) = DeliveredBy(log)
    BY DEF Seeing
  <2>. QED BY <1>2, <2>1, <2>2, Seen, SeenNext
<1>4. TextsAgree(Delivered, sax.charbuf, Content, Tail(todo))
  BY <1>1, AgreeSilent DEF Ordered
<1>5. status' = "parsing" => todo' = Tail(todo)
  BY DEF Call
<1>. QED BY <1>1, <1>2, <1>3, <1>4, <1>5 DEF Ordered

(* Flushing moves the buffer to the end of what the handler has seen. *)
LEMMA OrderFlushed ==
  ASSUME Typed, Ordered, Flush
  PROVE  Ordered'
<1>. DEFINE e == Characters(sax.charbuf)
<1>1. todo # <<>> /\ Head(todo).do = "flush" /\ UNCHANGED parser /\ sax' = [sax EXCEPT !.charbuf = <<>>]
      /\ (IF sax.charbuf = <<>> THEN Silently ELSE Call(e))
  BY DEF Flush, Running
<1>2. status = "parsing" /\ todo \in Seq(Instructions) /\ log \in Seq(Events)
  BY <1>1 DEF Typed
<1>3. sax \in Vectors /\ sax.charbuf \in Seq(Nat)
  BY <1>2, VectorThere
<1>4. sax'.charbuf = <<>>
  BY <1>1, <1>3, EmptySeq DEF Vectors
<1>5. Head(todo) = FlushIt
  <2>1. Head(todo) \in Instructions
    BY <1>1, <1>2, TailOf
  <2>. QED BY <1>1, <2>1 DEF Instructions, FlushIt, NarrowIt, Do, Doing, DeclareIt
<1>6. join' = join /\ calls' = calls /\ (status' = "parsing" => todo' = Tail(todo))
  BY <1>1 DEF parser, Silently, Call
<1>7. Delivered' = Delivered \o sax.charbuf /\ Content' = Content
  <2>1. Content' = Content
    BY <1>6, Seen, SeenNext
  <2>2. CASE sax.charbuf = <<>>
    <3>1. log' = log
      BY <1>1, <2>2 DEF Silently
    <3>2. Delivered \o <<>> = Delivered
      BY Seen, ConcatEmptySeq
    <3>. QED BY <2>1, <2>2, <3>1, <3>2, Seen, SeenNext
  <2>3. CASE sax.charbuf # <<>>
    <3>1. log' = Append(log, e) /\ e \in Events
      BY <1>1, <1>3, <2>3 DEF Call, Events, PlainEvents
    <3>2. DeliveredBy(log') = Seeing(DeliveredBy(log), e)
      BY <1>2, <3>1, DeliveredSteps
    <3>. QED BY <2>1, <3>2, Seen, SeenNext DEF Seeing, Characters
  <2>. QED BY <2>2, <2>3
<1>8. TextsAgree(Delivered \o sax.charbuf, <<>>, Content, Tail(todo))
  BY <1>1, <1>2, <1>3, <1>5, Seen, AgreeFlushed DEF Ordered
<1>. QED BY <1>2, <1>4, <1>6, <1>7, <1>8 DEF Ordered

(* A method is called with a text, a comment or something else. *)
LEMMA OrderMethod ==
  ASSUME Typed, Ordered, CallMethod
  PROVE  Ordered'
<1>. DEFINE e == Head(todo).e
<1>1. todo # <<>> /\ Head(todo).do = "call" /\ UNCHANGED <<parser, sax>> /\ Call(e)
  BY DEF CallMethod, Running
<1>2. status = "parsing" /\ todo \in Seq(Instructions) /\ log \in Seq(Events)
  BY <1>1 DEF Typed
<1>3. Head(todo) = Do(e) /\ e \in Events
  <2>1. Head(todo) \in Instructions
    BY <1>1, <1>2, TailOf
  <2>2. PICK x \in PlainEvents \cup MappingEvents : Head(todo) = Do(x)
    BY <1>1, <2>1 DEF Instructions, FlushIt, NarrowIt, Doing, DeclareIt
  <2>. QED BY <2>2 DEF Do, Events
<1>4. Head(todo) # FlushIt
  BY <1>1 DEF FlushIt
<1>5. CASE Silent(Head(todo))
  <2>1. ~(e.event \in {"characters", "comment"})
    BY <1>1, <1>5 DEF Silent
  <2>. HIDE DEF e
  <2>. QED BY <1>1, <1>3, <1>4, <1>5, <2>1, OrderCalled
<1>6. CASE ~Silent(Head(todo))
  <2>1. sax.charbuf \in Seq(Nat)
    BY <1>2, VectorThere
  <2>2. sax.charbuf = <<>> /\ TextsAgree(Seeing(Delivered, e), <<>>, Content, Tail(todo))
    BY <1>1, <1>2, <1>3, <1>6, <2>1, Seen, AgreeDelivered DEF Ordered
  <2>3. log' = Append(log, e) /\ (status' = "parsing" => todo' = Tail(todo)) /\ calls' = calls
    BY <1>1 DEF Call, parser
  <2>4. Delivered' = Seeing(Delivered, e) /\ Content' = Content
    BY <1>2, <1>3, <2>3, DeliveredSteps, Seen, SeenNext
  <2>. QED BY <1>1, <2>2, <2>3, <2>4 DEF Ordered
<1>. QED BY <1>5, <1>6

(* Any instruction keeps it. *)
LEMMA OrderExecuted ==
  ASSUME Typed, Ordered, Execute
  PROVE  Ordered'
<1>1. todo # <<>> /\ status = "parsing" /\ todo \in Seq(Instructions) /\ Head(todo) \in Instructions
  <2>1. todo # <<>>
    BY ByInstruction
  <2>. QED BY <2>1, TailOf DEF Typed
<1>2. sax \in Vectors /\ sax.stack \in Stacks
  BY <1>1, VectorThere
<1>3. ASSUME ExtendStack \/ NarrowStack
      PROVE  Ordered'
  <2>1. Silently /\ UNCHANGED parser /\ Head(todo).do # "call" /\ Head(todo).do # "flush"
        /\ sax'.charbuf = sax.charbuf
    BY <1>2, <1>3 DEF ExtendStack, NarrowStack, Running, Vectors
  <2>2. Silent(Head(todo)) /\ Head(todo) # FlushIt
    BY <2>1 DEF Silent, FlushIt
  <2>. QED BY <1>1, <2>1, <2>2, OrderGoesOn DEF Silently
<1>4. ASSUME Declare \/ CallStart \/ CallEnd
      PROVE  Ordered'
  <2>1. UNCHANGED parser /\ Head(todo).do # "call" /\ Head(todo).do # "flush"
        /\ sax'.charbuf = sax.charbuf
    BY <1>2, <1>4 DEF Declare, CallStart, CallEnd, Running, Vectors
  <2>2. Silent(Head(todo)) /\ Head(todo) # FlushIt
    BY <2>1 DEF Silent, FlushIt
  <2>3. PICK e \in Events : Call(e) /\ ~(e.event \in {"characters", "comment"})
    <3>1. CASE Declare
      <4>1. Head(todo).item \in Items
        BY <1>1, <3>1 DEF Declare, Running, Instructions, FlushIt, NarrowIt, Do, Doing, DeclareIt
      <4>2. Mapping("start_prefix_mapping", Head(todo).item) \in Events
        BY <4>1 DEF Events, MappingEvents
      <4>. QED BY <3>1, <4>2 DEF Declare, Mapping
    <3>2. CASE CallStart
      <4>1. Head(todo).tag \in StartTags
        BY <1>1, <3>2 DEF CallStart, Running, Instructions, FlushIt, NarrowIt, Do, Doing, DeclareIt
      <4>2. StartTag(sax.stack, Head(todo).tag) \in Events
        BY <1>2, <4>1 DEF Events, TagEvents
      <4>. QED BY <3>2, <4>2 DEF CallStart, StartTag
    <3>3. CASE CallEnd
      <4>1. Head(todo).tag \in StartTags
        BY <1>1, <3>3 DEF CallEnd, Running, Instructions, FlushIt, NarrowIt, Do, Doing, DeclareIt
      <4>2. EndTag(sax.stack, Head(todo).tag) \in Events
        BY <1>2, <4>1 DEF Events, TagEvents
      <4>. QED BY <3>3, <4>2 DEF CallEnd, EndTag
    <3>. QED BY <1>4, <3>1, <3>2, <3>3
  <2>. QED BY <1>1, <2>1, <2>2, <2>3, OrderCalled
<1>. QED BY <1>3, <1>4, OrderFlushed, OrderMethod DEF Execute

(* An instruction put before others *)
LEMMA PutBeforeAt ==
  ASSUME NEW x \in Instructions, NEW program \in Seq(Instructions),
         NEW t, t = Before(x, program)
  PROVE  /\ Len(program) \in Nat /\ DOMAIN program = 1..Len(program)
         /\ DOMAIN t = 1..(Len(program) + 1) /\ t[1] = x /\ Head(t) = x
         /\ \A i \in 1..Len(program) : t[i + 1] = program[i]
<1>1. /\ t \in Seq(Instructions) /\ t # <<>> /\ Head(t) = x /\ Tail(t) = program
      /\ Len(t) = Len(program) + 1
  BY PutBefore
<1>2. Len(program) \in Nat /\ DOMAIN program = 1..Len(program) /\ DOMAIN t = 1..Len(t)
  BY <1>1, LenProperties
<1>3. t[1] = x /\ \A i \in 1..(Len(t) - 1) : program[i] = t[i + 1]
  BY <1>1, TailOf
<1>. QED BY <1>1, <1>2, <1>3

(* A program without texts that begins with one more such instruction *)
LEMMA SilentBefore ==
  ASSUME NEW x \in Instructions, NEW program \in Seq(Instructions), Silent(x), AllSilent(program)
  PROVE  AllSilent(Before(x, program))
<1>1. PICK t : t = Before(x, program)
  OBVIOUS
<1>2. /\ Len(program) \in Nat /\ DOMAIN program = 1..Len(program)
      /\ DOMAIN t = 1..(Len(program) + 1) /\ t[1] = x
      /\ \A i \in 1..Len(program) : t[i + 1] = program[i]
  BY <1>1, PutBeforeAt
<1>3. ASSUME NEW i \in DOMAIN t
      PROVE  Silent(t[i])
  <2>1. CASE i = 1
    BY <1>2, <2>1
  <2>2. CASE i # 1
    <3>1. i - 1 \in 1..Len(program) /\ i - 1 + 1 = i
      BY <1>2, <2>2
    <3>. QED BY <1>2, <3>1 DEF AllSilent
  <2>. QED BY <2>1, <2>2
<1>. QED BY <1>1, <1>3 DEF AllSilent

(* A flush in front delivers nothing of the callback. *)
LEMMA FlushedSilent ==
  ASSUME NEW program \in Seq(Instructions), AllSilent(program)
  PROVE  AllSilent(Flushed(program))
<1>1. FlushIt \in Instructions /\ Silent(FlushIt)
  BY DEF Instructions, Silent, FlushIt
<1>. QED BY <1>1, Flushing, SilentBefore

(* A program delivers the same after a flush. *)
LEMMA FlushedDelivers ==
  ASSUME NEW program \in Seq(Instructions), NEW n, Delivers(program, n)
  PROVE  Delivers(Flushed(program), n) /\ (join => Head(Flushed(program)) = FlushIt)
<1>1. CASE ~join
  BY <1>1 DEF Flushed
<1>2. CASE join
  <2>1. PICK t : t = Before(FlushIt, program)
    OBVIOUS
  <2>2. t = Flushed(program)
    BY <1>2, <2>1 DEF Flushed, Before, FlushIt
  <2>3. FlushIt \in Instructions /\ Silent(FlushIt)
    BY DEF Instructions, Silent, FlushIt
  <2>4. /\ Len(program) \in Nat /\ DOMAIN program = 1..Len(program) /\ Head(t) = FlushIt
        /\ DOMAIN t = 1..(Len(program) + 1) /\ t[1] = FlushIt
        /\ \A i \in 1..Len(program) : t[i + 1] = program[i]
    BY <2>1, <2>3, PutBeforeAt
  <2>5. PICK j \in DOMAIN program : /\ Delivering(program[j], n)
                                    /\ \A i \in DOMAIN program : i # j => Silent(program[i])
    BY DEF Delivers
  <2>6. j + 1 \in DOMAIN t /\ Delivering(t[j + 1], n)
    BY <2>4, <2>5
  <2>7. ASSUME NEW i \in DOMAIN t, i # j + 1
        PROVE  Silent(t[i])
    <3>1. CASE i = 1
      BY <2>3, <2>4, <3>1
    <3>2. CASE i # 1
      <4>1. i - 1 \in DOMAIN program /\ i - 1 + 1 = i /\ i - 1 # j /\ i - 1 \in 1..Len(program)
        BY <2>4, <2>5, <2>7, <3>2
      <4>. QED BY <2>4, <2>5, <4>1
    <3>. QED BY <3>1, <3>2
  <2>8. Delivers(t, n)
    BY <2>6, <2>7 DEF Delivers
  <2>. QED BY <2>2, <2>4, <2>8
<1>. QED BY <1>1, <1>2

(* The callbacks for elements deliver no text. *)
LEMMA ElementsSilent ==
  ASSUME NEW tag \in StartTags, NEW defs \in Seq(Items)
  PROVE  AllSilent(StartAll(tag, defs)) /\ AllSilent(EndAll(tag, defs))
<1>1. 0 \in 0..Len(defs) /\ Len(defs) \in Nat /\ DOMAIN defs = 1..Len(defs)
      /\ \A i \in 1..Len(defs) : defs[i] \in Items
  BY LenProperties, ElementOfSeq
<1>2. StartRest(tag, defs, 0) \in Seq(Instructions) /\ EndRest(defs, 0) \in Seq(Instructions)
  BY <1>1, StartInstructions, EndInstructions
<1>3. AllSilent(StartRest(tag, defs, 0)) /\ AllSilent(EndRest(defs, 0))
  BY <1>1 DEF AllSilent, Silent, StartRest, EndRest, DeclareIt, Doing, Do, Mapping, NarrowIt
<1>4. /\ Doing("extend", tag) \in Instructions /\ Silent(Doing("extend", tag))
      /\ Doing("end_element", tag) \in Instructions /\ Silent(Doing("end_element", tag))
  BY DEF Instructions, Silent, Doing
<1>. QED BY <1>2, <1>3, <1>4, SilentBefore DEF StartAll, EndAll

(* Between two callbacks nothing is left to be delivered. *)
LEMMA BetweenTexts ==
  ASSUME Ordered, status = "parsing", todo = <<>>
  PROVE  Delivered \o sax.charbuf = Content
<1>1. ~ \E n \in Nat : Delivers(<<>>, n)
  BY DEF Delivers
<1>. QED BY <1>1 DEF Ordered, TextsAgree

(* A callback without text *)
LEMMA OrderQuietly ==
  ASSUME Typed, Ordered, status = "parsing", todo = <<>>, NEW content \in Contents, ~IsContent(content),
         calls' = Append(calls, content), UNCHANGED <<status, join, log>>,
         sax'.charbuf = sax.charbuf, AllSilent(todo')
  PROVE  Ordered'
<1>1. calls \in Seq(Contents)
  BY DEF Typed
<1>2. Delivered' = Delivered /\ Content' = Content
  <2>1. ContentOf(calls') = ContentOf(calls)
    BY <1>1, ContentSteps
  <2>. QED BY <2>1, Seen, SeenNext
<1>3. Delivered \o sax.charbuf = Content
  BY BetweenTexts
<1>. QED BY <1>2, <1>3 DEF Ordered, TextsAgree

(* A callback that delivers its text itself, after a flush *)
LEMMA OrderDelivering ==
  ASSUME Typed, Ordered, status = "parsing", todo = <<>>, NEW content \in Contents, IsContent(content),
         calls' = Append(calls, content), UNCHANGED <<status, join, log, sax>>,
         NEW program \in Seq(Instructions), Delivers(program, Len(calls) + 1),
         todo' = Flushed(program)
  PROVE  Ordered'
<1>. DEFINE n == Len(calls) + 1
<1>1. calls \in Seq(Contents) /\ n \in Nat
  BY ContentSteps DEF Typed
<1>2. Delivered' = Delivered /\ Content' = Append(Content, n)
  <2>1. ContentOf(calls') = Append(ContentOf(calls), n)
    BY <1>1, ContentSteps
  <2>. QED BY <2>1, Seen, SeenNext
<1>3. Delivered \o sax.charbuf = Content
  BY BetweenTexts
<1>4. Delivers(todo', n) /\ (join => Head(todo') = FlushIt)
  BY FlushedDelivers
<1>5. sax.charbuf # <<>> => join
  BY DEF Ordered
<1>. HIDE DEF n
<1>. QED BY <1>1, <1>2, <1>3, <1>4, <1>5 DEF Ordered, TextsAgree

(* A text is put into the buffer or delivered at once. *)
LEMMA OrderText ==
  ASSUME Typed, Ordered, Text
  PROVE  Ordered'
<1>. DEFINE n == Len(calls) + 1
<1>1. /\ status = "parsing" /\ todo = <<>> /\ calls' = Append(calls, [event |-> "text"])
      /\ UNCHANGED <<mode, join, status, log, open>>
      /\ todo' = (IF join THEN <<>> ELSE <<Do(Characters(<<n>>))>>)
      /\ sax' = [sax EXCEPT !.charbuf = IF join THEN Append(@, n) ELSE @]
  BY DEF Text, Callback
<1>2. [event |-> "text"] \in Contents /\ IsContent([event |-> "text"])
  BY ContentsTyped DEF IsContent
<1>3. calls \in Seq(Contents) /\ n \in Nat
  BY <1>2, ContentSteps DEF Typed
<1>4. sax \in Vectors /\ sax.charbuf \in Seq(Nat)
  BY <1>1, VectorThere
<1>5. CASE join
  <2>1. Delivered' = Delivered /\ Content' = Append(Content, n)
    <3>1. ContentOf(calls') = Append(ContentOf(calls), n)
      BY <1>1, <1>2, <1>3, ContentSteps
    <3>. QED BY <1>1, <3>1, Seen, SeenNext
  <2>. HIDE DEF n
  <2>2. sax'.charbuf = Append(sax.charbuf, n)
    BY <1>1, <1>4, <1>5 DEF Vectors
  <2>3. Delivered \o sax.charbuf = Content
    BY <1>1, BetweenTexts
  <2>4. Delivered \o Append(sax.charbuf, n) = Append(Delivered \o sax.charbuf, n)
    <3>1. PICK a, b : a = Delivered /\ b = sax.charbuf
      OBVIOUS
    <3>2. a \in Seq(Nat) /\ b \in Seq(Nat) /\ <<n>> \in Seq(Nat)
      BY <1>3, <1>4, <3>1, Seen
    <3>3. (a \o b) \o <<n>> = a \o (b \o <<n>>) /\ a \o b \in Seq(Nat)
      BY <3>2, ConcatAssociative, ConcatProperties
    <3>4. Append(a \o b, n) = (a \o b) \o <<n>> /\ Append(b, n) = b \o <<n>>
      BY <1>3, <3>2, <3>3, AppendIsConcat
    <3>. QED BY <3>1, <3>3, <3>4
  <2>5. AllSilent(todo')
    BY <1>1, <1>5 DEF AllSilent
  <2>. QED BY <1>1, <1>5, <2>1, <2>2, <2>3, <2>4, <2>5 DEF Ordered, TextsAgree
<1>6. CASE ~join
  <2>. DEFINE x       == Do(Characters(<<n>>))
              program == <<x>>
  <2>1. x \in Instructions
    BY <1>3, PlainTyped
  <2>2. program \in Seq(Instructions)
    <3>. HIDE DEF x
    <3>. QED BY <2>1, ProgramTyped, Zenon
  <2>3. Delivers(program, n)
    BY DEF Delivers, Delivering
  <2>4. sax' = sax
    BY <1>1, <1>4, <1>6 DEF Vectors
  <2>5. todo' = Flushed(program)
    BY <1>1, <1>6 DEF Flushed
  <2>. HIDE DEF x, program
  <2>. QED BY <1>1, <1>2, <2>2, <2>3, <2>4, <2>5, OrderDelivering
<1>. QED BY <1>5, <1>6

(* A CDATA section and a comment are delivered after a flush. *)
LEMMA OrderContent ==
  ASSUME Typed, Ordered, CDATABlock \/ Comment
  PROVE  Ordered'
<1>. DEFINE n == Len(calls) + 1
<1>1. n \in Nat
  BY LenProperties DEF Typed
<1>2. CASE CDATABlock
  <2>. DEFINE x       == Do(Event("start_cdata"))
              y       == Do(Characters(<<n>>))
              z       == Do(Event("end_cdata"))
              program == <<x, y, z>>
  <2>1. x \in Instructions /\ y \in Instructions /\ z \in Instructions
    BY <1>1, PlainTyped DEF PlainKinds
  <2>2. Silent(x) /\ Delivering(y, n) /\ Silent(z)
    BY DEF Silent, Delivering, Do, Event
  <2>3. /\ status = "parsing" /\ todo = <<>> /\ calls' = Append(calls, [event |-> "text"])
        /\ UNCHANGED <<mode, join, status, log, open, sax>> /\ todo' = Flushed(program)
    BY <1>2 DEF CDATABlock, Callback
  <2>. HIDE DEF x, y, z
  <2>4. program \in Seq(Instructions)
    BY <2>1, ProgramTyped, Zenon
  <2>5. Delivers(program, n)
    BY <2>2 DEF Delivers
  <2>6. [event |-> "text"] \in Contents /\ IsContent([event |-> "text"])
    BY ContentsTyped DEF IsContent
  <2>. HIDE DEF program
  <2>. QED BY <2>3, <2>4, <2>5, <2>6, OrderDelivering
<1>3. CASE Comment
  <2>. DEFINE x       == Do([event |-> "comment", at |-> n])
              program == <<x>>
  <2>1. x \in Instructions
    BY <1>1, PlainTyped
  <2>2. Delivering(x, n)
    BY DEF Delivering
  <2>3. /\ status = "parsing" /\ todo = <<>> /\ calls' = Append(calls, [event |-> "comment"])
        /\ UNCHANGED <<mode, join, status, log, open, sax>> /\ todo' = Flushed(program)
    BY <1>3 DEF Comment, Callback
  <2>. HIDE DEF x
  <2>4. program \in Seq(Instructions)
    BY <2>1, ProgramTyped, Zenon
  <2>5. Delivers(program, n)
    BY <2>2 DEF Delivers
  <2>6. [event |-> "comment"] \in Contents /\ IsContent([event |-> "comment"])
    BY ContentsTyped DEF IsContent
  <2>. HIDE DEF program
  <2>. QED BY <2>3, <2>4, <2>5, <2>6, OrderDelivering
<1>. QED BY <1>2, <1>3

(* The other callbacks have no text. *)
LEMMA OrderOther ==
  ASSUME Typed, Based, Ordered,
         StartDocument \/ ExternalSubset \/ FatalError \/ EndElement \/ \E tag \in StartTags : StartElement(tag)
  PROVE  Ordered'
<1>1. CASE StartDocument
  <2>. DEFINE x       == Do(Event("set_document_locator"))
              y       == Do(Event("start_document"))
              z       == Do(Event("xml_decl"))
              program == <<x, y, z>>
  <2>1. x \in Instructions /\ y \in Instructions /\ z \in Instructions
    BY PlainTyped DEF PlainKinds
  <2>2. Silent(x) /\ Silent(y) /\ Silent(z)
    BY DEF Silent, Do, Event
  <2>3. /\ status = "parsing" /\ todo = <<>> /\ calls' = Append(calls, Event("document"))
        /\ UNCHANGED <<mode, join, status, log, open, sax>> /\ todo' = Flushed(program)
    BY <1>1 DEF StartDocument, Callback
  <2>. HIDE DEF x, y, z
  <2>4. program \in Seq(Instructions) /\ AllSilent(program)
    <3>1. program \in Seq(Instructions)
      BY <2>1, ProgramTyped, Zenon
    <3>. QED BY <2>2, <3>1 DEF AllSilent
  <2>. HIDE DEF program
  <2>5. Event("document") \in Contents /\ ~IsContent(Event("document"))
    BY ContentsTyped DEF IsContent, Event
  <2>. QED BY <2>3, <2>4, <2>5, FlushedSilent, OrderQuietly
<1>2. CASE ExternalSubset
  <2>1. /\ status = "parsing" /\ todo = <<>> /\ calls' = Append(calls, Event("dtd"))
        /\ UNCHANGED <<mode, join, status, log, open, sax>>
        /\ todo' = <<Do(Event("start_dtd")), Do(Event("end_dtd"))>>
    BY <1>2 DEF ExternalSubset, Callback
  <2>2. AllSilent(todo')
    BY <2>1 DEF AllSilent, Silent, Do, Event
  <2>3. Event("dtd") \in Contents /\ ~IsContent(Event("dtd"))
    BY ContentsTyped DEF IsContent, Event
  <2>. QED BY <2>1, <2>2, <2>3, OrderQuietly
<1>3. CASE FatalError
  <2>1. /\ status = "parsing" /\ todo = <<>> /\ calls' = Append(calls, Event("error"))
        /\ UNCHANGED <<mode, join, status, log, open, sax>> /\ todo' \in ErrorReports
    BY <1>3 DEF FatalError, Callback
  <2>2. AllSilent(todo')
    BY <2>1, ReportsPlain DEF AllSilent, Silent, Do, Event
  <2>3. Event("error") \in Contents /\ ~IsContent(Event("error"))
    BY ContentsTyped DEF IsContent, Event
  <2>. QED BY <2>1, <2>2, <2>3, OrderQuietly
<1>4. CASE EndElement
  <2>. DEFINE tag     == Last(open)
              defs    == Last(sax.stack).defs
              program == <<Doing("end_element", tag)>>
                           \o [i \in DOMAIN defs |-> Do(Mapping("end_prefix_mapping", defs[i]))]
                           \o <<[do |-> "narrow"]>>
              content == [event |-> "end", tag |-> tag]
  <2>1. /\ open # <<>> /\ status = "parsing" /\ todo = <<>> /\ calls' = Append(calls, content)
        /\ UNCHANGED <<mode, join, status, log, sax>> /\ todo' = Flushed(program)
    BY <1>4 DEF EndElement, Callback
  <2>2. tag \in StartTags /\ defs \in Seq(Items)
    <3>1. sax.stack \in Stacks /\ sax.stack # <<>>
      BY <2>1, VectorThere DEF Based
    <3>. QED BY <2>1, <3>1, LastFrame, FrontOf DEF Typed
  <2>3. content \in Contents /\ ~IsContent(content)
    BY <2>2 DEF Contents, IsContent
  <2>. HIDE DEF content, tag, defs
  <2>4. program = EndAll(tag, defs) /\ EndAll(tag, defs) \in Seq(Instructions)
    BY <2>2, EndPrograms
  <2>. HIDE DEF program
  <2>5. AllSilent(todo')
    BY <2>1, <2>2, <2>4, ElementsSilent, FlushedSilent
  <2>. QED BY <2>1, <2>3, <2>5, OrderQuietly
<1>5. ASSUME NEW tag \in StartTags, StartElement(tag)
      PROVE  Ordered'
  <2>. DEFINE defs    == Declarations(tag.items)
              program == <<Doing("extend", tag)>>
                           \o [i \in DOMAIN defs |->
                                 [do |-> "declare", tag |-> tag, item |-> defs[i]]]
                           \o <<Doing("start_element", tag)>>
              content == [event |-> "start", tag |-> tag]
  <2>1. /\ status = "parsing" /\ todo = <<>> /\ calls' = Append(calls, content)
        /\ UNCHANGED <<mode, join, status, log, sax>> /\ todo' = Flushed(program)
    BY <1>5 DEF StartElement, Callback
  <2>2. defs \in Seq(Items)
    BY TagDefs
  <2>3. content \in Contents /\ ~IsContent(content)
    BY DEF Contents, IsContent
  <2>. HIDE DEF content, defs
  <2>4. program = StartAll(tag, defs) /\ StartAll(tag, defs) \in Seq(Instructions)
    BY <2>2, StartPrograms
  <2>. HIDE DEF program
  <2>5. AllSilent(todo')
    BY <2>1, <2>2, <2>4, ElementsSilent, FlushedSilent
  <2>. QED BY <2>1, <2>3, <2>5, OrderQuietly
<1>. QED BY <1>1, <1>2, <1>3, <1>4, <1>5

(* The beginning and the end of a parse *)
LEMMA OrderParse ==
  ASSUME Typed, Ordered, InitContext \/ Return \/ UNCHANGED vars
  PROVE  Ordered'
<1>1. CASE InitContext
  <2>1. /\ status = "idle" /\ log' = <<>> /\ calls' = <<>> /\ todo' = <<>>
        /\ sax' = [stack |-> <<Bottom>>, charbuf |-> <<>>]
    BY <1>1 DEF InitContext, Typed, parser
  <2>2. Delivered' = <<>>
    <3>1. DeliveredBy(<<>>) = <<>>
      BY PlainTyped, EmptySeq, DeliveredSteps DEF Events, PlainKinds
    <3>. QED BY <2>1, <3>1, SeenNext
  <2>3. Content' = <<>>
    <3>1. /\ IsLeftFold(ContentOf(<<>>), Places(<<>>), <<>>, PickedFrom(<<>>), Seq(Nat))
      <4>1. PICK s : s = <<>>
        OBVIOUS
      <4>2. s \in Seq(Contents) /\ Len(s) <= Len(s) /\ \A i \in 1..Len(s) : s[i] = s[i]
        BY <4>1, EmptySeq
      <4>. QED BY ONLY <4>1, <4>2, ContentFold
    <3>2. Places(<<>>) = <<>>
      BY DEF Places
    <3>3. ContentOf(<<>>) = <<>>
      BY <3>1, <3>2, LeftFoldOfEmpty
    <3>. QED BY <2>1, <3>3, SeenNext
  <2>4. AllSilent(todo')
    BY <2>1 DEF AllSilent
  <2>5. sax'.charbuf = <<>> /\ <<>> \o <<>> = <<>>
    BY <2>1, EmptySeq, ConcatEmptySeq
  <2>. QED BY <2>2, <2>3, <2>4, <2>5 DEF Ordered, TextsAgree
<1>2. CASE Return
  BY <1>2 DEF Return, Ordered
<1>3. CASE UNCHANGED vars
  <2>1. Delivered' = Delivered /\ Content' = Content
    BY <1>3, Seen, SeenNext DEF vars, parser
  <2>. QED BY <1>3, <2>1 DEF vars, parser, Ordered
<1>. QED BY <1>1, <1>2, <1>3

(* TextInOrder: joined or not, the texts and comments reach the handler in *)
(* the order of the document, none is dropped and none comes twice.        *)
THEOREM TextAlwaysInOrder == Spec => []TextInOrder
<1>1. Init => Ordered
  BY DEF Init, Ordered
<1>2. Typed /\ Streams /\ Ordered /\ [Next]_vars => Ordered'
  <2>1. Streams => Based
    BY DEF Streams
  <2>. QED BY <2>1, OrderParse, OrderOther, OrderContent, OrderText, OrderExecuted DEF Next
<1>3. Ordered => TextInOrder
  BY BetweenTexts DEF TextInOrder
<1>. QED BY <1>1, <1>2, <1>3, AlwaysAgree, PTL DEF Spec
=============================================================================
