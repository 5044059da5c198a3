---------------------------- MODULE ParserProofs ----------------------------
(***************************************************************************)
(* InputCallbacks keeps the variables of XML::LibXML::InputCallback exact  *)
(* for any number of parsers, callback groups and nested parses, and       *)
(* implements CallbackScopes.                                              *)
(*                                                                         *)
(* The inductive invariant Sound has seven parts: the types (Typed), the   *)
(* depth (DepthExact), the place of each parse's entries in                *)
(* @_CB_NESTED_STACK (Stacked), the values that the outermost parse has    *)
(* saved (Bottom), the use of parsers (BusyExact), whose groups a parse    *)
(* has (Own) and which of them a callback belongs to (Asked).  By Stacked  *)
(* the scope of a parse survives all that happens above it, which is what  *)
(* the lemmas ScopesAfter... say.  There is one step for each kind of      *)
(* action: a parse begins, a callback begins or ends in the running parse, *)
(* a parse ends.                                                           *)
(*                                                                         *)
(* The other half of a parse is ParserGlobals, a specification of its own  *)
(* (XsSpec).  Its loaders and the rest of its state never read one         *)
(* another, so there are two inductive invariants: SoundLoaders, which     *)
(* every operation on the loaders keeps, and SoundCalls, which needs to    *)
(* know of every call under way whether the errors of its input reach its  *)
(* saved_error (Aimed) and did (Recorded), and that no two functions of    *)
(* the push interface share a context (Alone).                             *)
(***************************************************************************)
EXTENDS InputCallbacks, ParserGlobals, SequenceTheorems, TLAPS

-----------------------------------------------------------------------------
(* The inductive invariant *)

Callbacks ==
  {Idle} \cup [do : Dos, group : CallbackGroups \cup {NULL}]

Frames ==
  [parser : Parsers, push : BOOLEAN, levels : {1, 2}, below : Nat, callback : Callbacks,
   inputs : Seq(CallbackGroups \cup {NULL}), opened : Nat]

Serving(s) == IF s = <<>> THEN NULL ELSE Head(s)

SavedScopes ==
  {s \in [cur : CallbackGroups \cup {NULL}, stack : Seq(CallbackGroups),
          globals : Seq(CallbackGroups)] : s.cur = Serving(s.stack)}

Typed ==
  /\ busy \in [Parsers -> BOOLEAN]
  /\ calls \in Seq(Frames)
  /\ parses \in Nat
  /\ Current \in SavedScopes
  /\ depth \in Nat
  /\ nested \in Seq(SavedScopes)
  /\ registered \in BOOLEAN
  /\ \A k \in DOMAIN calls : k < Len(calls) => calls[k].callback.do \in Dos

Nothing == [cur |-> NULL, stack |-> <<>>, globals |-> <<>>]

Bottom == IF calls = <<>> THEN Current = Nothing ELSE nested[1] = Nothing

(* A parse saves above everything that the parses around it have saved. *)
Stacked ==
  \A j, k \in DOMAIN calls : j < k => calls[j].below + calls[j].levels <= calls[k].below

(* Every parse has the groups of its own parser, and asks one of them. *)
Own == \A k \in DOMAIN calls : CallScopes[k].groups = Groups[calls[k].parser]

Asking(frame) ==
  /\ frame.callback.do = "open" => frame.callback.group \in CallbackGroups
  /\ frame.callback.do = "match" =>
       \E i \in DOMAIN Groups[frame.parser] : frame.callback.group = Groups[frame.parser][i]

Asked == \A k \in DOMAIN calls : Asking(calls[k])

Sound == Typed /\ DepthExact /\ Stacked /\ Bottom /\ BusyExact /\ Own /\ Asked

-----------------------------------------------------------------------------
(* Facts about the parses under way *)

(* Depths are natural, and each parse has installed something. *)
LEMMA DepthBounds ==
  ASSUME Typed, DepthExact
  PROVE  /\ Len(nested) = depth
         /\ calls # <<>> => /\ Running \in Frames
                            /\ Len(calls) \in DOMAIN calls
                            /\ Running.below = depth - Running.levels
                            /\ Running.below \in Nat
                            /\ Running.below + 1 \in DOMAIN nested
         /\ \A k \in DOMAIN calls : calls[k] \in Frames
         /\ \A k \in DOMAIN calls : k < Len(calls) => k + 1 \in DOMAIN calls
<1>1. \A k \in DOMAIN calls : calls[k] \in Frames
  BY ElementOfSeq DEF Typed
<1>2. calls # <<>> => Len(calls) \in DOMAIN calls
  BY EmptySeq, LenProperties DEF Typed
<1>3. calls # <<>> => Running \in Frames
  BY <1>1, <1>2 DEF Running
<1>4. ASSUME calls # <<>>
      PROVE  /\ Running.below = depth - Running.levels
             /\ Running.below \in Nat
             /\ Running.below + 1 \in 1..depth
  <2>1. Running.below \in Nat /\ Running.levels \in {1, 2}
    BY <1>3, <1>4 DEF Frames
  <2>2. depth = Running.below + Running.levels
    BY <1>4 DEF DepthExact
  <2>. QED BY <2>1, <2>2
<1>5. Len(nested) = depth /\ DOMAIN nested = 1..depth
  BY LenProperties DEF DepthExact, Typed
<1>6. \A k \in DOMAIN calls : k < Len(calls) => k + 1 \in DOMAIN calls
  BY LenProperties DEF Typed
<1>. QED BY <1>1, <1>2, <1>3, <1>4, <1>5, <1>6

-----------------------------------------------------------------------------
(* The running parse goes on: a callback begins or ends *)

(* The frame of the running parse is replaced by one of the same parse. *)
Replaced(frame) ==
  /\ calls # <<>>
  /\ frame \in Frames
  /\ calls' = [calls EXCEPT ![Len(calls)] = frame]
  /\ frame.parser = Running.parser
  /\ frame.push = Running.push
  /\ frame.levels = Running.levels
  /\ frame.below = Running.below

(* What a step that only replaces the running call leaves as it is *)
LEMMA ReplacedFrame ==
  ASSUME Sound, NEW frame, Replaced(frame)
  PROVE  /\ calls' \in Seq(Frames)
         /\ Len(calls') = Len(calls)
         /\ DOMAIN calls' = DOMAIN calls
         /\ calls' # <<>>
         /\ Running' = frame
         /\ \A k \in DOMAIN calls : k # Len(calls) => calls'[k] = calls[k]
         /\ \A k \in DOMAIN calls : /\ calls'[k].parser = calls[k].parser
                                    /\ calls'[k].push = calls[k].push
                                    /\ calls'[k].levels = calls[k].levels
                                    /\ calls'[k].below = calls[k].below
<1>1. Len(calls) \in DOMAIN calls /\ calls \in Seq(Frames)
  BY DepthBounds DEF Sound, Typed, Replaced
<1>2. /\ calls' \in Seq(Frames)
      /\ Len(calls') = Len(calls)
      /\ DOMAIN calls' = DOMAIN calls
      /\ \A k \in DOMAIN calls : calls'[k] = IF k = Len(calls) THEN frame ELSE calls[k]
  BY <1>1, ExceptSeq, LenProperties DEF Replaced
<1>3. calls' # <<>>
  BY <1>1, <1>2, EmptySeq
<1>4. Running' = frame
  BY <1>1, <1>2 DEF Running
<1>. QED BY <1>1, <1>2, <1>3, <1>4 DEF Replaced, Running

(* What the parses have installed, and who uses which parser, is untouched. *)
LEMMA ReplacedKeeps ==
  ASSUME Sound, NEW frame, Replaced(frame), UNCHANGED <<busy, depth, nested, registered>>
  PROVE  DepthExact' /\ Stacked' /\ Bottom' /\ BusyExact'
<1>. USE ReplacedFrame
<1>1. DepthExact'
  <2>1. calls # <<>> /\ Running'.below = Running.below /\ Running'.levels = Running.levels
    BY DEF Replaced
  <2>2. \A k \in DOMAIN calls : k # 1 => k - 1 \in DOMAIN calls
    BY LenProperties DEF Sound, Typed
  <2>. QED BY <2>1, <2>2 DEF Sound, DepthExact
<1>2. Stacked'
  BY DEF Sound, Stacked
<1>3. Bottom'
  BY DEF Sound, Bottom, Replaced
<1>4. BusyExact'
  BY DEF Sound, BusyExact
<1>. QED BY <1>1, <1>2, <1>3, <1>4

(* The scopes below the running one are as they were. *)
LEMMA ScopesAfterReplaced ==
  ASSUME Sound, NEW frame, Replaced(frame), UNCHANGED nested
  PROVE  CallScopes' = [CallScopes EXCEPT ![Len(CallScopes)] =
                          [groups |-> globals', serving |-> stack']]
<1>. USE ReplacedFrame
<1>1. Len(CallScopes) = Len(calls) /\ DOMAIN CallScopes = DOMAIN calls
  BY LenProperties DEF CallScopes, Sound, Typed
<1>2. \A k \in DOMAIN calls : k # Len(calls) => Scope(k)' = Scope(k)
  <2>. SUFFICES ASSUME NEW k \in DOMAIN calls, k # Len(calls)
                PROVE  Scope(k)' = Scope(k)
    OBVIOUS
  <2>1. k + 1 \in DOMAIN calls
    BY LenProperties DEF Sound, Typed
  <2>. QED BY <2>1 DEF Scope
<1>3. Scope(Len(calls))' = [groups |-> globals', serving |-> stack']
  BY DEF Scope, Current
<1>4. Len(calls) \in DOMAIN calls
  BY DepthBounds DEF Sound, Replaced
<1>. QED BY <1>1, <1>2, <1>3, <1>4 DEF CallScopes

(* Such a step keeps Own and Asked. *)
LEMMA OwnAfterReplaced ==
  ASSUME Sound, NEW frame, Replaced(frame), UNCHANGED <<nested, globals>>, Asking(frame)
  PROVE  Own' /\ Asked'
<1>. USE ReplacedFrame
<1>1. DOMAIN CallScopes = DOMAIN calls /\ Len(CallScopes) = Len(calls)
  BY LenProperties DEF CallScopes, Sound, Typed
<1>2. Len(calls) \in DOMAIN calls
  BY DepthBounds DEF Sound, Replaced
<1>3. CallScopes[Len(calls)].groups = globals
  BY <1>2 DEF CallScopes, Scope, Current
<1>4. \A k \in DOMAIN calls : CallScopes'[k].groups = CallScopes[k].groups
  BY <1>1, <1>2, <1>3, ScopesAfterReplaced
<1>5. Own'
  BY <1>4 DEF Sound, Own
<1>6. Asked'
  <2>1. calls'[Len(calls)] = frame
    BY <1>2 DEF Replaced, Running
  <2>. QED BY <2>1, <1>2 DEF Sound, Asked
<1>. QED BY <1>5, <1>6

-----------------------------------------------------------------------------
(* A parse begins *)

(* What is put after a sequence leaves it in place. *)
LEMMA Extended ==
  ASSUME NEW S, NEW s \in Seq(S), NEW t \in Seq(S), Len(t) >= 1
  PROVE  /\ s \o t \in Seq(S)
         /\ Len(s \o t) = Len(s) + Len(t)
         /\ \A i \in 1..Len(s) : (s \o t)[i] = s[i]
         /\ (s \o t)[Len(s) + 1] = t[1]
<1>1. Len(s) \in Nat /\ Len(t) \in Nat
  BY LenProperties
<1>2. \A i \in 1..Len(s) + Len(t) : (s \o t)[i] = IF i <= Len(s) THEN s[i] ELSE t[i - Len(s)]
  BY ConcatProperties
<1>3. (s \o t)[Len(s) + 1] = t[1]
  BY <1>1, <1>2
<1>4. s \o t \in Seq(S) /\ Len(s \o t) = Len(s) + Len(t)
  BY ConcatProperties
<1>. QED BY <1>1, <1>2, <1>3, <1>4

(* A new call is a call. *)
LEMMA FrameType ==
  ASSUME Typed, NEW p \in Parsers, NEW push \in BOOLEAN, NEW levels \in {1, 2}
  PROVE  Frame(p, push, levels) \in Frames
<1>1. <<>> \in Seq(CallbackGroups \cup {NULL}) /\ Idle \in Callbacks
  BY EmptySeq DEF Callbacks
<1>. QED BY <1>1 DEF Frame, Frames, Typed

(* What Begin does to the calls *)
LEMMA BeginFacts ==
  ASSUME Sound, NEW p \in Parsers, NEW push \in BOOLEAN, NEW levels \in {1, 2},
         Begin(p, push, levels)
  PROVE  /\ calls' \in Seq(Frames)
         /\ Len(calls') = Len(calls) + 1
         /\ DOMAIN calls' = 1..(Len(calls) + 1)
         /\ calls' # <<>>
         /\ calls'[Len(calls) + 1] = Frame(p, push, levels)
         /\ Running' = Frame(p, push, levels)
         /\ \A k \in DOMAIN calls : calls'[k] = calls[k]
         /\ nested' \in Seq(SavedScopes)
         /\ Len(nested') = depth + levels
         /\ \A i \in 1..depth : nested'[i] = nested[i]
         /\ nested'[depth + 1] = Current
<1>1. Frame(p, push, levels) \in Frames
  BY FrameType DEF Sound
<1>2. calls \in Seq(Frames) /\ nested \in Seq(SavedScopes) /\ Len(nested) = depth
      /\ Current \in SavedScopes /\ depth \in Nat
  BY DEF Sound, Typed, DepthExact
<1>3. /\ calls' \in Seq(Frames)
      /\ Len(calls') = Len(calls) + 1
      /\ calls'[Len(calls) + 1] = Frame(p, push, levels)
      /\ \A k \in 1..Len(calls) : calls'[k] = calls[k]
  BY <1>1, <1>2, AppendProperties DEF Begin
<1>4. DOMAIN calls' = 1..(Len(calls) + 1) /\ DOMAIN calls = 1..Len(calls) /\ calls' # <<>>
  BY <1>2, <1>3, LenProperties, EmptySeq
<1>5. Running' = Frame(p, push, levels)
  BY <1>3 DEF Running
<1>6. Fresh(p) \in SavedScopes
  BY EmptySeq, GroupsAssumption DEF Fresh, SavedScopes, Serving
<1>7. /\ nested' \in Seq(SavedScopes)
      /\ Len(nested') = depth + levels
      /\ \A i \in 1..depth : nested'[i] = nested[i]
      /\ nested'[depth + 1] = Current
  <2>1. nested' = nested \o (IF levels = 1 THEN <<Current>> ELSE <<Current, Fresh(p)>>)
    BY DEF Begin, InitCallbacks
  <2>2. CASE levels = 1
    <3>. DEFINE added == <<Current>>
    <3>1. nested' = nested \o added /\ added \in Seq(SavedScopes) /\ Len(added) = 1 /\ added[1] = Current
      BY <1>2, <2>1, <2>2
    <3>. HIDE DEF added
    <3>2. Len(added) >= 1 /\ added \in Seq(SavedScopes)
      BY <3>1
    <3>3. /\ nested \o added \in Seq(SavedScopes)
          /\ Len(nested \o added) = depth + Len(added)
          /\ \A i \in 1..depth : (nested \o added)[i] = nested[i]
          /\ (nested \o added)[depth + 1] = added[1]
      <4>1. nested \in Seq(SavedScopes) /\ added \in Seq(SavedScopes) /\ Len(added) >= 1
        BY <1>2, <3>2
      <4>2. /\ nested \o added \in Seq(SavedScopes)
            /\ Len(nested \o added) = Len(nested) + Len(added)
            /\ \A i \in 1..Len(nested) : (nested \o added)[i] = nested[i]
            /\ (nested \o added)[Len(nested) + 1] = added[1]
        BY ONLY <4>1, Extended
      <4>3. Len(nested) = depth
        BY <1>2
      <4>. QED BY ONLY <4>2, <4>3
    <3>. QED BY <2>2, <3>1, <3>3
  <2>3. CASE levels = 2
    <3>. DEFINE added == <<Current, Fresh(p)>>
    <3>1. nested' = nested \o added /\ added \in Seq(SavedScopes) /\ Len(added) = 2 /\ added[1] = Current
      BY <1>2, <1>6, <2>1, <2>3
    <3>. HIDE DEF added
    <3>2. Len(added) >= 1 /\ added \in Seq(SavedScopes)
      BY <3>1
    <3>3. /\ nested \o added \in Seq(SavedScopes)
          /\ Len(nested \o added) = depth + Len(added)
          /\ \A i \in 1..depth : (nested \o added)[i] = nested[i]
          /\ (nested \o added)[depth + 1] = added[1]
      <4>1. nested \in Seq(SavedScopes) /\ added \in Seq(SavedScopes) /\ Len(added) >= 1
        BY <1>2, <3>2
      <4>2. /\ nested \o added \in Seq(SavedScopes)
            /\ Len(nested \o added) = Len(nested) + Len(added)
            /\ \A i \in 1..Len(nested) : (nested \o added)[i] = nested[i]
            /\ (nested \o added)[Len(nested) + 1] = added[1]
        BY ONLY <4>1, Extended
      <4>3. Len(nested) = depth
        BY <1>2
      <4>. QED BY ONLY <4>2, <4>3
    <3>. QED BY <2>3, <3>1, <3>3
  <2>. QED BY <2>2, <2>3
<1>. QED BY <1>3, <1>4, <1>5, <1>7

(* A parse that has called Perl is in one of its callbacks. *)
LEMMA PerlInCallback ==
  ASSUME Sound, InPerl, calls # <<>>
  PROVE  Running.callback.do \in Dos
<1>1. Running.callback \in Callbacks /\ Running.callback # Idle
  BY DepthBounds DEF Sound, Frames, InPerl
<1>. QED BY <1>1 DEF Callbacks

(* Every parse has saved below the present depth. *)
LEMMA InstalledBelow ==
  ASSUME Sound, NEW j \in DOMAIN calls
  PROVE  calls[j].below + calls[j].levels \in 1..depth
<1>. DEFINE last == Len(calls)
<1>1. /\ last \in DOMAIN calls /\ calls # <<>>
      /\ j \in Nat /\ last \in Nat /\ j <= last
  BY LenProperties, EmptySeq DEF Sound, Typed
<1>2. calls[j] \in Frames /\ calls[last] \in Frames
  BY <1>1, DepthBounds DEF Sound
<1>3. depth = calls[last].below + calls[last].levels
  BY <1>1 DEF Sound, DepthExact, Running
<1>4. /\ calls[j].below \in Nat /\ calls[j].levels \in {1, 2}
      /\ calls[last].below \in Nat /\ calls[last].levels \in {1, 2}
  BY <1>2 DEF Frames
<1>5. CASE j = last
  BY <1>3, <1>4, <1>5
<1>6. CASE j < last
  <2>1. calls[j].below + calls[j].levels <= calls[last].below
    BY <1>1, <1>6 DEF Sound, Stacked
  <2>. QED BY <2>1, <1>3, <1>4
<1>. QED BY <1>1, <1>5, <1>6

(* The new parse saves above the others. *)
LEMMA BeginKeeps ==
  ASSUME Sound, NEW p \in Parsers, NEW push \in BOOLEAN, NEW levels \in {1, 2},
         Begin(p, push, levels), busy' \in [Parsers -> BOOLEAN]
  PROVE  Typed' /\ DepthExact' /\ Stacked' /\ Bottom'
<1>. DEFINE new == Frame(p, push, levels)
<1>1. /\ new.below = depth /\ new.levels = levels /\ new.callback = Idle
      /\ new.parser = p /\ new.push = push
  BY DEF Frame
<1>2. depth \in Nat /\ DOMAIN calls = 1..Len(calls) /\ Len(calls) \in Nat
  BY LenProperties DEF Sound, Typed
<1>3. Typed'
  <2>1. Current' \in SavedScopes
    BY EmptySeq, GroupsAssumption DEF Begin, InitCallbacks, Current, SavedScopes, Serving
  <2>2. parses' \in Nat /\ depth' \in Nat /\ registered' \in BOOLEAN
    BY <1>2 DEF Begin, InitCallbacks, Sound, Typed
  <2>3. \A k \in DOMAIN calls' : k < Len(calls') => calls'[k].callback.do \in Dos
    <3>. SUFFICES ASSUME NEW k \in DOMAIN calls', k < Len(calls')
                  PROVE  calls'[k].callback.do \in Dos
      OBVIOUS
    <3>1. k \in DOMAIN calls /\ calls'[k] = calls[k] /\ k <= Len(calls)
      BY <1>2, BeginFacts
    <3>2. CASE k < Len(calls)
      BY <3>1, <3>2 DEF Sound, Typed
    <3>3. CASE k = Len(calls)
      <4>1. calls # <<>> /\ InPerl
        BY <3>1, EmptySeq DEF Begin
      <4>. QED BY <3>1, <3>3, <4>1, PerlInCallback DEF Running
    <3>. QED BY <3>1, <3>2, <3>3, <1>2
  <2>. QED BY <2>1, <2>2, <2>3, BeginFacts DEF Typed
<1>4. DepthExact'
  <2>1. depth' = depth + levels /\ registered' = TRUE /\ Len(nested') = depth + levels
    BY BeginFacts DEF Begin, InitCallbacks
  <2>2. calls' # <<>> /\ Running'.below = depth /\ Running'.levels = levels
    BY <1>1, BeginFacts
  <2>3. ASSUME NEW k \in DOMAIN calls'
        PROVE  calls'[k].below = IF k = 1 THEN 0 ELSE calls'[k - 1].below + calls'[k - 1].levels
    <3>1. CASE k \in DOMAIN calls
      <4>1. k = 1 \/ k - 1 \in DOMAIN calls
        BY <3>1, <1>2
      <4>2. calls[k].below = IF k = 1 THEN 0 ELSE calls[k - 1].below + calls[k - 1].levels
        BY <3>1 DEF Sound, DepthExact
      <4>. QED BY <3>1, <4>1, <4>2, BeginFacts
    <3>2. CASE k = Len(calls) + 1
      <4>1. calls'[k].below = depth
        BY <3>2, <1>1, BeginFacts
      <4>2. CASE calls = <<>>
        BY <4>1, <4>2, <3>2, EmptySeq DEF Sound, DepthExact
      <4>3. CASE calls # <<>>
        <5>1. Len(calls) \in DOMAIN calls /\ depth = Running.below + Running.levels
          BY <4>3, DepthBounds DEF Sound, DepthExact
        <5>2. k # 1 /\ k - 1 = Len(calls)
          BY <5>1, <3>2, <1>2
        <5>3. calls'[Len(calls)] = Running
          BY <5>1, BeginFacts DEF Running
        <5>. QED BY <4>1, <5>1, <5>2, <5>3
      <4>. QED BY <4>2, <4>3
    <3>. QED BY <3>1, <3>2, <1>2, BeginFacts
  <2>. QED BY <1>2, <2>1, <2>2, <2>3 DEF DepthExact
<1>5. Stacked'
  <2>. SUFFICES ASSUME NEW j \in DOMAIN calls', NEW k \in DOMAIN calls', j < k
                PROVE  calls'[j].below + calls'[j].levels <= calls'[k].below
    BY DEF Stacked
  <2>1. j \in DOMAIN calls /\ calls'[j] = calls[j]
    BY <1>2, BeginFacts
  <2>2. CASE k \in DOMAIN calls
    BY <2>1, <2>2, BeginFacts DEF Sound, Stacked
  <2>3. CASE k = Len(calls) + 1
    <3>1. calls'[k].below = depth
      BY <2>3, <1>1, BeginFacts
    <3>. QED BY <2>1, <3>1, InstalledBelow
  <2>. QED BY <2>2, <2>3, <1>2, BeginFacts
<1>6. Bottom'
  <2>1. CASE calls = <<>>
    <3>1. depth = 0 /\ Current = Nothing
      BY <2>1 DEF Sound, DepthExact, Bottom
    <3>. QED BY <3>1, BeginFacts DEF Bottom
  <2>2. CASE calls # <<>>
    <3>1. 1 \in 1..depth /\ nested[1] = Nothing
      BY <2>2, DepthBounds, LenProperties DEF Sound, Typed, Bottom
    <3>. QED BY <3>1, BeginFacts DEF Bottom
  <2>. QED BY <2>1, <2>2
<1>. QED BY <1>3, <1>4, <1>5, <1>6

(* The scope of the new parse is put on top. *)
LEMMA ScopesAfterBegin ==
  ASSUME Sound, NEW p \in Parsers, NEW push \in BOOLEAN, NEW levels \in {1, 2},
         Begin(p, push, levels)
  PROVE  /\ CallScopes' = Append(CallScopes, Scopes!NewScope(Groups[p]))
         /\ \A k \in DOMAIN calls : CallScopes'[k] = CallScopes[k]
         /\ CallScopes'[Len(calls) + 1].groups = Groups[p]
<1>. DEFINE Top == [groups |-> Groups[p], serving |-> <<>>]
<1>1. DOMAIN calls = 1..Len(calls) /\ Len(calls) \in Nat
  BY LenProperties DEF Sound, Typed
<1>2. \A k \in DOMAIN calls : Scope(k)' = Scope(k)
  <2>. SUFFICES ASSUME NEW k \in DOMAIN calls
                PROVE  Scope(k)' = Scope(k)
    OBVIOUS
  <2>1. CASE k = Len(calls)
    <3>1. Scope(k)' = [groups |-> globals, serving |-> stack]
      <4>1. k # Len(calls') /\ calls'[k + 1].below = depth
        <5>1. k # Len(calls') /\ calls'[k + 1] = Frame(p, push, levels)
          BY <2>1, <1>1, BeginFacts
        <5>. QED BY <5>1 DEF Frame
      <4>2. nested'[calls'[k + 1].below + 1] = Current
        BY <4>1, BeginFacts
      <4>. QED BY <4>1, <4>2 DEF Scope, Current
    <3>. QED BY <2>1, <3>1 DEF Scope, Current
  <2>2. CASE k # Len(calls)
    <3>1. k + 1 \in DOMAIN calls /\ calls'[k + 1] = calls[k + 1]
      BY <2>2, <1>1, BeginFacts
    <3>2. calls[k + 1].below + 1 \in 1..depth
      <4>1. calls[k + 1] \in Frames
        BY <3>1, DepthBounds DEF Sound
      <4>2. calls[k + 1].below \in Nat /\ calls[k + 1].levels \in {1, 2}
        BY <4>1 DEF Frames
      <4>. QED BY <3>1, <4>2, InstalledBelow DEF Sound, Typed
    <3>3. nested'[calls'[k + 1].below + 1] = nested[calls[k + 1].below + 1]
      BY <3>1, <3>2, BeginFacts
    <3>. QED BY <2>2, <1>1, <3>3, BeginFacts DEF Scope
  <2>. QED BY <2>1, <2>2
<1>3. \A k \in Nat : k = Len(calls) + 1 => Scope(k)' = Top
  <2>1. stack' = <<>> /\ globals' = Groups[p] /\ Len(calls') = Len(calls) + 1
    BY BeginFacts DEF Begin, InitCallbacks
  <2>. QED BY <2>1 DEF Scope, Current
<1>4. CallScopes' = [k \in 1..(Len(calls) + 1) |-> IF k = Len(calls) + 1 THEN Top ELSE CallScopes[k]]
  BY <1>1, <1>2, <1>3, BeginFacts DEF CallScopes
<1>5. Len(CallScopes) = Len(calls)
  BY <1>1 DEF CallScopes
<1>6. Append(CallScopes, Top)
        = [k \in 1..(Len(calls) + 1) |-> IF k = Len(calls) + 1 THEN Top ELSE CallScopes[k]]
  BY <1>1, <1>5
<1>7. /\ \A k \in DOMAIN calls : CallScopes'[k] = CallScopes[k]
      /\ CallScopes'[Len(calls) + 1].groups = Groups[p]
  BY <1>1, <1>4
<1>. QED BY <1>4, <1>6, <1>7 DEF Scopes!NewScope

(* Begin keeps Own and Asked. *)
LEMMA OwnAfterBegin ==
  ASSUME Sound, NEW p \in Parsers, NEW push \in BOOLEAN, NEW levels \in {1, 2},
         Begin(p, push, levels)
  PROVE  Own' /\ Asked'
<1>1. DOMAIN calls = 1..Len(calls) /\ Len(calls) \in Nat
  BY LenProperties DEF Sound, Typed
<1>3. /\ \A k \in DOMAIN calls : CallScopes'[k] = CallScopes[k]
      /\ CallScopes'[Len(calls) + 1].groups = Groups[p]
  BY ScopesAfterBegin
<1>4. calls'[Len(calls) + 1].parser = p /\ calls'[Len(calls) + 1].callback.do = "nothing"
  <2>1. calls'[Len(calls) + 1] = Frame(p, push, levels)
    BY BeginFacts
  <2>. QED BY <2>1 DEF Frame, Idle
<1>5. Own'
  BY <1>1, <1>3, <1>4, BeginFacts DEF Sound, Own
<1>6. Asked'
  <2>1. Asking(calls'[Len(calls) + 1])
    BY <1>4 DEF Asking
  <2>. QED BY <1>1, <2>1, BeginFacts DEF Sound, Asked
<1>. QED BY <1>5, <1>6

-----------------------------------------------------------------------------
(* A parse ends *)

(* The beginning of a sequence *)
LEMMA Shortened ==
  ASSUME NEW S, NEW s \in Seq(S), NEW n \in 0..Len(s)
  PROVE  /\ SubSeq(s, 1, n) \in Seq(S)
         /\ Len(SubSeq(s, 1, n)) = n
         /\ \A i \in 1..n : SubSeq(s, 1, n)[i] = s[i]
<1>1. n \in Int /\ 1 \in Int /\ \A i \in 1..n : s[i] \in S
  BY LenProperties, ElementOfSeq
<1>2. /\ SubSeq(s, 1, n) \in Seq(S)
      /\ Len(SubSeq(s, 1, n)) = IF 1 <= n THEN n - 1 + 1 ELSE 0
      /\ \A i \in 1..(n - 1 + 1) : SubSeq(s, 1, n)[i] = s[1 + i - 1]
  BY <1>1, SubSeqProperties
<1>. QED BY <1>1, <1>2, LenProperties

(* What Leave does to the calls *)
LEMMA LeaveFacts ==
  ASSUME Sound, calls # <<>>, Leave
  PROVE  /\ calls' \in Seq(Frames)
         /\ Len(calls') = Len(calls) - 1
         /\ DOMAIN calls' = 1..(Len(calls) - 1)
         /\ Len(calls) \in Nat \ {0}
         /\ \A k \in DOMAIN calls' : k \in DOMAIN calls /\ calls'[k] = calls[k]
         /\ nested' \in Seq(SavedScopes)
         /\ depth' = Running.below
         /\ depth' \in Nat
         /\ Len(nested') = depth'
         /\ \A i \in 1..depth' : nested'[i] = nested[i]
         /\ Current' = nested[depth' + 1]
         /\ Current' \in SavedScopes
         /\ registered' <=> depth' > 0
<1>1. /\ calls \in Seq(Frames) /\ nested \in Seq(SavedScopes)
      /\ Len(calls) \in Nat \ {0} /\ Len(nested) = depth /\ depth \in Nat
  BY LenProperties, EmptySeq DEF Sound, Typed, DepthExact
<1>2. /\ Running.below = depth - Running.levels /\ Running.below \in Nat
      /\ Running.levels \in {1, 2} /\ Running.below + 1 \in DOMAIN nested
  BY DepthBounds DEF Sound, Frames
<1>3. /\ calls' \in Seq(Frames)
      /\ Len(calls') = Len(calls) - 1
      /\ \A k \in 1..(Len(calls) - 1) : calls'[k] = calls[k]
  <2>1. calls' = SubSeq(calls, 1, Len(calls) - 1)
    BY DEF Leave, Front
  <2>2. Len(calls) - 1 \in 0..Len(calls)
    BY <1>1
  <2>. QED BY <1>1, <2>1, <2>2, Shortened
<1>4. DOMAIN calls' = 1..(Len(calls) - 1) /\ DOMAIN calls = 1..Len(calls)
  BY <1>1, <1>3, LenProperties
<1>5. depth' = Running.below
  BY <1>2 DEF Leave, CleanupCallbacks
<1>6. /\ nested' \in Seq(SavedScopes)
      /\ Len(nested') = depth'
      /\ \A i \in 1..depth' : nested'[i] = nested[i]
  <2>1. nested' = SubSeq(nested, 1, depth') /\ depth' \in 0..Len(nested)
    BY <1>1, <1>2, <1>5 DEF Leave, CleanupCallbacks
  <2>. QED BY <1>1, <2>1, Shortened
<1>7. Current' = nested[depth' + 1] /\ Current' \in SavedScopes
  <2>1. nested[depth' + 1] \in SavedScopes
    BY <1>1, <1>2, <1>5, ElementOfSeq, LenProperties
  <2>2. /\ cur' = nested[depth' + 1].cur /\ stack' = nested[depth' + 1].stack
        /\ globals' = nested[depth' + 1].globals
    BY <1>2, <1>5 DEF Leave, CleanupCallbacks
  <2>. QED BY <2>1, <2>2 DEF Current, SavedScopes
<1>8. registered' <=> depth' > 0
  <2>1. registered' = (depth # Running.levels)
    BY DEF Leave, CleanupCallbacks
  <2>2. depth # Running.levels <=> depth' > 0
    BY <1>1, <1>2, <1>5
  <2>. QED BY <2>1, <2>2
<1>9. \A k \in DOMAIN calls' : k \in DOMAIN calls /\ calls'[k] = calls[k]
  BY <1>1, <1>3, <1>4
<1>10. depth' \in Nat
  BY <1>2, <1>5
<1>. QED BY <1>1, <1>3, <1>4, <1>5, <1>6, <1>7, <1>8, <1>9, <1>10

(* The parse around the one that ends finds what it had. *)
LEMMA LeaveKeeps ==
  ASSUME Sound, calls # <<>>, Leave
  PROVE  Typed' /\ DepthExact' /\ Stacked' /\ Bottom' /\ BusyExact'
<1>1. Typed'
  <2>1. busy' \in [Parsers -> BOOLEAN] /\ parses' \in Nat /\ registered' \in BOOLEAN
    BY DEF Leave, CleanupCallbacks, Sound, Typed
  <2>2. \A k \in DOMAIN calls' : k < Len(calls') => calls'[k].callback.do \in Dos
    BY LeaveFacts DEF Sound, Typed
  <2>. QED BY <2>1, <2>2, LeaveFacts DEF Typed
<1>2. DepthExact'
  <2>1. \A k \in DOMAIN calls' : k # 1 => k - 1 \in DOMAIN calls'
    BY LeaveFacts
  <2>2. \A k \in DOMAIN calls' :
          calls'[k].below = IF k = 1 THEN 0 ELSE calls'[k - 1].below + calls'[k - 1].levels
    BY <2>1, LeaveFacts DEF Sound, DepthExact
  <2>3. Len(calls) \in DOMAIN calls
    BY DepthBounds DEF Sound
  <2>4. depth' = IF Len(calls) = 1 THEN 0
                 ELSE calls[Len(calls) - 1].below + calls[Len(calls) - 1].levels
    BY <2>3, LeaveFacts DEF Sound, DepthExact, Running
  <2>5. depth' = IF calls' = <<>> THEN 0 ELSE Running'.below + Running'.levels
    <3>1. CASE Len(calls) = 1
      BY <3>1, <2>4, LeaveFacts, EmptySeq
    <3>2. CASE Len(calls) # 1
      <4>1. Len(calls) - 1 \in DOMAIN calls' /\ calls' # <<>>
        BY <3>2, LeaveFacts, EmptySeq
      <4>. QED BY <3>2, <4>1, <2>4, LeaveFacts DEF Running
    <3>. QED BY <3>1, <3>2
  <2>. QED BY <2>2, <2>5, LeaveFacts DEF DepthExact
<1>3. Stacked'
  BY LeaveFacts DEF Sound, Stacked
<1>4. Bottom'
  <2>1. nested[1] = Nothing
    BY DEF Sound, Bottom
  <2>2. CASE calls' = <<>>
    <3>1. depth' = 0
      BY <1>2, <2>2 DEF DepthExact
    <3>. QED BY <2>1, <2>2, <3>1, LeaveFacts DEF Bottom
  <2>3. CASE calls' # <<>>
    <3>1. Running'.below + Running'.levels = depth' /\ Running' \in Frames
      <4>1. Len(calls') \in DOMAIN calls'
        BY <2>3, LeaveFacts, EmptySeq
      <4>. QED BY <1>2, <2>3, <4>1, LeaveFacts, ElementOfSeq, LenProperties DEF DepthExact, Running
    <3>2. 1 \in 1..depth'
      BY <3>1, LeaveFacts DEF Frames
    <3>. QED BY <2>1, <2>3, <3>2, LeaveFacts DEF Bottom
  <2>. QED BY <2>2, <2>3
<1>5. BusyExact'
  <2>. DEFINE last == Len(calls)
  <2>1. last \in DOMAIN calls /\ DOMAIN calls = 1..last /\ Running = calls[last]
        /\ \A k : k \in DOMAIN calls' <=> k \in DOMAIN calls /\ k # last
    <3>1. last \in DOMAIN calls /\ DOMAIN calls = 1..last /\ Running = calls[last]
      BY DepthBounds, LenProperties DEF Sound, Typed, Running
    <3>2. DOMAIN calls' = 1..(last - 1) /\ last \in Nat \ {0}
      BY LeaveFacts
    <3>. QED BY <3>1, <3>2
  <2>2. \A j, k \in DOMAIN calls' :
          calls'[j].parser = calls'[k].parser /\ calls'[j].push = calls'[k].push => j = k
    BY LeaveFacts DEF Sound, BusyExact
  <2>3. ASSUME NEW p \in Parsers
        PROVE  busy'[p] <=> \E k \in DOMAIN calls' : calls'[k].parser = p /\ ~calls'[k].push
    <3>1. busy[p] <=> \E k \in DOMAIN calls : calls[k].parser = p /\ ~calls[k].push
      BY DEF Sound, BusyExact
    <3>2. CASE Running.push \/ Running.parser # p
      <4>1. busy'[p] = busy[p]
        BY <3>2 DEF Leave, Sound, Typed
      <4>. QED BY <3>1, <3>2, <4>1, <2>1, LeaveFacts
    <3>3. CASE ~Running.push /\ Running.parser = p
      <4>1. ~busy'[p]
        BY <3>3 DEF Leave, Sound, Typed
      <4>2. ASSUME NEW k \in DOMAIN calls', calls'[k].parser = p, ~calls'[k].push
            PROVE  FALSE
        <5>1. k \in DOMAIN calls /\ k # last /\ calls'[k] = calls[k]
          BY <2>1, LeaveFacts
        <5>2. calls[k] \in Frames /\ calls[last] \in Frames
          BY <5>1, <2>1, DepthBounds DEF Sound
        <5>3. calls[k].push = calls[last].push
          BY <5>1, <5>2, <4>2, <3>3, <2>1 DEF Frames
        <5>. QED BY <5>1, <5>3, <4>2, <3>3, <2>1 DEF Sound, BusyExact
      <4>. QED BY <4>1, <4>2
    <3>. QED BY <3>2, <3>3
  <2>. QED BY <2>2, <2>3 DEF BusyExact
<1>. QED BY <1>1, <1>2, <1>3, <1>4, <1>5

(* The top scope is gone, and the one below is in force again. *)
LEMMA ScopesAfterLeave ==
  ASSUME Sound, calls # <<>>, Leave
  PROVE  /\ CallScopes' = SubSeq(CallScopes, 1, Len(CallScopes) - 1)
         /\ \A k \in DOMAIN calls' : CallScopes'[k] = CallScopes[k]
<1>1. DOMAIN calls = 1..Len(calls) /\ Len(calls) \in Nat \ {0}
  BY LeaveFacts, LenProperties DEF Sound, Typed
<1>2. ASSUME NEW k \in DOMAIN calls'
      PROVE  Scope(k)' = Scope(k)
  <2>1. k \in DOMAIN calls /\ k + 1 \in DOMAIN calls /\ k # Len(calls)
    BY <1>1, LeaveFacts
  <2>2. Scope(k) = [groups  |-> nested[calls[k + 1].below + 1].globals,
                    serving |-> nested[calls[k + 1].below + 1].stack]
    BY <2>1 DEF Scope
  <2>3. CASE k = Len(calls')
    <3>1. calls[k + 1].below = depth'
      BY <2>3, LeaveFacts DEF Running
    <3>2. Scope(k)' = [groups |-> Current'.globals, serving |-> Current'.stack]
      BY <2>3 DEF Scope
    <3>. QED BY <2>2, <3>1, <3>2, LeaveFacts
  <2>4. CASE k # Len(calls')
    <3>1. k + 1 \in DOMAIN calls' /\ calls'[k + 1] = calls[k + 1] /\ k + 1 # Len(calls)
      BY <2>4, <1>1, LeaveFacts
    <3>2. calls[k + 1].below + 1 \in 1..depth'
      <4>1. calls[k + 1].below + calls[k + 1].levels <= Running.below
        BY <1>1, <2>1, <3>1 DEF Sound, Stacked, Running
      <4>2. calls[k + 1] \in Frames
        BY <2>1, DepthBounds DEF Sound
      <4>3. calls[k + 1].below \in Nat /\ calls[k + 1].levels \in {1, 2}
        BY <4>2 DEF Frames
      <4>. QED BY <4>1, <4>3, LeaveFacts
    <3>3. nested'[calls'[k + 1].below + 1] = nested[calls[k + 1].below + 1]
      BY <3>1, <3>2, LeaveFacts
    <3>. QED BY <2>2, <2>4, <3>3 DEF Scope
  <2>. QED BY <2>3, <2>4
<1>3. Len(CallScopes) = Len(calls) /\ \A k \in DOMAIN calls : CallScopes[k] = Scope(k)
  BY <1>1 DEF CallScopes
<1>4. CallScopes' = [k \in 1..(Len(calls) - 1) |-> CallScopes[k]]
  BY <1>2, <1>3, LeaveFacts DEF CallScopes
<1>5. SubSeq(CallScopes, 1, Len(CallScopes) - 1) = [k \in 1..(Len(calls) - 1) |-> CallScopes[k]]
  BY <1>1, <1>3
<1>. QED BY <1>4, <1>5, LeaveFacts

(* Leave keeps Own and Asked. *)
LEMMA OwnAfterLeave ==
  ASSUME Sound, calls # <<>>, Leave
  PROVE  Own' /\ Asked'
BY LeaveFacts, ScopesAfterLeave DEF Sound, Own, Asked

-----------------------------------------------------------------------------
(* The actions of the running parse *)

(* The scope of the running parse is in the variables. *)
LEMMA TopScope ==
  ASSUME Sound, calls # <<>>
  PROVE  /\ CallScopes # <<>>
         /\ Len(CallScopes) = Len(calls)
         /\ Len(calls) \in DOMAIN CallScopes
         /\ CallScopes[Len(calls)] = [groups |-> globals, serving |-> stack]
         /\ globals = Groups[Running.parser]
<1>1. Len(calls) \in DOMAIN calls /\ DOMAIN calls = 1..Len(calls) /\ Len(calls) \in Nat
  BY DepthBounds, LenProperties DEF Sound, Typed
<1>2. DOMAIN CallScopes = 1..Len(calls) /\ Len(CallScopes) = Len(calls)
  BY <1>1 DEF CallScopes
<1>3. CallScopes[Len(calls)] = [groups |-> globals, serving |-> stack]
  BY <1>1 DEF CallScopes, Scope, Current
<1>4. globals = Groups[Running.parser]
  BY <1>1, <1>3 DEF Sound, Own, Running
<1>5. CallScopes # <<>>
  BY <1>1, <1>2
<1>. QED BY <1>1, <1>2, <1>3, <1>4, <1>5

(* A step that only replaces the running call keeps the invariant. *)
LEMMA ReplacedSound ==
  ASSUME Sound, NEW frame, Replaced(frame), Asking(frame), Current' \in SavedScopes,
         UNCHANGED <<busy, parses, globals, depth, nested, registered>>
  PROVE  Sound'
<1>1. DepthExact' /\ Stacked' /\ Bottom' /\ BusyExact' /\ Own' /\ Asked'
  BY ReplacedKeeps, OwnAfterReplaced
<1>2. \A k \in DOMAIN calls' : k < Len(calls') => calls'[k].callback.do \in Dos
  BY ReplacedFrame, LenProperties DEF Sound, Typed
<1>3. Typed'
  BY <1>2, ReplacedFrame DEF Sound, Typed
<1>. QED BY <1>1, <1>3 DEF Sound

(* The step of the abstract specification: the stack of the top scope. *)
LEMMA ReplacedScope ==
  ASSUME Sound, NEW frame, Replaced(frame), UNCHANGED <<nested, globals>>
  PROVE  /\ stack' = stack => CallScopes' = CallScopes
         /\ Scopes!OnTop(stack')
<1>1. calls # <<>>
  BY DEF Replaced
<1>2. CallScopes' = [CallScopes EXCEPT ![Len(calls)] = [groups |-> globals, serving |-> stack']]
  BY <1>1, TopScope, ScopesAfterReplaced
<1>3. stack' = stack => CallScopes' = CallScopes
  <2>1. CallScopes = [k \in DOMAIN CallScopes |-> CallScopes[k]]
    BY DEF CallScopes
  <2>. HIDE DEF CallScopes
  <2>2. stack' = stack => CallScopes' = [CallScopes EXCEPT ![Len(calls)] = CallScopes[Len(calls)]]
    BY <1>1, <1>2, TopScope
  <2>. QED BY <2>1, <2>2
<1>4. CallScopes' = [CallScopes EXCEPT ![Len(calls)].serving = stack']
  <2>1. [CallScopes[Len(calls)] EXCEPT !.serving = stack']
          = [groups |-> globals, serving |-> stack']
    <3>1. CallScopes[Len(calls)] = [groups |-> globals, serving |-> stack]
      BY <1>1, TopScope
    <3>. QED BY <3>1
  <2>. QED BY <1>2, <2>1
<1>. QED BY <1>1, <1>3, <1>4, TopScope DEF Scopes!OnTop

(* The kinds of new frames: a callback begins or ends, an input is opened  *)
(* or closed.                                                              *)
LEMMA CallbackBegins ==
  ASSUME Sound, calls # <<>>, NEW do \in Dos, NEW group \in CallbackGroups \cup {NULL},
         Enter(do, group),
         do = "open" => group \in CallbackGroups,
         do = "match" => \E i \in DOMAIN globals : group = globals[i]
  PROVE  \E frame : Replaced(frame) /\ Asking(frame)
<1>. DEFINE frame == [Running EXCEPT !.callback = [do |-> do, group |-> group]]
<1>1. Running \in Frames /\ globals = Groups[Running.parser]
  BY DepthBounds, TopScope DEF Sound
<1>2. [do |-> do, group |-> group] \in Callbacks
  BY DEF Callbacks
<1>3. Replaced(frame)
  BY <1>1, <1>2 DEF Replaced, Enter, SetRunning, Frames
<1>4. Asking(frame)
  BY <1>1 DEF Asking, Frames
<1>. QED BY <1>3, <1>4

(* The end of a callback replaces the running call. *)
LEMMA CallbackEnded ==
  ASSUME Sound, calls # <<>>, NEW frame, SetRunning(frame),
         NEW inputs \in Seq(CallbackGroups \cup {NULL}), NEW opened \in Nat,
         frame = [Running EXCEPT !.callback = Idle, !.inputs = inputs, !.opened = opened]
  PROVE  Replaced(frame) /\ Asking(frame)
<1>1. Running \in Frames
  BY DepthBounds DEF Sound
<1>2. Idle \in Callbacks /\ Idle.do = "nothing"
  BY DEF Callbacks, Idle
<1>3. frame.callback = Idle
  BY <1>1 DEF Frames
<1>4. Asking(frame)
  BY <1>2, <1>3 DEF Asking
<1>5. Replaced(frame)
  BY <1>1, <1>2 DEF Replaced, SetRunning, Frames
<1>. QED BY <1>4, <1>5

(* The inputs of the running parse, with one more and with one less *)
LEMMA InputsOfRunning ==
  ASSUME Sound, calls # <<>>
  PROVE  /\ Running \in Frames
         /\ Running.inputs \in Seq(CallbackGroups \cup {NULL})
         /\ Running.opened \in Nat /\ Running.opened + 1 \in Nat
         /\ \A g \in CallbackGroups \cup {NULL} :
              Append(Running.inputs, g) \in Seq(CallbackGroups \cup {NULL})
         /\ Front(Running.inputs) \in Seq(CallbackGroups \cup {NULL})
<1>1. Running \in Frames
  BY DepthBounds DEF Sound
<1>2. Running.inputs \in Seq(CallbackGroups \cup {NULL}) /\ Running.opened \in Nat
  BY <1>1 DEF Frames
<1>3. \A g \in CallbackGroups \cup {NULL} :
        Append(Running.inputs, g) \in Seq(CallbackGroups \cup {NULL})
  BY <1>2, AppendProperties
<1>4. Front(Running.inputs) \in Seq(CallbackGroups \cup {NULL})
  <2>1. CASE Running.inputs = <<>>
    <3>1. Len(Running.inputs) - 1 \in Int /\ Len(Running.inputs) - 1 < 1
      BY <2>1, EmptySeq
    <3>2. Front(Running.inputs) = <<>>
      BY <3>1, SubSeqEmpty DEF Front
    <3>. QED BY <3>2, EmptySeq
  <2>2. CASE Running.inputs # <<>>
    <3>1. Len(Running.inputs) - 1 \in 0..Len(Running.inputs)
      BY <1>2, <2>2, EmptySeq, LenProperties
    <3>. QED BY <1>2, <3>1, Shortened DEF Front
  <2>. QED BY <2>1, <2>2
<1>. QED BY <1>1, <1>2, <1>3, <1>4

(* What an action of the running parse does: it replaces its frame and may *)
(* put a group of the parser on the stack or take the first one off.       *)
Goes ==
  /\ UNCHANGED <<busy, parses, globals, depth, nested, registered>>
  /\ Current' \in SavedScopes
  /\ \E frame : Replaced(frame) /\ Asking(frame)
  /\ \/ stack' = stack
     \/ \E i \in DOMAIN globals : stack' = <<globals[i]>> \o stack
     \/ stack # <<>> /\ stack' = Tail(stack)

(* The start of a callback keeps the invariant. *)
LEMMA CallbackStarts ==
  ASSUME Sound, calls # <<>>, NEW do \in Dos \ {"match", "open"}, Enter(do, cur) \/ Enter(do, NULL),
         UNCHANGED <<busy, parses, perl>>
  PROVE  Goes
<1>1. cur \in CallbackGroups \cup {NULL} /\ Current \in SavedScopes /\ Current' = Current
  BY DEF Sound, Typed, Current, SavedScopes, perl
<1>2. \E frame : Replaced(frame) /\ Asking(frame)
  BY <1>1, CallbackBegins
<1>. QED BY <1>1, <1>2 DEF Goes, perl

(* So does a change of the inputs. *)
LEMMA InputsChange ==
  ASSUME Sound, calls # <<>>, NEW inputs \in Seq(CallbackGroups \cup {NULL}), NEW opened \in Nat,
         SetRunning([Running EXCEPT !.callback = Idle, !.inputs = inputs, !.opened = opened]),
         UNCHANGED <<busy, parses, globals, depth, nested, registered>>,
         UNCHANGED <<cur, stack>> \/ ShiftStack
  PROVE  Goes
<1>1. \E frame : Replaced(frame) /\ Asking(frame)
  BY CallbackEnded
<1>2. CASE UNCHANGED <<cur, stack>>
  <2>1. Current' \in SavedScopes
    BY <1>2 DEF Sound, Typed, Current
  <2>. QED BY <1>1, <1>2, <2>1 DEF Goes
<1>3. CASE ShiftStack
  <2>1. stack \in Seq(CallbackGroups) /\ globals \in Seq(CallbackGroups)
    BY DEF Sound, Typed, Current, SavedScopes
  <2>2. stack' \in Seq(CallbackGroups) /\ cur' = Serving(stack')
    BY <1>3, <2>1, EmptySeq, HeadTailProperties DEF ShiftStack, Serving
  <2>3. cur' \in CallbackGroups \cup {NULL}
    BY <2>2, HeadTailProperties DEF Serving
  <2>4. Current' \in SavedScopes
    BY <2>1, <2>2, <2>3 DEF Current, SavedScopes
  <2>5. stack' = stack \/ (stack # <<>> /\ stack' = Tail(stack))
    BY <1>3 DEF ShiftStack
  <2>. QED BY <1>1, <2>4, <2>5 DEF Goes
<1>. QED BY <1>2, <1>3

(* The callback that runs returns, and the inputs are as they were. *)
LEMMA Continued ==
  ASSUME Sound, calls # <<>>, Continue, UNCHANGED <<busy, parses, perl>>
  PROVE  Goes
<1>1. Running \in Frames /\ Running.inputs \in Seq(CallbackGroups \cup {NULL})
      /\ Running.opened \in Nat
  BY InputsOfRunning
<1>2. [Running EXCEPT !.callback = Idle]
        = [Running EXCEPT !.callback = Idle, !.inputs = Running.inputs, !.opened = Running.opened]
  BY <1>1 DEF Frames
<1>3. SetRunning([Running EXCEPT !.callback = Idle, !.inputs = Running.inputs,
                                 !.opened = Running.opened])
  BY <1>2 DEF Continue
<1>. QED BY <1>1, <1>3, InputsChange DEF perl

(* The steps of each kind of callback *)
LEMMA GoesMatch ==
  ASSUME Sound, Match
  PROVE  Goes
<1>1. PICK i \in DOMAIN globals : Enter("match", globals[i])
  BY DEF Match
<1>2. calls # <<>> /\ UNCHANGED <<busy, parses, perl>>
  BY DEF Match, InLibxml
<1>3. Current \in SavedScopes /\ globals[i] \in CallbackGroups
  BY ElementOfSeq DEF Sound, Typed, Current, SavedScopes
<1>4. \E frame : Replaced(frame) /\ Asking(frame)
  BY <1>1, <1>2, <1>3, CallbackBegins DEF Dos
<1>. QED BY <1>2, <1>3, <1>4 DEF Goes, perl, Current

(* The return of match *)
LEMMA GoesMatched ==
  ASSUME Sound, Matched
  PROVE  Goes
<1>. DEFINE group == Running.callback.group
<1>1. calls # <<>> /\ cur' = group /\ stack' = <<group>> \o stack /\ Enter("open", group)
      /\ UNCHANGED <<busy, parses, globals, depth, nested, registered>>
  BY DEF Matched, InCallback
<1>2. stack \in Seq(CallbackGroups) /\ globals \in Seq(CallbackGroups)
  BY DEF Sound, Typed, Current, SavedScopes
<1>3. PICK i \in DOMAIN globals : group = globals[i]
  <2>1. Asking(Running) /\ globals = Groups[Running.parser]
    BY <1>1, DepthBounds, TopScope DEF Sound, Asked, Running
  <2>. QED BY <2>1 DEF Asking, Matched, InCallback
<1>4. group \in CallbackGroups
  BY <1>2, <1>3, ElementOfSeq
<1>5. <<group>> \in Seq(CallbackGroups) /\ Len(<<group>>) = 1 /\ <<group>>[1] = group
  BY <1>4
<1>6. /\ stack' \in Seq(CallbackGroups) /\ Len(stack') >= 1
      /\ stack'[1] = group
  BY <1>1, <1>2, <1>5, ConcatProperties, LenProperties
<1>7. Serving(stack') = group
  <2>1. stack' # <<>> /\ Head(stack') = stack'[1]
    BY <1>6, EmptySeq, HeadTailProperties
  <2>. QED BY <2>1, <1>6 DEF Serving
<1>8. Current' \in SavedScopes
  BY <1>1, <1>2, <1>4, <1>6, <1>7 DEF Current, SavedScopes
<1>9. \E frame : Replaced(frame) /\ Asking(frame)
  BY <1>1, <1>4, CallbackBegins DEF Dos
<1>. QED BY <1>1, <1>3, <1>8, <1>9 DEF Goes

(* The return of open *)
LEMMA GoesOpened ==
  ASSUME Sound, OpenSucceeds \/ OpenRefused
  PROVE  Goes
<1>1. calls # <<>>
  BY DEF OpenSucceeds, OpenRefused, InCallback
<1>2. CASE OpenSucceeds
  <2>1. Running.callback.group \in CallbackGroups
    BY <1>1, <1>2, DepthBounds DEF Sound, Asked, Asking, Running, OpenSucceeds, InCallback
  <2>2. SetRunning([Running EXCEPT !.callback = Idle,
                                   !.inputs = Append(Running.inputs, Running.callback.group),
                                   !.opened = Running.opened + 1])
    BY <1>2 DEF OpenSucceeds, Opened
  <2>3. UNCHANGED <<busy, parses, globals, depth, nested, registered>> /\ UNCHANGED <<cur, stack>>
    BY <1>2 DEF OpenSucceeds, perl
  <2>. QED BY <1>1, <2>1, <2>2, <2>3, InputsOfRunning, InputsChange
<1>3. CASE OpenRefused
  <2>1. SetRunning([Running EXCEPT !.callback = Idle, !.inputs = Append(Running.inputs, NULL),
                                   !.opened = Running.opened + 1])
    BY <1>3 DEF OpenRefused, Opened
  <2>2. UNCHANGED <<busy, parses, globals, depth, nested, registered>> /\ ShiftStack
    BY <1>3 DEF OpenRefused, ShiftStack
  <2>. QED BY <1>1, <2>1, <2>2, InputsOfRunning, InputsChange
<1>. QED BY <1>2, <1>3

(* A read, or another handler, and its return *)
LEMMA GoesReadHandler ==
  ASSUME Sound, Read \/ ReadReturns \/ Handler \/ HandlerReturns
  PROVE  Goes
<1>1. CASE Read \/ Handler
  <2>1. calls # <<>> /\ UNCHANGED <<busy, parses, perl>>
    BY <1>1 DEF Read, Handler, InLibxml
  <2>2. Enter("read", cur) \/ Enter("handler", NULL)
    BY <1>1 DEF Read, Handler
  <2>. QED BY <2>1, <2>2, CallbackStarts DEF Dos
<1>2. CASE ReadReturns \/ HandlerReturns
  <2>1. calls # <<>> /\ Continue /\ UNCHANGED <<busy, parses, perl>>
    BY <1>2 DEF ReadReturns, HandlerReturns, InCallback
  <2>. QED BY <2>1, Continued
<1>. QED BY <1>1, <1>2

(* A close and its return *)
LEMMA GoesClose ==
  ASSUME Sound, Close \/ CloseReturns
  PROVE  Goes
<1>1. CASE Close /\ cur = NULL
  <2>1. /\ calls # <<>> /\ Running.inputs # <<>> /\ Running.callback = Idle
        /\ UNCHANGED <<busy, parses, perl>>
        /\ SetRunning([Running EXCEPT !.inputs = Front(Running.inputs)])
    BY <1>1 DEF Close, InLibxml
  <2>2. [Running EXCEPT !.inputs = Front(Running.inputs)]
          = [Running EXCEPT !.callback = Idle, !.inputs = Front(Running.inputs),
                            !.opened = Running.opened]
    BY <2>1, InputsOfRunning DEF Frames
  <2>3. SetRunning([Running EXCEPT !.callback = Idle, !.inputs = Front(Running.inputs),
                                   !.opened = Running.opened])
    BY <2>1, <2>2
  <2>. QED BY <2>1, <2>3, InputsOfRunning, InputsChange DEF perl
<1>2. CASE Close /\ cur # NULL
  <2>1. calls # <<>> /\ UNCHANGED <<busy, parses, perl>> /\ Enter("close", cur)
    BY <1>2 DEF Close, InLibxml
  <2>. QED BY <2>1, CallbackStarts DEF Dos
<1>3. CASE CloseReturns
  <2>1. /\ calls # <<>> /\ Running.callback.do = "close"
        /\ UNCHANGED <<busy, parses, globals, depth, nested, registered>>
        /\ ShiftStack
    BY <1>3 DEF CloseReturns, InCallback, ShiftStack
  <2>2. [Running EXCEPT !.callback = Idle, !.inputs = Front(Running.inputs)]
          = [Running EXCEPT !.callback = Idle, !.inputs = Front(Running.inputs),
                            !.opened = Running.opened]
    BY <2>1, InputsOfRunning DEF Frames
  <2>3. SetRunning([Running EXCEPT !.callback = Idle, !.inputs = Front(Running.inputs),
                                   !.opened = Running.opened])
    BY <1>3, <2>2 DEF CloseReturns
  <2>. QED BY <2>1, <2>3, InputsOfRunning, InputsChange
<1>. QED BY <1>1, <1>2, <1>3

-----------------------------------------------------------------------------
(* Sound is inductive *)

(* The invariant at the start *)
LEMMA InitSound ==
  ASSUME Init
  PROVE  Sound
<1>1. calls = <<>> /\ nested = <<>> /\ stack = <<>> /\ globals = <<>> /\ cur = NULL /\ depth = 0
  BY DEF Init
<1>2. Current \in SavedScopes
  BY <1>1, EmptySeq DEF Current, SavedScopes, Serving
<1>3. DOMAIN calls = {} /\ Len(nested) = 0
  BY <1>1, EmptySeq
<1>4. Typed
  <2>1. busy \in [Parsers -> BOOLEAN] /\ registered \in BOOLEAN
    BY DEF Init
  <2>2. calls \in Seq(Frames) /\ nested \in Seq(SavedScopes)
    BY <1>1, EmptySeq
  <2>3. parses \in Nat /\ depth \in Nat
    BY DEF Init
  <2>. QED BY <1>2, <1>3, <2>1, <2>2, <2>3 DEF Typed
<1>5. DepthExact
  BY <1>1, <1>3 DEF DepthExact, Init
<1>6. Bottom
  BY <1>1 DEF Bottom, Nothing, Current
<1>7. BusyExact
  BY <1>3 DEF BusyExact, Init
<1>8. Stacked /\ Own /\ Asked
  BY <1>3 DEF Stacked, Own, Asked
<1>. QED BY <1>4, <1>5, <1>6, <1>7, <1>8 DEF Sound

(* Who is busy when a parse of p begins *)
LEMMA BeginBusy ==
  ASSUME Sound, NEW p \in Parsers, NEW push \in BOOLEAN, NEW levels \in {1, 2},
         Begin(p, push, levels),
         \A k \in DOMAIN calls : calls[k].push = push => calls[k].parser # p,
         busy' = IF push THEN busy ELSE [busy EXCEPT ![p] = TRUE]
  PROVE  BusyExact'
<1>. DEFINE new == Len(calls) + 1
<1>1. /\ \A k : k \in DOMAIN calls' <=> k \in DOMAIN calls \/ k = new
      /\ \A k \in DOMAIN calls : k # new /\ calls'[k] = calls[k]
  BY BeginFacts, LenProperties DEF Sound, Typed
<1>2. calls'[new].parser = p /\ calls'[new].push = push
  <2>1. calls'[new] = Frame(p, push, levels)
    BY BeginFacts
  <2>. QED BY <2>1 DEF Frame
<1>3. \A j, k \in DOMAIN calls' :
        calls'[j].parser = calls'[k].parser /\ calls'[j].push = calls'[k].push => j = k
  <2>. SUFFICES ASSUME NEW j \in DOMAIN calls', NEW k \in DOMAIN calls',
                       calls'[j].parser = calls'[k].parser, calls'[j].push = calls'[k].push
                PROVE  j = k
    OBVIOUS
  <2>1. CASE j \in DOMAIN calls /\ k \in DOMAIN calls
    BY <1>1, <2>1 DEF Sound, BusyExact
  <2>2. CASE j = new \/ k = new
    BY <1>1, <1>2, <2>2
  <2>. QED BY <1>1, <2>1, <2>2
<1>4. ASSUME NEW q \in Parsers
      PROVE  busy'[q] <=> \E k \in DOMAIN calls' : calls'[k].parser = q /\ ~calls'[k].push
  <2>1. busy[q] <=> \E k \in DOMAIN calls : calls[k].parser = q /\ ~calls[k].push
    BY DEF Sound, BusyExact
  <2>2. CASE ~push /\ q = p
    <3>1. busy'[q]
      BY <2>2 DEF Sound, Typed
    <3>. QED BY <3>1, <2>2, <1>1, <1>2
  <2>3. CASE push \/ q # p
    <3>1. busy'[q] = busy[q]
      BY <2>3 DEF Sound, Typed
    <3>. QED BY <3>1, <2>1, <2>3, <1>1, <1>2
  <2>. QED BY <2>2, <2>3
<1>. QED BY <1>3, <1>4 DEF BusyExact

(* The three ways in which a parse begins *)
Starts(p) == Parse(p) \/ ParseBalancedChunk(p) \/ Push(p)

(* A parse begins with a call for a parser that is in none of its kind. *)
LEMMA StartsBegin ==
  ASSUME Sound, NEW p \in Parsers, Starts(p)
  PROVE  \E push \in BOOLEAN, levels \in {1, 2} :
           /\ Begin(p, push, levels)
           /\ \A k \in DOMAIN calls : calls[k].push = push => calls[k].parser # p
           /\ busy' = IF push THEN busy ELSE [busy EXCEPT ![p] = TRUE]
<1>1. CASE Push(p)
  BY <1>1 DEF Push
<1>2. CASE Parse(p) \/ ParseBalancedChunk(p)
  <2>1. ~busy[p] /\ busy' = [busy EXCEPT ![p] = TRUE]
        /\ \E levels \in {1, 2} : Begin(p, FALSE, levels)
    BY <1>2 DEF Parse, ParseBalancedChunk
  <2>2. \A k \in DOMAIN calls : calls[k].push = FALSE => calls[k].parser # p
    BY <2>1 DEF Sound, BusyExact
  <2>. QED BY <2>1, <2>2
<1>. QED BY <1>1, <1>2 DEF Starts

(* Every step is of one of three kinds. *)
LEMMA KindsOfSteps ==
  ASSUME Sound, Next
  PROVE  (\E p \in Parsers : Starts(p)) \/ Goes \/ (calls # <<>> /\ Leave)
<1>1. CASE Return \/ Die
  BY <1>1 DEF Return, Die, InLibxml
<1>2. CASE Match \/ Matched \/ OpenSucceeds \/ OpenRefused
  BY <1>2, GoesMatch, GoesMatched, GoesOpened
<1>3. CASE Read \/ ReadReturns \/ Handler \/ HandlerReturns \/ Close \/ CloseReturns
  BY <1>3, GoesReadHandler, GoesClose
<1>4. CASE \E p \in Parsers : Parse(p) \/ ParseBalancedChunk(p) \/ Push(p)
  BY <1>4 DEF Starts
<1>. QED BY <1>1, <1>2, <1>3, <1>4 DEF Next, CallbackEnds

(* The invariant after any step *)
LEMMA StepSound ==
  ASSUME Sound, [Next]_vars
  PROVE  Sound'
<1>1. ASSUME NEW p \in Parsers, Starts(p)
      PROVE  Sound'
  <2>1. PICK push \in BOOLEAN, levels \in {1, 2} :
          /\ Begin(p, push, levels)
          /\ \A k \in DOMAIN calls : calls[k].push = push => calls[k].parser # p
          /\ busy' = IF push THEN busy ELSE [busy EXCEPT ![p] = TRUE]
    BY <1>1, StartsBegin
  <2>2. busy' \in [Parsers -> BOOLEAN]
    BY <2>1 DEF Sound, Typed
  <2>. QED BY <2>1, <2>2, BeginKeeps, OwnAfterBegin, BeginBusy DEF Sound
<1>2. CASE Goes
  BY <1>2, ReplacedSound DEF Goes
<1>3. CASE calls # <<>> /\ Leave
  BY <1>3, LeaveKeeps, OwnAfterLeave DEF Sound
<1>4. CASE UNCHANGED vars
  BY <1>4 DEF vars, perl, Sound, Typed, DepthExact, Stacked, Bottom, BusyExact, Own, Asked,
              Current, CallScopes, Scope, Running, InCallback
<1>. QED BY <1>1, <1>2, <1>3, <1>4, KindsOfSteps

-----------------------------------------------------------------------------
(* The theorems *)

(* Sound holds in every state, whatever is parsed inside what and dies     *)
(* where (_init_callbacks, _cleanup_callbacks and the evals around the     *)
(* parse functions of LibXML.pm).                                          *)
THEOREM AlwaysSound == Spec => []Sound
BY InitSound, StepSound, PTL DEF Spec

(* It has the types. *)
LEMMA SoundTypes ==
  ASSUME Sound
  PROVE  TypeOK
<1>1. ASSUME NEW k \in DOMAIN calls
      PROVE  /\ calls[k].parser \in Parsers
             /\ calls[k].levels \in {1, 2}
             /\ k < Len(calls) => calls[k].callback.do \in Dos
             /\ Range(calls[k].inputs) \subseteq CallbackGroups \cup {NULL}
  <2>1. calls[k] \in Frames
    BY DepthBounds DEF Sound
  <2>2. calls[k].inputs \in Seq(CallbackGroups \cup {NULL})
    BY <2>1 DEF Frames
  <2>3. Range(calls[k].inputs) \subseteq CallbackGroups \cup {NULL}
    BY <2>2, RangeOfSeq
  <2>. QED BY <2>1, <2>3 DEF Frames, Sound, Typed
<1>2. /\ cur \in CallbackGroups \cup {NULL} /\ cur = Serving(stack)
      /\ stack \in Seq(CallbackGroups) /\ globals \in Seq(CallbackGroups)
  BY DEF Sound, Typed, Current, SavedScopes
<1>3. Range(stack) \subseteq CallbackGroups /\ Range(globals) \subseteq CallbackGroups
  BY <1>2, RangeOfSeq
<1>. QED BY <1>1, <1>2, <1>3 DEF TypeOK, Serving, Sound, Typed

(* The package variables hold groups of callbacks, $_CUR_CB is the first   *)
(* of @_CB_STACK, and only the innermost parse has no callback running.    *)
THEOREM TypesCorrect == Spec => []TypeOK
<1>1. Sound => TypeOK
  BY SoundTypes
<1>. QED BY <1>1, AlwaysSound, PTL

(* The depth of the callbacks and the registration with libxml2 are those  *)
(* of the parses under way (init_callbacks and cleanup_callbacks).         *)
THEOREM DepthAlwaysExact == Spec => []DepthExact
<1>1. Sound => DepthExact
  BY DEF Sound
<1>. QED BY <1>1, AlwaysSound, PTL

(* A parser is busy exactly while one parse function of it runs            *)
(* (_State_ of LibXML.pm).                                                 *)
THEOREM BusyAlwaysExact == Spec => []BusyExact
<1>1. Sound => BusyExact
  BY DEF Sound
<1>. QED BY <1>1, AlwaysSound, PTL

(* No callback of an earlier parse is left when none is under way          *)
(* (cleanup_callbacks).                                                    *)
THEOREM NothingEverLeft == Spec => []NothingLeft
<1>1. Sound => NothingLeft
  BY DEF Sound, Bottom, Nothing, Current, NothingLeft
<1>. QED BY <1>1, AlwaysSound, PTL

-----------------------------------------------------------------------------
(* The refinement *)

(* The scopes at the start *)
LEMMA InitSimulates ==
  ASSUME Init
  PROVE  Scopes!Init
<1>1. calls = <<>>
  BY DEF Init
<1>. QED BY <1>1 DEF Scopes!Init, CallScopes

(* Each step does to the scopes what their specification allows. *)
LEMMA StepSimulates ==
  ASSUME Sound, [Next]_vars
  PROVE  [Scopes!Next]_CallScopes
<1>1. ASSUME NEW p \in Parsers, Starts(p)
      PROVE  Scopes!Enter
  <2>1. PICK push \in BOOLEAN, levels \in {1, 2} : Begin(p, push, levels)
    BY <1>1, StartsBegin
  <2>. QED BY <2>1, ScopesAfterBegin DEF Scopes!Enter
<1>2. CASE Goes
  <2>1. PICK frame : Replaced(frame)
    BY <1>2 DEF Goes
  <2>2. /\ stack' = stack => CallScopes' = CallScopes
        /\ Scopes!OnTop(stack')
    BY <1>2, <2>1, ReplacedScope DEF Goes
  <2>3. CallScopes # <<>> /\ Scopes!Top = [groups |-> globals, serving |-> stack]
    BY <2>1, TopScope DEF Scopes!Top, Replaced
  <2>4. CASE stack' = stack
    BY <2>2, <2>4
  <2>5. ASSUME NEW i \in DOMAIN globals, stack' = <<globals[i]>> \o stack
        PROVE  Scopes!Serve
    BY <2>2, <2>3, <2>5 DEF Scopes!Serve
  <2>6. CASE stack # <<>> /\ stack' = Tail(stack)
    BY <2>2, <2>3, <2>6 DEF Scopes!Release, Scopes!Next
  <2>. QED BY <1>2, <2>3, <2>4, <2>5, <2>6 DEF Goes, Scopes!Next
<1>3. CASE calls # <<>> /\ Leave
  BY <1>3, ScopesAfterLeave, TopScope DEF Scopes!Leave, Scopes!Next
<1>4. CASE UNCHANGED vars
  BY <1>4 DEF vars, perl, CallScopes, Scope, Current
<1>. QED BY <1>1, <1>2, <1>3, <1>4, KindsOfSteps DEF Scopes!Next

(* XML::LibXML::InputCallback gives every parse callbacks of its own: its  *)
(* package variables implement a stack of scopes.                          *)
THEOREM ScopesImplemented == Spec => ImplementsScopes
<1>1. Init => Scopes!Init
  BY InitSimulates
<1>2. Sound /\ [Next]_vars => [Scopes!Next]_CallScopes
  BY StepSimulates
<1>. QED BY <1>1, <1>2, AlwaysSound, PTL DEF Spec, ImplementsScopes, Scopes!Spec

-----------------------------------------------------------------------------
(* The groups that serve the inputs *)

(* What a parse and the groups on its stack have to do with each other: a  *)
(* refused input is alone and cannot be read, and what is read or closed   *)
(* goes to the group that opened the innermost input.                      *)
Serves(f, serving) ==
  /\ f.inputs = <<NULL>> \/ f.inputs \in Seq(CallbackGroups)
  /\ f.callback.do \in {"match", "open"} => f.inputs # <<NULL>>
  /\ f.callback.do \in {"read", "close"} =>
       /\ f.inputs \in Seq(CallbackGroups) \ {<<>>}
       /\ f.callback.group = Last(f.inputs)
  /\ serving = Openers(f)

Served == \A k \in DOMAIN calls : Serves(calls[k], CallScopes[k].serving)

(* A reversed sequence, its first element and what follows it *)
LEMMA Reversed ==
  ASSUME NEW S, NEW s \in Seq(S)
  PROVE  /\ Reverse(s) \in Seq(S)
         /\ s = <<>> => Reverse(s) = <<>>
         /\ s # <<>> => /\ Reverse(s) # <<>>
                        /\ Head(Reverse(s)) = Last(s)
                        /\ Tail(Reverse(s)) = Reverse(Front(s))
         /\ \A x \in S : Reverse(Append(s, x)) = <<x>> \o Reverse(s)
<1>1. Len(s) \in Nat /\ DOMAIN s = 1..Len(s) /\ \A i \in 1..Len(s) : s[i] \in S
  BY LenProperties, ElementOfSeq
<1>2. Reverse(s) = [i \in 1..Len(s) |-> s[(Len(s) - i) + 1]]
  BY DEF Reverse
<1>3. Reverse(s) \in Seq(S) /\ Len(Reverse(s)) = Len(s)
  BY <1>1, <1>2
<1>4. s = <<>> => Reverse(s) = <<>>
  BY <1>3, EmptySeq
<1>5. ASSUME s # <<>>
      PROVE  /\ Reverse(s) # <<>>
             /\ Head(Reverse(s)) = Last(s)
             /\ Tail(Reverse(s)) = Reverse(Front(s))
  <2>1. Len(s) \in Nat \ {0}
    BY <1>1, <1>5, EmptySeq
  <2>2. Reverse(s) # <<>>
    BY <1>3, <2>1, EmptySeq
  <2>3. Head(Reverse(s)) = Last(s)
    BY <1>1, <1>2, <1>3, <2>1, <2>2, HeadTailProperties DEF Last
  <2>4. /\ Front(s) \in Seq(S) /\ Len(Front(s)) = Len(s) - 1
        /\ \A i \in 1..(Len(s) - 1) : Front(s)[i] = s[i]
    BY <2>1, <1>1, Shortened DEF Front
  <2>5. Reverse(Front(s)) = [i \in 1..(Len(s) - 1) |-> Front(s)[(Len(s) - 1 - i) + 1]]
    BY <2>4 DEF Reverse
  <2>6. /\ Tail(Reverse(s)) \in Seq(S) /\ Len(Tail(Reverse(s))) = Len(s) - 1
        /\ \A i \in 1..(Len(s) - 1) : Tail(Reverse(s))[i] = Reverse(s)[i + 1]
    BY <1>3, <2>1, <2>2, HeadTailProperties
  <2>7. \A i \in 1..(Len(s) - 1) : Tail(Reverse(s))[i] = Reverse(Front(s))[i]
    <3>. SUFFICES ASSUME NEW i \in 1..(Len(s) - 1)
                  PROVE  Tail(Reverse(s))[i] = Reverse(Front(s))[i]
      OBVIOUS
    <3>1. Reverse(s)[i + 1] = s[(Len(s) - (i + 1)) + 1]
      BY <1>2, <2>1
    <3>2. Reverse(Front(s))[i] = s[(Len(s) - 1 - i) + 1]
      BY <2>4, <2>5, <2>1
    <3>3. (Len(s) - (i + 1)) + 1 = (Len(s) - 1 - i) + 1
      BY <2>1
    <3>. QED BY <3>1, <3>2, <3>3, <2>6
  <2>8. Reverse(Front(s)) \in Seq(S) /\ Len(Reverse(Front(s))) = Len(s) - 1
    <3>1. \A i \in 1..(Len(s) - 1) : Front(s)[(Len(s) - 1 - i) + 1] \in S
      BY <1>1, <2>1, <2>4
    <3>. QED BY <3>1, <2>1, <2>5
  <2>. QED BY <2>2, <2>3, <2>6, <2>7, <2>8, SeqEqual
<1>6. ASSUME NEW x \in S
      PROVE  Reverse(Append(s, x)) = <<x>> \o Reverse(s)
  <2>1. /\ Append(s, x) \in Seq(S) /\ Len(Append(s, x)) = Len(s) + 1
        /\ \A i \in 1..Len(s) : Append(s, x)[i] = s[i]
        /\ Append(s, x)[Len(s) + 1] = x
    BY <1>1, AppendProperties
  <2>2. Reverse(Append(s, x)) = [i \in 1..(Len(s) + 1) |-> Append(s, x)[(Len(s) + 1 - i) + 1]]
    BY <2>1 DEF Reverse
  <2>3. Reverse(Append(s, x)) \in Seq(S) /\ Len(Reverse(Append(s, x))) = Len(s) + 1
    <3>1. \A i \in 1..(Len(s) + 1) : Append(s, x)[(Len(s) + 1 - i) + 1] \in S
      BY <1>1, <2>1
    <3>. QED BY <3>1, <1>1, <2>2
  <2>4. <<x>> \in Seq(S) /\ Len(<<x>>) = 1 /\ <<x>>[1] = x
    OBVIOUS
  <2>5. /\ <<x>> \o Reverse(s) \in Seq(S) /\ Len(<<x>> \o Reverse(s)) = Len(s) + 1
        /\ \A i \in 1..(Len(s) + 1) :
             (<<x>> \o Reverse(s))[i] = IF i <= 1 THEN x ELSE Reverse(s)[i - 1]
    BY <1>1, <1>3, <2>4, ConcatProperties
  <2>6. \A i \in 1..(Len(s) + 1) : Reverse(Append(s, x))[i] = (<<x>> \o Reverse(s))[i]
    <3>. SUFFICES ASSUME NEW i \in 1..(Len(s) + 1)
                  PROVE  Reverse(Append(s, x))[i] = (<<x>> \o Reverse(s))[i]
      OBVIOUS
    <3>1. Reverse(Append(s, x))[i] = Append(s, x)[(Len(s) + 1 - i) + 1]
      BY <2>2
    <3>2. CASE i = 1
      BY <3>1, <3>2, <1>1, <2>1, <2>5
    <3>3. CASE i # 1
      <4>1. i - 1 \in 1..Len(s) /\ (Len(s) + 1 - i) + 1 \in 1..Len(s)
            /\ (Len(s) - (i - 1)) + 1 = (Len(s) + 1 - i) + 1
        BY <3>3, <1>1
      <4>2. Reverse(s)[i - 1] = s[(Len(s) + 1 - i) + 1]
        BY <4>1, <1>2
      <4>. QED BY <3>1, <3>3, <4>1, <4>2, <1>1, <2>1, <2>5
    <3>. QED BY <3>2, <3>3
  <2>. QED BY <2>3, <2>5, <2>6, SeqEqual
<1>. QED BY <1>3, <1>4, <1>5, <1>6

(* A stack of callback groups is not the one that refuses. *)
LEMMA NotRefused ==
  ASSUME NEW s \in Seq(CallbackGroups)
  PROVE  s # <<NULL>>
<1>1. Len(<<NULL>>) = 1 /\ <<NULL>>[1] = NULL
  OBVIOUS
<1>2. \A i \in 1..Len(s) : s[i] \in CallbackGroups
  BY ElementOfSeq
<1>. QED BY <1>1, <1>2, NullAssumption

(* The reverse of an empty stack *)
LEMMA EmptyReversed == Reverse(<<>>) = <<>>
<1>1. <<>> \in Seq({})
  BY EmptySeq
<1>. QED BY <1>1, Reversed

(* The running parse has the frame that an action gives it. *)
LEMMA RunningSet ==
  ASSUME Sound, calls # <<>>, NEW frame, SetRunning(frame)
  PROVE  Running' = frame
<1>1. Len(calls) \in DOMAIN calls
  BY DepthBounds DEF Sound
<1>2. Len(calls') = Len(calls)
  BY <1>1, LenProperties DEF SetRunning, Sound, Typed
<1>. QED BY <1>1, <1>2 DEF Running, SetRunning

(* What serves the running parse before a step *)
LEMMA ServedRunning ==
  ASSUME Sound, Served, calls # <<>>
  PROVE  Serves(Running, stack) /\ Running \in Frames
<1>1. Len(calls) \in DOMAIN calls
  BY DepthBounds DEF Sound
<1>2. CallScopes[Len(calls)] = [groups |-> globals, serving |-> stack]
  BY TopScope
<1>. QED BY <1>1, <1>2, DepthBounds DEF Sound, Served, Running

(* It is enough that the running parse is served after the step. *)
LEMMA GoesServed ==
  ASSUME Sound, Served, Goes, Serves(Running', stack')
  PROVE  Served'
<1>1. PICK frame : Replaced(frame)
  BY DEF Goes
<1>2. calls # <<>>
  BY <1>1 DEF Replaced
<1>3. CallScopes' = [CallScopes EXCEPT ![Len(calls)] = [groups |-> globals, serving |-> stack']]
  BY <1>1, <1>2, TopScope, ScopesAfterReplaced DEF Goes
<1>4. DOMAIN CallScopes = DOMAIN calls
  BY DEF CallScopes
<1>. SUFFICES ASSUME NEW k \in DOMAIN calls'
              PROVE  Serves(calls'[k], CallScopes'[k].serving)
  BY DEF Served
<1>5. k \in DOMAIN calls /\ Len(calls') = Len(calls)
  BY <1>1, ReplacedFrame
<1>6. CASE k = Len(calls)
  <2>1. CallScopes'[k].serving = stack'
    BY <1>3, <1>4, <1>5, <1>6
  <2>2. calls'[k] = Running'
    BY <1>5, <1>6 DEF Running
  <2>. QED BY <2>1, <2>2
<1>7. CASE k # Len(calls)
  <2>1. CallScopes'[k] = CallScopes[k]
    BY <1>3, <1>4, <1>5, <1>7
  <2>2. calls'[k] = calls[k]
    BY <1>1, <1>5, <1>7, ReplacedFrame
  <2>. QED BY <1>5, <2>1, <2>2 DEF Served
<1>. QED BY <1>6, <1>7

(* A callback that is not "open" begins or ends, and no input changes. *)
LEMMA SameInputs ==
  ASSUME NEW f \in Frames, NEW serving, Serves(f, serving), f.callback.do # "open",
         NEW callback \in Callbacks, callback.do # "open",
         callback.do = "match" => f.inputs # <<NULL>>,
         callback.do \in {"read", "close"} =>
           f.inputs \in Seq(CallbackGroups) \ {<<>>} /\ callback.group = Last(f.inputs)
  PROVE  Serves([f EXCEPT !.callback = callback], serving)
<1>. DEFINE g == [f EXCEPT !.callback = callback]
<1>1. g.callback = callback /\ g.inputs = f.inputs
  BY DEF Frames
<1>2. Openers(g) = Openers(f)
  BY <1>1 DEF Openers
<1>. HIDE DEF g
<1>3. Serves(g, serving)
  BY <1>1, <1>2 DEF Serves
<1>. QED BY <1>3 DEF g

(* A match asks the first groups of the stack. *)
LEMMA MatchServed ==
  ASSUME Sound, Served, Match
  PROVE  Serves(Running', stack')
<1>1. PICK i \in DOMAIN globals : Enter("match", globals[i])
  BY DEF Match
<1>2. calls # <<>> /\ Running.callback = Idle /\ stack' = stack
  BY DEF Match, InLibxml, perl
<1>3. globals \in Seq(CallbackGroups) /\ globals[i] \in CallbackGroups
  BY ElementOfSeq DEF Sound, Typed, Current, SavedScopes
<1>4. Running.inputs # <<NULL>>
  <2>1. Last(<<NULL>>) = NULL /\ <<NULL>> # <<>>
    BY DEF Last
  <2>. QED BY <2>1 DEF Match
<1>5. [do |-> "match", group |-> globals[i]] \in Callbacks
  BY <1>3 DEF Callbacks, Dos
<1>6. Running' = [Running EXCEPT !.callback = [do |-> "match", group |-> globals[i]]]
  BY <1>1, <1>2, RunningSet DEF Enter
<1>7. Idle.do = "nothing"
  BY DEF Idle
<1>. QED BY <1>2, <1>4, <1>5, <1>6, <1>7, ServedRunning, SameInputs

(* The group that is asked to open goes on the stack. *)
LEMMA MatchedServed ==
  ASSUME Sound, Served, Matched
  PROVE  Serves(Running', stack')
<1>. DEFINE group == Running.callback.group
<1>1. calls # <<>> /\ Running.callback.do = "match" /\ stack' = <<group>> \o stack
      /\ Enter("open", group)
  BY DEF Matched, InCallback
<1>2. Running' = [Running EXCEPT !.callback = [do |-> "open", group |-> group]]
  BY <1>1, RunningSet DEF Enter
<1>3. Serves(Running, stack) /\ Running \in Frames
  BY <1>1, ServedRunning
<1>4. Running'.callback = [do |-> "open", group |-> group] /\ Running'.inputs = Running.inputs
  BY <1>2, <1>3 DEF Frames
<1>5. Running.inputs \in Seq(CallbackGroups) /\ Running.inputs # <<NULL>>
  BY <1>1, <1>3 DEF Serves
<1>6. stack = Reverse(Running.inputs)
  <2>1. stack = <<>> \o Reverse(Running.inputs)
    BY <1>1, <1>3, <1>5 DEF Serves, Openers
  <2>2. Reverse(Running.inputs) \in Seq(CallbackGroups)
    BY <1>5, Reversed
  <2>. QED BY <2>1, <2>2, ConcatEmptySeq
<1>7. Openers(Running') = <<group>> \o Reverse(Running.inputs)
  BY <1>4, <1>5 DEF Openers
<1>. QED BY <1>1, <1>4, <1>5, <1>6, <1>7 DEF Serves

(* The input is open and its group stays, or it is refused and it goes. *)
LEMMA OpenedServed ==
  ASSUME Sound, Served, OpenSucceeds \/ OpenRefused, ~RefuseInside
  PROVE  Serves(Running', stack')
<1>. DEFINE group == Running.callback.group
            ins   == Running.inputs
<1>1. calls # <<>> /\ Running.callback.do = "open"
  BY DEF OpenSucceeds, OpenRefused, InCallback
<1>2. Serves(Running, stack) /\ Running \in Frames
  BY <1>1, ServedRunning
<1>3. ins \in Seq(CallbackGroups) /\ ins # <<NULL>> /\ stack = <<group>> \o Reverse(ins)
  BY <1>1, <1>2 DEF Serves, Openers
<1>4. group \in CallbackGroups
  BY <1>1, DepthBounds DEF Sound, Asked, Asking, Running
<1>5. ASSUME NEW g, Opened(g)
      PROVE  Running'.callback = Idle /\ Running'.inputs = Append(ins, g)
  <2>1. Running' = [Running EXCEPT !.callback = Idle, !.inputs = Append(ins, g),
                                   !.opened = Running.opened + 1]
    BY <1>1, <1>5, RunningSet DEF Opened
  <2>. QED BY <2>1, <1>2 DEF Frames
<1>6. Idle.do = "nothing"
  BY DEF Idle
<1>7. CASE OpenSucceeds
  <2>1. Running'.callback = Idle /\ Running'.inputs = Append(ins, group) /\ stack' = stack
    BY <1>5, <1>7 DEF OpenSucceeds, perl
  <2>2. Append(ins, group) \in Seq(CallbackGroups)
    BY <1>3, <1>4, AppendProperties
  <2>3. Append(ins, group) # <<NULL>>
    BY <2>2, NotRefused
  <2>4. stack = Reverse(Append(ins, group))
    BY <1>3, <1>4, Reversed
  <2>5. Openers(Running') = <<>> \o Reverse(Append(ins, group))
    BY <1>6, <2>1, <2>3 DEF Openers
  <2>6. Reverse(Append(ins, group)) \in Seq(CallbackGroups)
    BY <2>2, Reversed
  <2>7. stack' = Openers(Running')
    BY <2>1, <2>4, <2>5, <2>6, ConcatEmptySeq
  <2>. QED BY <1>6, <2>1, <2>2, <2>7 DEF Serves
<1>8. CASE OpenRefused
  <2>1. ins = <<>> /\ Opened(NULL) /\ ShiftStack
    BY <1>8 DEF OpenRefused
  <2>2. Append(ins, NULL) = <<NULL>>
    BY <2>1
  <2>3. Running'.callback = Idle /\ Running'.inputs = <<NULL>>
    BY <1>5, <2>1, <2>2
  <2>4. stack = <<group>>
    <3>1. Reverse(ins) = <<>> /\ <<group>> \in Seq(CallbackGroups)
      BY <1>4, <2>1, EmptyReversed
    <3>. QED BY <1>3, <3>1, ConcatEmptySeq
  <2>5. stack' = <<>>
    <3>1. stack # <<>> /\ Tail(stack) = <<>>
      BY <2>4
    <3>. QED BY <2>1, <3>1 DEF ShiftStack
  <2>6. Openers(Running') = <<>>
    <3>1. Openers(Running') = <<>> \o Reverse(<<>>)
      BY <1>6, <2>3 DEF Openers
    <3>2. <<>> \o <<>> = <<>>
      BY EmptySeq, ConcatEmptySeq
    <3>. QED BY <3>1, <3>2, EmptyReversed
  <2>. QED BY <1>6, <2>3, <2>5, <2>6 DEF Serves
<1>. QED BY <1>7, <1>8

(* When an input is being read its group is on top. *)
LEMMA OnTop ==
  ASSUME Sound, Served, calls # <<>>, Running.callback.do # "open"
  PROVE  /\ cur # NULL => /\ Running.inputs \in Seq(CallbackGroups) \ {<<>>}
                          /\ cur = Last(Running.inputs)
         /\ Running.inputs \in Seq(CallbackGroups) \ {<<>>} =>
              stack = Reverse(Running.inputs) /\ cur # NULL
<1>. DEFINE ins == Running.inputs
<1>1. Serves(Running, stack)
  BY ServedRunning
<1>2. stack = IF ins = <<NULL>> THEN <<>> ELSE Reverse(ins)
  <2>1. CASE ins = <<NULL>>
    <3>1. stack = <<>> \o Reverse(<<>>)
      BY <1>1, <2>1 DEF Serves, Openers
    <3>2. <<>> \o <<>> = <<>>
      BY EmptySeq, ConcatEmptySeq
    <3>. QED BY <2>1, <3>1, <3>2, EmptyReversed
  <2>2. CASE ins # <<NULL>>
    <3>1. stack = <<>> \o Reverse(ins) /\ ins \in Seq(CallbackGroups)
      BY <1>1, <2>2 DEF Serves, Openers
    <3>2. Reverse(ins) \in Seq(CallbackGroups)
      BY <3>1, Reversed
    <3>. QED BY <2>2, <3>1, <3>2, ConcatEmptySeq
  <2>. QED BY <2>1, <2>2
<1>3. cur = (IF stack = <<>> THEN NULL ELSE Head(stack)) /\ stack \in Seq(CallbackGroups)
  BY DEF Sound, Typed, Current, SavedScopes, Serving
<1>4. cur # NULL => ins \in Seq(CallbackGroups) \ {<<>>} /\ cur = Last(ins)
  <2>. SUFFICES ASSUME cur # NULL
                PROVE  ins \in Seq(CallbackGroups) \ {<<>>} /\ cur = Last(ins)
    OBVIOUS
  <2>1. ins # <<NULL>> /\ ins \in Seq(CallbackGroups) /\ stack = Reverse(ins)
    BY <1>1, <1>2, <1>3 DEF Serves
  <2>2. stack # <<>> /\ cur = Head(stack)
    BY <1>3
  <2>3. ins # <<>>
    BY <2>1, <2>2, EmptyReversed
  <2>. QED BY <2>1, <2>2, <2>3, Reversed
<1>5. ins \in Seq(CallbackGroups) \ {<<>>} => stack = Reverse(ins) /\ cur # NULL
  <2>. SUFFICES ASSUME ins \in Seq(CallbackGroups) \ {<<>>}
                PROVE  stack = Reverse(ins) /\ cur # NULL
    OBVIOUS
  <2>1. ins # <<NULL>>
    BY NotRefused
  <2>2. stack = Reverse(ins) /\ stack # <<>>
    BY <1>2, <2>1, Reversed
  <2>3. Head(stack) \in CallbackGroups
    BY <1>3, <2>2, HeadTailProperties
  <2>. QED BY <1>3, <2>2, <2>3, NullAssumption
<1>. QED BY <1>4, <1>5

(* Other callbacks leave what serves the inputs. *)
LEMMA ReadServed ==
  ASSUME Sound, Served, Read \/ ReadReturns \/ Handler \/ HandlerReturns \/ (Close /\ cur # NULL)
  PROVE  Serves(Running', stack')
<1>1. calls # <<>> /\ stack' = stack /\ Running.callback.do # "open"
  BY DEF Read, ReadReturns, Handler, HandlerReturns, Close, InLibxml, InCallback, Idle, perl
<1>2. Serves(Running, stack) /\ Running \in Frames
  BY <1>1, ServedRunning
<1>3. Idle \in Callbacks /\ Idle.do = "nothing"
  BY DEF Callbacks, Idle
<1>4. CASE ReadReturns \/ HandlerReturns
  <2>1. Running' = [Running EXCEPT !.callback = Idle]
    BY <1>1, <1>4, RunningSet DEF ReadReturns, HandlerReturns, Continue
  <2>. QED BY <1>1, <1>2, <1>3, <2>1, SameInputs
<1>5. CASE Handler
  <2>1. Running' = [Running EXCEPT !.callback = [do |-> "handler", group |-> NULL]]
    BY <1>1, <1>5, RunningSet DEF Handler, Enter
  <2>2. [do |-> "handler", group |-> NULL] \in Callbacks
    BY DEF Callbacks, Dos
  <2>. QED BY <1>1, <1>2, <2>1, <2>2, SameInputs
<1>6. ASSUME NEW do \in {"read", "close"}, cur # NULL, Enter(do, cur)
      PROVE  Serves(Running', stack')
  <2>1. Running' = [Running EXCEPT !.callback = [do |-> do, group |-> cur]]
    BY <1>1, <1>6, RunningSet DEF Enter
  <2>2. cur \in CallbackGroups \cup {NULL}
    BY DEF Sound, Typed, Current, SavedScopes
  <2>3. [do |-> do, group |-> cur] \in Callbacks
    BY <2>2 DEF Callbacks, Dos
  <2>4. Running.inputs \in Seq(CallbackGroups) \ {<<>>} /\ cur = Last(Running.inputs)
    BY <1>1, <1>6, OnTop
  <2>. QED BY <1>1, <1>2, <2>1, <2>3, <2>4, SameInputs
<1>. QED BY <1>4, <1>5, <1>6 DEF Read, Close

(* The group of the closed input leaves the stack. *)
LEMMA CloseServed ==
  ASSUME Sound, Served, (Close /\ cur = NULL) \/ CloseReturns
  PROVE  Serves(Running', stack')
<1>. DEFINE ins == Running.inputs
<1>1. calls # <<>> /\ Running.callback.do # "open"
  BY DEF Close, CloseReturns, InLibxml, InCallback, Idle
<1>2. Serves(Running, stack) /\ Running \in Frames
  BY <1>1, ServedRunning
<1>3. Idle.do = "nothing"
  BY DEF Idle
<1>4. CASE Close /\ cur = NULL
  <2>1. /\ Running.callback = Idle /\ ins # <<>> /\ stack' = stack
        /\ SetRunning([Running EXCEPT !.inputs = Front(ins)])
    BY <1>4 DEF Close, InLibxml, perl
  <2>2. Running'.inputs = Front(ins) /\ Running'.callback = Idle
    BY <1>1, <1>2, <2>1, RunningSet DEF Frames
  <2>3. ins = <<NULL>>
    BY <1>1, <1>2, <1>4, <2>1, OnTop DEF Serves
  <2>4. Front(ins) = <<>>
    <3>1. Front(<<NULL>>) = SubSeq(<<NULL>>, 1, 0)
      BY DEF Front
    <3>2. SubSeq(<<NULL>>, 1, 0) = <<>>
      BY SubSeqEmpty
    <3>. QED BY <2>3, <3>1, <3>2
  <2>5. stack = <<>>
    <3>1. cur = (IF stack = <<>> THEN NULL ELSE Head(stack)) /\ stack \in Seq(CallbackGroups)
      BY DEF Sound, Typed, Current, SavedScopes, Serving
    <3>. QED BY <1>4, <3>1, HeadTailProperties, NullAssumption
  <2>6. Openers(Running') = <<>>
    <3>1. <<>> # <<NULL>>
      OBVIOUS
    <3>2. Openers(Running') = <<>> \o Reverse(<<>>)
      BY <1>3, <2>2, <2>4, <3>1 DEF Openers
    <3>3. <<>> \o <<>> = <<>>
      BY EmptySeq, ConcatEmptySeq
    <3>. QED BY <3>2, <3>3, EmptyReversed
  <2>7. Running'.inputs \in Seq(CallbackGroups)
    BY <2>2, <2>4, EmptySeq
  <2>. QED BY <1>3, <2>1, <2>2, <2>5, <2>6, <2>7 DEF Serves
<1>5. CASE CloseReturns
  <2>1. /\ Running.callback.do = "close" /\ ShiftStack
        /\ SetRunning([Running EXCEPT !.callback = Idle, !.inputs = Front(ins)])
    BY <1>5 DEF CloseReturns, InCallback
  <2>2. Running'.inputs = Front(ins) /\ Running'.callback = Idle
    BY <1>1, <1>2, <2>1, RunningSet DEF Frames
  <2>3. ins \in Seq(CallbackGroups) \ {<<>>}
    BY <1>2, <2>1 DEF Serves
  <2>4. stack = Reverse(ins)
    BY <1>1, <2>3, OnTop
  <2>5. stack' = Reverse(Front(ins))
    <3>1. stack # <<>> /\ Tail(stack) = Reverse(Front(ins))
      BY <2>3, <2>4, Reversed
    <3>. QED BY <2>1, <3>1 DEF ShiftStack
  <2>6. Front(ins) \in Seq(CallbackGroups)
    <3>1. Len(ins) - 1 \in 0..Len(ins)
      BY <2>3, EmptySeq, LenProperties
    <3>. QED BY <2>3, <3>1, Shortened DEF Front
  <2>7. Front(ins) # <<NULL>>
    BY <2>6, NotRefused
  <2>8. Openers(Running') = <<>> \o Reverse(Front(ins))
    BY <1>3, <2>2, <2>7 DEF Openers
  <2>9. stack' = Openers(Running')
    BY <2>5, <2>6, <2>8, Reversed, ConcatEmptySeq
  <2>. QED BY <1>3, <2>2, <2>6, <2>9 DEF Serves
<1>. QED BY <1>4, <1>5

(* A new call is served. *)
LEMMA BeginServed ==
  ASSUME Sound, Served, NEW p \in Parsers, NEW push \in BOOLEAN, NEW levels \in {1, 2},
         Begin(p, push, levels)
  PROVE  Served'
<1>. DEFINE new == Len(calls) + 1
<1>1. /\ \A k \in DOMAIN calls : CallScopes'[k] = CallScopes[k] /\ calls'[k] = calls[k]
      /\ calls'[new] = Frame(p, push, levels)
      /\ \A k \in DOMAIN calls' : k \in DOMAIN calls \/ k = new
  BY ScopesAfterBegin, BeginFacts, LenProperties DEF Sound, Typed
<1>2. CallScopes'[new].serving = <<>>
  <2>. SUFFICES ASSUME NEW k, k = new
                PROVE  CallScopes'[k].serving = <<>>
    OBVIOUS
  <2>1. Len(calls') = k /\ k \in DOMAIN calls'
    BY BeginFacts, LenProperties DEF Sound, Typed
  <2>2. CallScopes'[k] = Scope(k)'
    BY <2>1 DEF CallScopes
  <2>3. stack' = <<>>
    BY DEF Begin, InitCallbacks
  <2>4. Scope(k)' = [groups |-> globals', serving |-> stack']
    BY <2>1 DEF Scope, Current
  <2>. QED BY <2>2, <2>3, <2>4
<1>3. Serves(Frame(p, push, levels), <<>>)
  <2>. DEFINE f == Frame(p, push, levels)
  <2>1. f.inputs = <<>> /\ f.callback.do = "nothing"
    BY DEF Frame, Idle
  <2>2. Openers(f) = <<>> \o Reverse(<<>>)
    <3>1. <<>> # <<NULL>>
      OBVIOUS
    <3>. QED BY <2>1, <3>1 DEF Openers
  <2>3. <<>> \o <<>> = <<>> /\ <<>> \in Seq(CallbackGroups)
    BY EmptySeq, ConcatEmptySeq
  <2>. QED BY <2>1, <2>2, <2>3, EmptyReversed DEF Serves
<1>. QED BY <1>1, <1>2, <1>3 DEF Served

(* Any step keeps the calls served. *)
LEMMA StepServed ==
  ASSUME Sound, Served, ~RefuseInside, [Next]_vars
  PROVE  Served'
<1>1. ASSUME NEW p \in Parsers, Parse(p) \/ ParseBalancedChunk(p) \/ Push(p)
      PROVE  Served'
  <2>1. PICK push \in BOOLEAN, levels \in {1, 2} : Begin(p, push, levels)
    BY <1>1, StartsBegin DEF Starts
  <2>. QED BY <2>1, BeginServed
<1>2. CASE Match
  BY <1>2, GoesMatch, MatchServed, GoesServed
<1>3. CASE Matched
  BY <1>3, GoesMatched, MatchedServed, GoesServed
<1>4. CASE OpenSucceeds \/ OpenRefused
  BY <1>4, GoesOpened, OpenedServed, GoesServed
<1>5. CASE Read \/ ReadReturns \/ Handler \/ HandlerReturns
  BY <1>5, GoesReadHandler, ReadServed, GoesServed
<1>6. CASE Close \/ CloseReturns
  BY <1>6, GoesClose, ReadServed, CloseServed, GoesServed
<1>7. CASE Return \/ Die
  <2>1. calls # <<>> /\ Leave
    BY <1>7 DEF Return, Die, InLibxml
  <2>. QED BY <2>1, LeaveFacts, ScopesAfterLeave DEF Served
<1>8. CASE UNCHANGED vars
  BY <1>8 DEF vars, perl, Served, CallScopes, Scope, Current
<1>. QED BY <1>1, <1>2, <1>3, <1>4, <1>5, <1>6, <1>7, <1>8 DEF Next, CallbackEnds

(* Every parse is served by the groups that opened its inputs, as long as  *)
(* no open callback refuses an URI while an input is open                  *)
(* (_callback_open, _callback_close).                                      *)
THEOREM AlwaysServed ==
  ASSUME ~RefuseInside
  PROVE  Spec => []Served
<1>1. Init => Served
  <2>1. Init => DOMAIN calls = {}
    BY EmptySeq DEF Init
  <2>. QED BY <2>1 DEF Served
<1>2. Sound /\ Served /\ [Next]_vars => Served'
  BY StepServed
<1>. QED BY <1>1, <1>2, AlwaysSound, PTL DEF Spec

(* Every parse has the callbacks of its own parser, and exactly the groups *)
(* that opened its open inputs (@_GLOBAL_CALLBACKS, @_CB_STACK).           *)
THEOREM ScopesAlwaysExact ==
  ASSUME ~RefuseInside
  PROVE  Spec => []ScopesExact
<1>1. Sound /\ Served => ScopesExact
  <2>. SUFFICES ASSUME Sound, Served, NEW k \in DOMAIN calls
                PROVE  Scope(k) = [groups |-> Groups[calls[k].parser], serving |-> Openers(calls[k])]
    BY DEF ScopesExact
  <2>1. CallScopes[k] = Scope(k)
    BY DEF CallScopes
  <2>2. CallScopes[k].groups = Groups[calls[k].parser] /\ CallScopes[k].serving = Openers(calls[k])
    BY DEF Sound, Own, Served, Serves
  <2>. QED BY <2>1, <2>2 DEF Scope
<1>. QED BY <1>1, AlwaysSound, AlwaysServed, PTL

(* The data of an input are read through the group that opened it: what    *)
(* the other run refutes needs an URI refused while an input is open.      *)
THEOREM AlwaysReadByOpener ==
  ASSUME ~RefuseInside
  PROVE  Spec => []ReadByOpener
<1>1. Sound /\ Served => ReadByOpener
  BY ServedRunning DEF ReadByOpener, Serves
<1>. QED BY <1>1, AlwaysSound, AlwaysServed, PTL

-----------------------------------------------------------------------------
(* The loaders of ParserGlobals *)

SoundLoaders ==
  /\ loader \in Loaders
  /\ {oldLoader, oldGlobal} \subseteq Loaders \cup {NULL}
  /\ func \in BOOLEAN
  /\ func <=> oldGlobal # NULL
  /\ GlobalLoaderStays

(* LibXML_init_parser keeps the invariant of the loaders. *)
LEMMA InitLoaderKeeps ==
  ASSUME SoundLoaders, NEW p \in Parsers, InitLoader(p)
  PROVE  SoundLoaders'
<1>1. CASE ~func /\ p \in Handling \cup NoNet
  BY <1>1 DEF SoundLoaders, InitLoader, Loaders, GlobalLoaderStays
<1>2. CASE ~(~func /\ p \in Handling \cup NoNet)
  BY <1>2 DEF SoundLoaders, InitLoader, loaders, GlobalLoaderStays
<1>. QED BY <1>1, <1>2

(* So does LibXML_cleanup_parser. *)
LEMMA CleanupLoaderKeeps ==
  ASSUME SoundLoaders, CleanupLoader
  PROVE  SoundLoaders'
<1>1. CASE ~func /\ oldLoader # NULL
  BY <1>1 DEF SoundLoaders, CleanupLoader, GlobalLoaderStays
<1>2. CASE ~(~func /\ oldLoader # NULL)
  BY <1>2 DEF SoundLoaders, CleanupLoader, loaders, GlobalLoaderStays
<1>. QED BY <1>1, <1>2

(* The loaders after a step that leaves them *)
LEMMA LoadersKept ==
  ASSUME SoundLoaders, UNCHANGED loaders
  PROVE  SoundLoaders'
BY DEF SoundLoaders, loaders, GlobalLoaderStays

(* The loaders after any step *)
LEMMA LoadersStep ==
  ASSUME SoundLoaders, [XsNext]_xsVars
  PROVE  SoundLoaders'
<1>1. ASSUME NEW p \in Parsers, XsParse(p) \/ XsParseSax(p) \/ XsParseChunk(p) \/ XsProcessXIncludes(p)
      PROVE  SoundLoaders'
  <2>1. InitLoader(p)
    BY <1>1 DEF XsParse, XsParseSax, XsParseChunk, XsProcessXIncludes, XsBeginParse
  <2>. QED BY <2>1, InitLoaderKeeps
<1>2. ASSUME NEW p \in Parsers, StartPush(p)
      PROVE  SoundLoaders'
  <2>1. CASE p \in Handling \cup NoNet
    BY <1>2, <2>1 DEF StartPush, StartPushLoader, SoundLoaders, GlobalLoaderStays
  <2>2. CASE p \notin Handling \cup NoNet
    BY <1>2, <2>2, CleanupLoaderKeeps DEF StartPush, StartPushLoader
  <2>. QED BY <2>1, <2>2
<1>3. ASSUME NEW p \in Parsers, XsPush(p)
      PROVE  SoundLoaders'
  BY <1>3, InitLoaderKeeps, CleanupLoaderKeeps DEF XsPush
<1>4. ASSUME NEW p \in Parsers, EndPush(p)
      PROVE  SoundLoaders'
  BY <1>4, InitLoaderKeeps DEF EndPush
<1>5. ASSUME SetLoader
      PROVE  SoundLoaders'
  BY <1>5, LoadersAssumption DEF SetLoader, SoundLoaders, Loaders, GlobalLoaderStays
<1>6. ASSUME UnsetLoader
      PROVE  SoundLoaders'
  BY <1>6 DEF UnsetLoader, SoundLoaders, GlobalLoaderStays
<1>7. CASE XsFind \/ CallPerl \/ PerlReturns \/ Error \/ XsDie \/ UNCHANGED xsVars
  <2>1. CASE XsFind
    BY <2>1, LoadersKept DEF XsFind
  <2>2. CASE CallPerl \/ PerlReturns
    BY <2>2, LoadersKept DEF CallPerl, PerlReturns
  <2>3. CASE Error
    BY <2>3, LoadersKept DEF Error
  <2>4. CASE XsDie
    BY <2>4, LoadersKept DEF XsDie
  <2>5. CASE UNCHANGED xsVars
    BY <2>5, LoadersKept DEF xsVars
  <2>. QED BY <1>7, <2>1, <2>2, <2>3, <2>4, <2>5
<1>8. CASE XsReturn
  BY <1>8, CleanupLoaderKeeps, LoadersKept DEF XsReturn
<1>. QED BY <1>1, <1>2, <1>3, <1>4, <1>5, <1>6, <1>7, <1>8 DEF XsNext

(* The invariant of the loaders in every state *)
THEOREM LoadersAlwaysSound == XsSpec => []SoundLoaders
<1>1. XsInit => SoundLoaders
  BY DEF XsInit, SoundLoaders, Loaders, GlobalLoaderStays
<1>2. SoundLoaders /\ [XsNext]_xsVars => SoundLoaders'
  BY LoadersStep
<1>. QED BY <1>1, <1>2, PTL DEF XsSpec

(* A loader that the program has set for all parsers stays in force.       *)
THEOREM GlobalLoaderAlwaysStays == XsSpec => []GlobalLoaderStays
<1>1. SoundLoaders => GlobalLoaderStays
  BY DEF SoundLoaders
<1>. QED BY <1>1, LoadersAlwaysSound, PTL

-----------------------------------------------------------------------------
(* The calls *)

Functions == {"parse", "sax", "chunk", "xinclude", "find"} \cup Pushing

XsFrames ==
  [parser : Parsers \cup {NULL}, function : Functions, inPerl : BOOLEAN, disturbed : BOOLEAN,
   abandoned : BOOLEAN, broken : BOOLEAN, saved : BOOLEAN]

XsTyped ==
  /\ context \in [Parsers -> Contexts \cup {NULL}]
  /\ xsCalls \in Seq(XsFrames)
  /\ Len(xsCalls) <= MaxNesting
  /\ sink \in 1..MaxNesting \cup {NULL}

(* Only the innermost call is in libxml2 or undisturbed. *)
Waiting ==
  \A k \in DOMAIN xsCalls : k < Len(xsCalls) => xsCalls[k].inPerl /\ xsCalls[k].disturbed

Pushes(frame) == frame.function \in Pushing

(* A function of the push interface has a context, and has it alone. *)
Kept ==
  \A k \in DOMAIN xsCalls :
    Pushes(xsCalls[k]) => xsCalls[k].parser \in Parsers /\ context[xsCalls[k].parser] # NULL

Alone ==
  \A j, k \in DOMAIN xsCalls :
    j # k /\ Pushes(xsCalls[j]) /\ Pushes(xsCalls[k]) => xsCalls[j].parser # xsCalls[k].parser

(* The errors of an undisturbed call are reported to it, those of the      *)
(* running call at least to no other unless a callback of it has died;     *)
Aimed ==
  \A k \in DOMAIN xsCalls :
    /\ ~xsCalls[k].disturbed => sink = k
    /\ ~xsCalls[k].abandoned /\ k = Len(xsCalls) => sink \in {k, NULL}

(* and those that a call has met are recorded. *)
FrameRecorded(frame) ==
  frame.broken => /\ ~frame.disturbed => frame.saved
                  /\ frame.function = "sax" /\ ~frame.abandoned => frame.saved

Recorded == \A k \in DOMAIN xsCalls : FrameRecorded(xsCalls[k])

SoundCalls ==
  /\ XsTyped /\ Waiting /\ Kept /\ Alone /\ Aimed /\ Recorded
  /\ NoErrorFurtherOut /\ UndisturbedErrorsThrown

(* What the calls are in a sound state *)
LEMMA CallsFacts ==
  ASSUME XsTyped
  PROVE  /\ Len(xsCalls) \in Nat
         /\ DOMAIN xsCalls = 1..Len(xsCalls)
         /\ \A k \in DOMAIN xsCalls : xsCalls[k] \in XsFrames
         /\ xsCalls # <<>> => Len(xsCalls) \in DOMAIN xsCalls /\ XsRunning \in XsFrames
         /\ xsCalls = <<>> => Len(xsCalls) = 0
<1>1. Len(xsCalls) \in Nat /\ DOMAIN xsCalls = 1..Len(xsCalls)
  BY LenProperties DEF XsTyped
<1>2. \A k \in DOMAIN xsCalls : xsCalls[k] \in XsFrames
  BY <1>1, ElementOfSeq DEF XsTyped
<1>3. xsCalls # <<>> => Len(xsCalls) \in DOMAIN xsCalls
  BY <1>1, EmptySeq DEF XsTyped
<1>4. xsCalls = <<>> => Len(xsCalls) = 0
  BY EmptySeq
<1>. QED BY <1>1, <1>2, <1>3, <1>4 DEF XsRunning

(* Who uses which context is decided by the functions and the parsers, *)
SameUse(k) == /\ xsCalls'[k].function = xsCalls[k].function
              /\ xsCalls'[k].parser = xsCalls[k].parser

(* and what a call further out has recorded by these. *)
SameErrors(k) == /\ xsCalls'[k].broken = xsCalls[k].broken
                 /\ xsCalls'[k].saved = xsCalls[k].saved
                 /\ xsCalls[k].abandoned => xsCalls'[k].abandoned

(* It stays recorded. *)
LEMMA RecordedKept ==
  ASSUME Recorded, NEW k \in DOMAIN xsCalls, SameUse(k), SameErrors(k), xsCalls'[k].disturbed
  PROVE  FrameRecorded(xsCalls'[k])
BY DEF Recorded, FrameRecorded, SameUse, SameErrors

(* The running call goes on. *)
LEMMA ReplacedFacts ==
  ASSUME XsTyped, xsCalls # <<>>, NEW frame \in XsFrames, XsSetRunning(frame)
  PROVE  /\ xsCalls' \in Seq(XsFrames)
         /\ Len(xsCalls') = Len(xsCalls)
         /\ DOMAIN xsCalls' = DOMAIN xsCalls
         /\ xsCalls'[Len(xsCalls)] = frame
         /\ \A k \in DOMAIN xsCalls : k # Len(xsCalls) => xsCalls'[k] = xsCalls[k]
<1>1. Len(xsCalls) \in 1..Len(xsCalls) /\ xsCalls \in Seq(XsFrames)
  BY CallsFacts DEF XsTyped
<1>2. /\ xsCalls' \in Seq(XsFrames)
      /\ Len(xsCalls') = Len(xsCalls)
      /\ \A k \in 1..Len(xsCalls) : xsCalls'[k] = IF k = Len(xsCalls) THEN frame ELSE xsCalls[k]
  BY <1>1, ExceptSeq DEF XsSetRunning
<1>3. DOMAIN xsCalls' = DOMAIN xsCalls /\ DOMAIN xsCalls = 1..Len(xsCalls)
  BY <1>1, <1>2, LenProperties
<1>. QED BY <1>1, <1>2, <1>3

(* A step that replaces the running call keeps them sound, *)
LEMMA XsReplacedKeeps ==
  ASSUME SoundCalls, xsCalls # <<>>, NEW frame \in XsFrames, XsSetRunning(frame),
         frame.function = XsRunning.function, frame.parser = XsRunning.parser,
         frame.disturbed = XsRunning.disturbed, frame.abandoned = XsRunning.abandoned,
         FrameRecorded(frame),
         context' \in [Parsers -> Contexts \cup {NULL}],
         \A q \in Parsers : context[q] # NULL => context'[q] # NULL,
         sink' = sink, thrown' = NULL
  PROVE  SoundCalls'
<1>. DEFINE last == Len(xsCalls)
<1>1. XsTyped /\ last \in DOMAIN xsCalls /\ XsRunning = xsCalls[last]
  BY CallsFacts DEF SoundCalls, XsRunning
<1>2. XsTyped'
  BY <1>1, ReplacedFacts DEF XsTyped
<1>3. \A k \in DOMAIN xsCalls : SameUse(k)
  BY <1>1, ReplacedFacts DEF SameUse
<1>4. DOMAIN xsCalls' = DOMAIN xsCalls
  BY <1>1, ReplacedFacts
<1>5. Waiting'
  BY <1>1, ReplacedFacts DEF SoundCalls, Waiting
<1>6. Kept'
  BY <1>3, <1>4 DEF SoundCalls, Kept, Pushes, SameUse
<1>7. Alone'
  BY <1>3, <1>4 DEF SoundCalls, Alone, Pushes, SameUse
<1>8. Aimed'
  BY <1>1, ReplacedFacts DEF SoundCalls, Aimed
<1>9. Recorded'
  BY <1>1, ReplacedFacts DEF SoundCalls, Recorded
<1>10. NoErrorFurtherOut'
  BY <1>1, ReplacedFacts DEF SoundCalls, NoErrorFurtherOut
<1>11. UndisturbedErrorsThrown'
  BY DEF UndisturbedErrorsThrown
<1>. QED BY <1>2, <1>5, <1>6, <1>7, <1>8, <1>9, <1>10, <1>11 DEF SoundCalls

(* Every call is disturbed. *)
LEMMA DisturbedFacts ==
  ASSUME XsTyped
  PROVE  /\ Disturbed \in Seq(XsFrames)
         /\ Len(Disturbed) = Len(xsCalls)
         /\ DOMAIN Disturbed = DOMAIN xsCalls
         /\ \A k \in DOMAIN xsCalls : /\ Disturbed[k].disturbed
                                    /\ Disturbed[k].parser = xsCalls[k].parser
                                    /\ Disturbed[k].function = xsCalls[k].function
                                    /\ Disturbed[k].inPerl = xsCalls[k].inPerl
                                    /\ Disturbed[k].abandoned = xsCalls[k].abandoned
                                    /\ Disturbed[k].broken = xsCalls[k].broken
                                    /\ Disturbed[k].saved = xsCalls[k].saved
<1>1. \A k \in DOMAIN xsCalls : [xsCalls[k] EXCEPT !.disturbed = TRUE] \in XsFrames
  BY CallsFacts DEF XsFrames
<1>2. Disturbed \in [1..Len(xsCalls) -> XsFrames] /\ Len(xsCalls) \in Nat
  BY <1>1, CallsFacts DEF Disturbed
<1>3. Disturbed \in Seq(XsFrames)
  BY <1>2, SeqDef
<1>4. Len(Disturbed) = Len(xsCalls) /\ DOMAIN Disturbed = DOMAIN xsCalls
  BY <1>2, <1>3, LenProperties, CallsFacts
<1>5. ASSUME NEW k \in DOMAIN xsCalls
      PROVE  /\ Disturbed[k].disturbed
             /\ Disturbed[k].parser = xsCalls[k].parser
             /\ Disturbed[k].function = xsCalls[k].function
             /\ Disturbed[k].inPerl = xsCalls[k].inPerl
             /\ Disturbed[k].abandoned = xsCalls[k].abandoned
             /\ Disturbed[k].broken = xsCalls[k].broken
             /\ Disturbed[k].saved = xsCalls[k].saved
  <2>1. xsCalls[k] \in XsFrames
    BY CallsFacts
  <2>2. Disturbed[k] = [xsCalls[k] EXCEPT !.disturbed = TRUE]
    BY DEF Disturbed
  <2>. QED BY <2>1, <2>2 DEF XsFrames
<1>. QED BY <1>3, <1>4, <1>5

(* While Perl code runs, every call has it running. *)
LEMMA DisturbedKeeps ==
  ASSUME SoundCalls, XsInPerl
  PROVE  \A k \in DOMAIN xsCalls : xsCalls[k].inPerl
<1>. SUFFICES ASSUME NEW k \in DOMAIN xsCalls
              PROVE  xsCalls[k].inPerl
  OBVIOUS
<1>1. Len(xsCalls) \in Nat /\ k \in 1..Len(xsCalls) /\ xsCalls # <<>>
  BY CallsFacts DEF SoundCalls
<1>2. CASE k = Len(xsCalls)
  BY <1>1, <1>2 DEF XsInPerl, XsRunning
<1>3. CASE k < Len(xsCalls)
  BY <1>3 DEF SoundCalls, Waiting
<1>. QED BY <1>1, <1>2, <1>3

(* A function begins. *)
LEMMA XsBeginFacts ==
  ASSUME SoundCalls, NEW p \in Parsers \cup {NULL}, NEW function \in Functions, XsBegin(p, function)
  PROVE  /\ xsCalls' \in Seq(XsFrames)
         /\ Len(xsCalls') = Len(xsCalls) + 1
         /\ DOMAIN xsCalls' = 1..(Len(xsCalls) + 1)
         /\ xsCalls'[Len(xsCalls) + 1] = XsFrame(p, function)
         /\ \A k \in DOMAIN xsCalls : /\ SameUse(k) /\ SameErrors(k)
                                    /\ xsCalls'[k].disturbed /\ xsCalls'[k].inPerl
<1>1. XsFrame(p, function) \in XsFrames
  BY DEF XsFrame, XsFrames
<1>2. XsTyped
  BY DEF SoundCalls
<1>3. /\ xsCalls' \in Seq(XsFrames)
      /\ Len(xsCalls') = Len(xsCalls) + 1
      /\ xsCalls'[Len(xsCalls) + 1] = XsFrame(p, function)
      /\ \A k \in 1..Len(xsCalls) : xsCalls'[k] = Disturbed[k]
  <2>1. xsCalls' = Append(Disturbed, XsFrame(p, function))
    BY DEF XsBegin
  <2>. QED BY <1>1, <1>2, <2>1, DisturbedFacts, AppendProperties
<1>4. DOMAIN xsCalls' = 1..(Len(xsCalls) + 1) /\ DOMAIN xsCalls = 1..Len(xsCalls)
  BY <1>2, <1>3, LenProperties, CallsFacts
<1>5. \A k \in DOMAIN xsCalls : xsCalls[k].inPerl
  BY DisturbedKeeps DEF XsBegin
<1>6. \A k \in DOMAIN xsCalls : /\ SameUse(k) /\ SameErrors(k)
                              /\ xsCalls'[k].disturbed /\ xsCalls'[k].inPerl
  BY <1>2, <1>3, <1>4, <1>5, DisturbedFacts DEF SameUse, SameErrors
<1>. QED BY <1>3, <1>4, <1>6

(* So does one that begins a call, *)
LEMMA XsBeginKeeps ==
  ASSUME SoundCalls, NEW p \in Parsers \cup {NULL}, NEW function \in Functions, XsBegin(p, function),
         context' \in [Parsers -> Contexts \cup {NULL}],
         \A q \in Parsers : context[q] # NULL => context'[q] # NULL,
         function \in Pushing => p \in Parsers /\ ~InUse(p) /\ context'[p] # NULL
  PROVE  SoundCalls'
<1>. DEFINE new == Len(xsCalls) + 1
<1>1. /\ XsTyped
      /\ Len(xsCalls) \in Nat
      /\ DOMAIN xsCalls = 1..Len(xsCalls)
      /\ DOMAIN xsCalls' = DOMAIN xsCalls \cup {new}
      /\ new \notin DOMAIN xsCalls
      /\ \A k \in DOMAIN xsCalls : xsCalls[k] \in XsFrames
  <2>1. DOMAIN xsCalls' = 1..(Len(xsCalls) + 1)
    BY XsBeginFacts
  <2>2. /\ XsTyped /\ Len(xsCalls) \in Nat /\ DOMAIN xsCalls = 1..Len(xsCalls)
        /\ \A k \in DOMAIN xsCalls : xsCalls[k] \in XsFrames
    BY CallsFacts DEF SoundCalls
  <2>. QED BY <2>1, <2>2
<1>2. /\ xsCalls'[new].parser = p
      /\ xsCalls'[new].function = function
      /\ xsCalls'[new].disturbed = FALSE
      /\ xsCalls'[new].broken = FALSE
  <2>1. xsCalls'[new] = XsFrame(p, function)
    BY XsBeginFacts
  <2>. QED BY <2>1 DEF XsFrame
<1>3. sink' = new /\ Len(xsCalls') = new
  BY XsBeginFacts DEF XsBegin
<1>4. \A k \in DOMAIN xsCalls : /\ SameUse(k) /\ SameErrors(k)
                              /\ xsCalls'[k].disturbed /\ xsCalls'[k].inPerl
  BY XsBeginFacts
<1>5. XsTyped'
  <2>1. Len(xsCalls) < MaxNesting
    BY DEF XsBegin
  <2>2. new <= MaxNesting /\ new \in 1..MaxNesting
    BY <1>1, <2>1, NestingAssumption
  <2>. QED BY <1>3, <2>2, XsBeginFacts DEF XsTyped
<1>6. Waiting'
  <2>1. \A k \in DOMAIN xsCalls' : k < Len(xsCalls') => k \in DOMAIN xsCalls
    BY <1>1, <1>3
  <2>. QED BY <1>4, <2>1 DEF Waiting
<1>7. Kept'
  <2>1. \A k \in DOMAIN xsCalls :
          Pushes(xsCalls[k]) => xsCalls[k].parser \in Parsers /\ context[xsCalls[k].parser] # NULL
    BY DEF SoundCalls, Kept
  <2>. QED BY <1>1, <1>2, <1>4, <2>1 DEF Kept, Pushes, SameUse
<1>8. Alone'
  <2>1. function \in Pushing => \A k \in DOMAIN xsCalls : Pushes(xsCalls[k]) => xsCalls[k].parser # p
    BY DEF InUse, Pushes
  <2>2. \A j, k \in DOMAIN xsCalls :
          j # k /\ Pushes(xsCalls'[j]) /\ Pushes(xsCalls'[k]) => xsCalls'[j].parser # xsCalls'[k].parser
    BY <1>4 DEF SoundCalls, Alone, Pushes, SameUse
  <2>3. \A k \in DOMAIN xsCalls :
          Pushes(xsCalls'[k]) /\ Pushes(xsCalls'[new]) => xsCalls'[k].parser # xsCalls'[new].parser
    BY <1>2, <1>4, <2>1 DEF Pushes, SameUse
  <2>. QED BY <1>1, <2>2, <2>3 DEF Alone
<1>9. Aimed'
  BY <1>1, <1>3, <1>4 DEF Aimed
<1>10. Recorded'
  <2>1. \A k \in DOMAIN xsCalls : FrameRecorded(xsCalls'[k])
    BY <1>4, RecordedKept DEF SoundCalls
  <2>2. FrameRecorded(xsCalls'[new])
    BY <1>2 DEF FrameRecorded
  <2>. QED BY <1>1, <2>1, <2>2 DEF Recorded
<1>11. NoErrorFurtherOut'
  BY <1>1, <1>3 DEF NoErrorFurtherOut
<1>12. UndisturbedErrorsThrown'
  BY DEF XsBegin, UndisturbedErrorsThrown
<1>. QED BY <1>5, <1>6, <1>7, <1>8, <1>9, <1>10, <1>11, <1>12 DEF SoundCalls

(* one that begins no push, *)
LEMMA BeginParseKeeps ==
  ASSUME SoundCalls, NEW p \in Parsers,
         NEW function \in {"parse", "sax", "chunk", "xinclude"}, XsBeginParse(p, function)
  PROVE  SoundCalls'
<1>1. XsBegin(p, function) /\ UNCHANGED context
  BY DEF XsBeginParse
<1>2. function \in Functions /\ function \notin Pushing
  BY DEF Functions, Pushing
<1>3. context \in [Parsers -> Contexts \cup {NULL}]
  BY DEF SoundCalls, XsTyped
<1>. QED BY <1>1, <1>2, <1>3, XsBeginKeeps

(* one that starts a push parse, *)
LEMMA StartPushKeeps ==
  ASSUME SoundCalls, NEW p \in Parsers, StartPush(p)
  PROVE  SoundCalls'
<1>1. XsTyped /\ DOMAIN xsCalls' = DOMAIN xsCalls /\ Len(xsCalls') = Len(xsCalls) /\ xsCalls' \in Seq(XsFrames)
  BY DisturbedFacts DEF SoundCalls, StartPush
<1>2. \A k \in DOMAIN xsCalls : SameUse(k) /\ SameErrors(k) /\ xsCalls'[k].disturbed
  BY <1>1, DisturbedFacts DEF StartPush, SameUse, SameErrors
<1>3. \A k \in DOMAIN xsCalls : xsCalls'[k].inPerl
  <2>1. \A k \in DOMAIN xsCalls : xsCalls[k].inPerl
    BY DisturbedKeeps DEF StartPush
  <2>. QED BY <1>1, <2>1, DisturbedFacts DEF StartPush
<1>4. sink' = NULL /\ context' = [context EXCEPT ![p] = "sound"]
  BY DEF StartPush
<1>5. XsTyped'
  BY <1>1, <1>4 DEF XsTyped, Contexts
<1>6. Waiting'
  BY <1>1, <1>2, <1>3 DEF Waiting
<1>7. Kept'
  <2>1. "sound" # NULL
    BY LoadersAssumption DEF Contexts
  <2>2. \A q \in Parsers : context[q] # NULL => context'[q] # NULL
    BY <1>1, <1>4, <2>1 DEF XsTyped
  <2>. QED BY <1>1, <1>2, <2>2 DEF SoundCalls, Kept, Pushes, SameUse
<1>8. Alone'
  BY <1>1, <1>2 DEF SoundCalls, Alone, Pushes, SameUse
<1>9. Aimed'
  BY <1>1, <1>2, <1>4 DEF Aimed
<1>10. Recorded'
  BY <1>1, <1>2, RecordedKept DEF SoundCalls, Recorded
<1>11. NoErrorFurtherOut'
  BY <1>4 DEF NoErrorFurtherOut
<1>12. UndisturbedErrorsThrown'
  BY DEF StartPush, UndisturbedErrorsThrown
<1>. QED BY <1>5, <1>6, <1>7, <1>8, <1>9, <1>10, <1>11, <1>12 DEF SoundCalls

(* The innermost call ends; its context is kept unless it was the last of  *)
(* a push.  If the call dies, the one around it is abandoned.              *)
LEMMA Ended ==
  ASSUME SoundCalls, xsCalls # <<>>,
         xsCalls' \in Seq(XsFrames), Len(xsCalls') = Len(xsCalls) - 1,
         \A k \in 1..(Len(xsCalls) - 1) :
           SameUse(k) /\ SameErrors(k) /\ xsCalls'[k].inPerl = xsCalls[k].inPerl
             /\ xsCalls'[k].disturbed = xsCalls[k].disturbed,
         context' = ContextAfter,
         \/ sink' = NULL
         \/ sink' = sink /\ \A k \in 1..(Len(xsCalls) - 1) : k = Len(xsCalls) - 1 => xsCalls'[k].abandoned,
         UndisturbedErrorsThrown'
  PROVE  SoundCalls'
<1>. DEFINE last == Len(xsCalls)
<1>1. /\ XsTyped /\ last \in Nat \ {0} /\ last \in DOMAIN xsCalls
      /\ DOMAIN xsCalls = 1..last /\ XsRunning = xsCalls[last] /\ XsRunning \in XsFrames
  BY CallsFacts DEF SoundCalls, XsRunning
<1>2. DOMAIN xsCalls' = 1..(last - 1)
  BY LenProperties
<1>3. \A k \in DOMAIN xsCalls' : /\ k \in DOMAIN xsCalls /\ k # last /\ k < last
                               /\ SameUse(k) /\ SameErrors(k)
  BY <1>1, <1>2
<1>4. \A k \in DOMAIN xsCalls' : xsCalls'[k].disturbed /\ xsCalls'[k].inPerl
  BY <1>2, <1>3 DEF SoundCalls, Waiting
<1>5. Pushes(XsRunning) => XsRunning.parser \in Parsers
  BY <1>1 DEF SoundCalls, Kept
<1>6. XsTyped'
  <2>1. Len(xsCalls') <= MaxNesting
    BY <1>1, NestingAssumption DEF XsTyped
  <2>2. context' \in [Parsers -> Contexts \cup {NULL}]
    BY <1>1, <1>5 DEF ContextAfter, XsTyped, Contexts
  <2>. QED BY <1>1, <2>1, <2>2 DEF XsTyped
<1>7. Waiting'
  BY <1>4 DEF Waiting
<1>8. Kept'
  <2>. SUFFICES ASSUME NEW k \in DOMAIN xsCalls', Pushes(xsCalls[k])
                PROVE  xsCalls[k].parser \in Parsers /\ context'[xsCalls[k].parser] # NULL
    BY <1>3 DEF Kept, Pushes, SameUse
  <2>1. xsCalls[k].parser \in Parsers /\ context[xsCalls[k].parser] # NULL
    BY <1>3 DEF SoundCalls, Kept
  <2>2. Pushes(XsRunning) => xsCalls[k].parser # XsRunning.parser
    BY <1>1, <1>3 DEF SoundCalls, Alone
  <2>3. XsRunning.function \in {"end_push", "end_sax_push"} => Pushes(XsRunning)
    BY DEF Pushes, Pushing
  <2>. QED BY <1>1, <2>1, <2>2, <2>3 DEF ContextAfter, XsTyped
<1>9. Alone'
  BY <1>3 DEF SoundCalls, Alone, Pushes, SameUse
<1>10. Aimed'
  BY <1>2, <1>4 DEF Aimed
<1>11. Recorded'
  BY <1>3, <1>4, RecordedKept DEF SoundCalls, Recorded
<1>12. NoErrorFurtherOut'
  <2>1. sink' # NULL => sink' = sink /\ sink >= last /\ sink \in Nat
    BY <1>1, NestingAssumption DEF SoundCalls, NoErrorFurtherOut, XsTyped
  <2>. QED BY <1>1, <2>1 DEF NoErrorFurtherOut
<1>. QED BY <1>6, <1>7, <1>8, <1>9, <1>10, <1>11, <1>12 DEF SoundCalls

(* one that returns *)
LEMMA ReturnKeeps ==
  ASSUME SoundCalls, XsReturn
  PROVE  SoundCalls'
<1>. DEFINE last == Len(xsCalls)
<1>1. /\ xsCalls # <<>> /\ XsRunning \in XsFrames
      /\ last \in Nat \ {0} /\ last \in DOMAIN xsCalls /\ XsRunning = xsCalls[last]
      /\ \A k \in 1..last : xsCalls[k] \in XsFrames
  <2>1. xsCalls # <<>>
    BY DEF XsReturn, XsInLibxml
  <2>. QED BY <2>1, CallsFacts DEF SoundCalls, XsRunning
<1>2. UndisturbedErrorsThrown'
  <2>1. thrown' = NULL \/ thrown' = Outcome
    BY DEF XsReturn
  <2>2. /\ Outcome.function = XsRunning.function /\ Outcome.met = XsRunning.broken
        /\ Outcome.ill = IllFormed /\ Outcome.disturbed = XsRunning.disturbed
        /\ Outcome.abandoned = XsRunning.abandoned
        /\ Outcome.croaked = (XsRunning.saved \/ (XsRunning.function \in Checking /\ IllFormed))
    BY DEF Outcome
  <2>3. FrameRecorded(XsRunning)
    BY <1>1 DEF SoundCalls, Recorded
  <2>. QED BY <2>1, <2>2, <2>3 DEF UndisturbedErrorsThrown, FrameRecorded
<1>3. /\ xsCalls' \in Seq(XsFrames)
      /\ Len(xsCalls') = last - 1
      /\ \A k \in 1..(last - 1) : xsCalls'[k] = xsCalls[k]
  <2>1. xsCalls' = SubSeq(xsCalls, 1, last - 1)
    <3>1. xsCalls' = Front(xsCalls)
      BY DEF XsReturn
    <3>. QED BY <3>1 DEF Front
  <2>2. last - 1 \in Int /\ 1 \in Int /\ \A i \in 1..(last - 1) : xsCalls[i] \in XsFrames
    BY <1>1
  <2>3. /\ SubSeq(xsCalls, 1, last - 1) \in Seq(XsFrames)
        /\ Len(SubSeq(xsCalls, 1, last - 1)) = IF 1 <= last - 1 THEN last - 1 - 1 + 1 ELSE 0
        /\ \A i \in 1..(last - 1 - 1 + 1) : SubSeq(xsCalls, 1, last - 1)[i] = xsCalls[1 + i - 1]
    BY <2>2, SubSeqProperties
  <2>. HIDE DEF last
  <2>4. 1 <= last - 1 => last - 1 - 1 + 1 = last - 1
    BY <1>1
  <2>. QED BY <1>1, <2>1, <2>3, <2>4
<1>4. \A k \in 1..(last - 1) :
        SameUse(k) /\ SameErrors(k) /\ xsCalls'[k].inPerl = xsCalls[k].inPerl
          /\ xsCalls'[k].disturbed = xsCalls[k].disturbed
  BY <1>3 DEF SameUse, SameErrors
<1>5. context' = ContextAfter /\ sink' = NULL
  BY DEF XsReturn
<1>. QED BY <1>1, <1>2, <1>3, <1>4, <1>5, Ended

(* and one that dies. *)
LEMMA DieKeeps ==
  ASSUME SoundCalls, XsDie
  PROVE  SoundCalls'
<1>. DEFINE last == Len(xsCalls)
            After(k) == [xsCalls[k] EXCEPT !.abandoned = @ \/ k = last - 1]
<1>1. /\ xsCalls # <<>> /\ context' = ContextAfter /\ UNCHANGED sink
      /\ xsCalls' = [k \in 1..(last - 1) |-> After(k)]
  BY DEF XsDie
<1>2. last \in Nat \ {0} /\ \A k \in 1..last : xsCalls[k] \in XsFrames
  BY <1>1, CallsFacts DEF SoundCalls
<1>3. ASSUME NEW k \in 1..(last - 1)
      PROVE  /\ After(k) \in XsFrames
             /\ SameUse(k) /\ SameErrors(k)
             /\ xsCalls'[k].inPerl = xsCalls[k].inPerl
             /\ xsCalls'[k].disturbed = xsCalls[k].disturbed
             /\ k = last - 1 => xsCalls'[k].abandoned
  <2>1. xsCalls[k] \in XsFrames /\ xsCalls'[k] = After(k) /\ (k = last - 1) \in BOOLEAN
    BY <1>1, <1>2
  <2>2. /\ After(k) \in XsFrames
        /\ After(k).function = xsCalls[k].function /\ After(k).parser = xsCalls[k].parser
        /\ After(k).inPerl = xsCalls[k].inPerl /\ After(k).disturbed = xsCalls[k].disturbed
        /\ After(k).broken = xsCalls[k].broken /\ After(k).saved = xsCalls[k].saved
        /\ After(k).abandoned = (xsCalls[k].abandoned \/ k = last - 1)
    BY <2>1 DEF XsFrames
  <2>. QED BY <2>1, <2>2 DEF SameUse, SameErrors
<1>4. xsCalls' \in Seq(XsFrames) /\ Len(xsCalls') = last - 1
  <2>1. last - 1 \in Nat
    BY <1>2
  <2>2. xsCalls' \in [1..(last - 1) -> XsFrames]
    BY <1>1, <1>3
  <2>3. xsCalls' \in Seq(XsFrames)
    BY <2>1, <2>2, SeqDef
  <2>. QED BY <2>1, <2>2, <2>3, LenProperties
<1>5. UndisturbedErrorsThrown'
  BY DEF XsDie, UndisturbedErrorsThrown
<1>. QED BY <1>1, <1>3, <1>4, <1>5, Ended

(* An error in the input of an undisturbed call goes to its saved_error,   *)
(* and so does one in that of _parse_sax_... unless a callback has died.   *)
LEMMA ErrorKeeps ==
  ASSUME SoundCalls, Error
  PROVE  SoundCalls'
<1>1. PICK saved \in Saved : XsSetRunning([XsRunning EXCEPT !.broken = TRUE, !.saved = saved])
  BY DEF Error
<1>. DEFINE frame == [XsRunning EXCEPT !.broken = TRUE, !.saved = saved]
<1>2. /\ xsCalls # <<>> /\ sink' = sink /\ thrown' = NULL
      /\ context' = IF XsRunning.function \in Pushing
                    THEN [context EXCEPT ![XsRunning.parser] = "broken"]
                    ELSE context
  BY DEF Error, XsInLibxml
<1>3. /\ XsRunning \in XsFrames /\ Len(xsCalls) \in DOMAIN xsCalls /\ XsRunning = xsCalls[Len(xsCalls)]
      /\ Len(xsCalls) \in Nat
  BY <1>2, CallsFacts DEF SoundCalls, XsRunning
<1>4. saved \in BOOLEAN
  BY DEF Saved
<1>5. /\ frame \in XsFrames
      /\ frame.function = XsRunning.function /\ frame.parser = XsRunning.parser
      /\ frame.disturbed = XsRunning.disturbed /\ frame.abandoned = XsRunning.abandoned
      /\ frame.saved = saved
  BY <1>3, <1>4 DEF XsFrames
<1>6. FrameRecorded(frame)
  <2>1. Len(xsCalls) # NULL
    BY <1>3, CallsFacts, NestingAssumption DEF SoundCalls, XsTyped
  <2>2. /\ ~XsRunning.disturbed => sink = Len(xsCalls)
        /\ ~XsRunning.abandoned => sink \in {Len(xsCalls), NULL}
    BY <1>3 DEF SoundCalls, Aimed
  <2>3. sink = Len(xsCalls) => saved
    BY <2>1 DEF Saved
  <2>4. sink = NULL /\ XsRunning.function = "sax" => saved
    BY DEF Saved
  <2>. QED BY <1>5, <2>2, <2>3, <2>4 DEF FrameRecorded
<1>7. /\ context' \in [Parsers -> Contexts \cup {NULL}]
      /\ \A q \in Parsers : context[q] # NULL => context'[q] # NULL
  <2>1. context \in [Parsers -> Contexts \cup {NULL}] /\ "broken" # NULL /\ "broken" \in Contexts
    BY LoadersAssumption DEF SoundCalls, XsTyped, Contexts
  <2>. QED BY <1>2, <2>1
<1>8. XsSetRunning(frame)
  BY <1>1
<1>. HIDE DEF frame
<1>. QED BY <1>2, <1>5, <1>6, <1>7, <1>8, XsReplacedKeeps

(* libxml2 calls Perl, or Perl returns. *)
LEMMA PerlKeeps ==
  ASSUME SoundCalls, CallPerl \/ PerlReturns
  PROVE  SoundCalls'
<1>1. PICK inPerl \in BOOLEAN : XsSetRunning([XsRunning EXCEPT !.inPerl = inPerl])
  BY DEF CallPerl, PerlReturns
<1>. DEFINE frame == [XsRunning EXCEPT !.inPerl = inPerl]
<1>2. xsCalls # <<>> /\ UNCHANGED <<context, sink>> /\ thrown' = NULL
  BY DEF CallPerl, PerlReturns, XsInLibxml
<1>3. XsRunning \in XsFrames /\ Len(xsCalls) \in DOMAIN xsCalls /\ XsRunning = xsCalls[Len(xsCalls)]
  BY <1>2, CallsFacts DEF SoundCalls, XsRunning
<1>4. /\ frame \in XsFrames
      /\ frame.function = XsRunning.function /\ frame.parser = XsRunning.parser
      /\ frame.disturbed = XsRunning.disturbed /\ frame.abandoned = XsRunning.abandoned
      /\ frame.broken = XsRunning.broken /\ frame.saved = XsRunning.saved
  BY <1>3 DEF XsFrames
<1>5. FrameRecorded(frame)
  BY <1>3, <1>4 DEF SoundCalls, Recorded, FrameRecorded
<1>6. XsSetRunning(frame)
  BY <1>1
<1>7. context \in [Parsers -> Contexts \cup {NULL}]
  BY DEF SoundCalls, XsTyped
<1>. HIDE DEF frame
<1>. QED BY <1>2, <1>4, <1>5, <1>6, <1>7, XsReplacedKeeps

(* The invariant of the calls after any step *)
LEMMA CallsStep ==
  ASSUME SoundCalls, [XsNext]_xsVars
  PROVE  SoundCalls'
<1>0. context \in [Parsers -> Contexts \cup {NULL}] /\ "sound" # NULL
  BY LoadersAssumption DEF SoundCalls, XsTyped, Contexts
<1>1. ASSUME NEW p \in Parsers, XsParse(p) \/ XsParseSax(p) \/ XsParseChunk(p) \/ XsProcessXIncludes(p)
      PROVE  SoundCalls'
  BY <1>1, BeginParseKeeps DEF XsParse, XsParseSax, XsParseChunk, XsProcessXIncludes
<1>2. ASSUME NEW p \in Parsers, StartPush(p)
      PROVE  SoundCalls'
  BY <1>2, StartPushKeeps
<1>3. ASSUME NEW p \in Parsers, XsPush(p)
      PROVE  SoundCalls'
  <2>1. /\ XsBegin(p, "push") /\ ~InUse(p)
        /\ context' = [context EXCEPT ![p] = IF @ = NULL THEN "sound" ELSE @]
    BY <1>3 DEF XsPush
  <2>2. context' \in [Parsers -> Contexts \cup {NULL}] /\ context'[p] # NULL
    BY <1>0, <2>1 DEF Contexts
  <2>3. \A q \in Parsers : context[q] # NULL => context'[q] # NULL
    BY <1>0, <2>1
  <2>4. "push" \in Functions
    BY DEF Functions, Pushing
  <2>. QED BY <2>1, <2>2, <2>3, <2>4, XsBeginKeeps
<1>4. ASSUME NEW p \in Parsers, EndPush(p)
      PROVE  SoundCalls'
  <2>1. PICK function \in {"end_push", "end_sax_push"} : XsBegin(p, function)
    BY <1>4 DEF EndPush
  <2>2. ~InUse(p) /\ context[p] # NULL /\ UNCHANGED context
    BY <1>4 DEF EndPush
  <2>3. function \in Functions
    BY DEF Functions, Pushing
  <2>. QED BY <1>0, <2>1, <2>2, <2>3, XsBeginKeeps
<1>5. CASE XsFind
  <2>1. XsBegin(NULL, "find") /\ UNCHANGED context
    BY <1>5 DEF XsFind
  <2>2. "find" \in Functions /\ "find" \notin Pushing
    BY DEF Functions, Pushing
  <2>. QED BY <1>0, <2>1, <2>2, XsBeginKeeps
<1>6. CASE SetLoader \/ UnsetLoader \/ UNCHANGED xsVars
  <2>1. UNCHANGED <<context, xsCalls, sink>> /\ (UNCHANGED thrown \/ thrown' = NULL)
    BY <1>6 DEF SetLoader, UnsetLoader, xsVars
  <2>2. XsTyped' /\ Waiting' /\ Kept'
    BY <2>1 DEF SoundCalls, XsTyped, Waiting, Kept
  <2>3. Alone' /\ Aimed' /\ Recorded'
    BY <2>1 DEF SoundCalls, Alone, Aimed, Recorded
  <2>4. NoErrorFurtherOut' /\ UndisturbedErrorsThrown'
    BY <2>1 DEF SoundCalls, NoErrorFurtherOut, UndisturbedErrorsThrown
  <2>. QED BY <2>2, <2>3, <2>4 DEF SoundCalls
<1>. QED BY <1>1, <1>2, <1>3, <1>4, <1>5, <1>6, PerlKeeps, ErrorKeeps, ReturnKeeps, DieKeeps DEF XsNext

(* The invariant of the calls in every state *)
THEOREM CallsAlwaysSound == XsSpec => []SoundCalls
<1>1. XsInit => SoundCalls
  <2>. SUFFICES ASSUME XsInit
                PROVE  SoundCalls
    OBVIOUS
  <2>1. /\ xsCalls = <<>> /\ sink = NULL /\ thrown = NULL
        /\ context = [p \in Parsers |-> NULL]
    BY DEF XsInit
  <2>2. xsCalls \in Seq(XsFrames) /\ Len(xsCalls) = 0 /\ DOMAIN xsCalls = {}
    BY <2>1, EmptySeq, LenProperties
  <2>3. XsTyped
    BY <2>1, <2>2, NestingAssumption DEF XsTyped
  <2>4. Waiting /\ Kept /\ Alone /\ Aimed /\ Recorded
    BY <2>2 DEF Waiting, Kept, Alone, Aimed, Recorded
  <2>5. NoErrorFurtherOut /\ UndisturbedErrorsThrown
    BY <2>1 DEF NoErrorFurtherOut, UndisturbedErrorsThrown
  <2>. QED BY <2>3, <2>4, <2>5 DEF SoundCalls
<1>2. SoundCalls /\ [XsNext]_xsVars => SoundCalls'
  BY CallsStep
<1>. QED BY <1>1, <1>2, PTL DEF XsSpec

(* libxml2 never reports an error further out than the parse that meets it. *)
THEOREM NoErrorEverFurtherOut == XsSpec => []NoErrorFurtherOut
<1>1. SoundCalls => NoErrorFurtherOut
  BY DEF SoundCalls
<1>. QED BY <1>1, CallsAlwaysSound, PTL

(* An error in the input of a function in which no other has set the error *)
(* handlers becomes an exception; so does one in that of a SAX parse in    *)
(* which none has died, and any in that of _parse_xml_chunk,               *)
(* _processXIncludes, _push and _end_push.                                 *)
THEOREM UndisturbedErrorsAlwaysThrown == XsSpec => []UndisturbedErrorsThrown
<1>1. SoundCalls => UndisturbedErrorsThrown
  BY DEF SoundCalls
<1>. QED BY <1>1, CallsAlwaysSound, PTL

(* The types, and that a function of the push interface has its context.   *)
THEOREM GlobalTypesCorrect == XsSpec => []XsTypeOK
<1>1. SoundCalls /\ SoundLoaders => XsTypeOK
  <2>. SUFFICES ASSUME SoundCalls, SoundLoaders
                PROVE  XsTypeOK
    OBVIOUS
  <2>1. \A k \in DOMAIN xsCalls : xsCalls[k].parser \in Parsers \cup {NULL}
    BY CallsFacts DEF SoundCalls, XsFrames
  <2>2. \A k \in DOMAIN xsCalls :
          /\ k < Len(xsCalls) => xsCalls[k].inPerl /\ xsCalls[k].disturbed
          /\ xsCalls[k].function \in Pushing => context[xsCalls[k].parser] # NULL
    BY DEF SoundCalls, Waiting, Kept, Pushes
  <2>. QED BY <2>1, <2>2 DEF XsTypeOK, SoundCalls, XsTyped, SoundLoaders
<1>. QED BY <1>1, CallsAlwaysSound, LoadersAlwaysSound, PTL
=============================================================================
