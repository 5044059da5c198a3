-------------------------------- MODULE Sax --------------------------------
(***************************************************************************)
(* The SAX interface (perl-libxml-sax.c).  libxml2 calls the C functions   *)
(* PSax*, which keep a stack of namespaces and a buffer of characters and  *)
(* call the methods of a Perl handler.  One callback of libxml2 may call   *)
(* the handler several times, and any of these calls may die: the rest of  *)
(* the function is then not executed.  So a callback is here a list of     *)
(* instructions, todo, executed one at a time.                             *)
(***************************************************************************)
EXTENDS Naturals, FiniteSets, SequencesExt

CONSTANTS
  StartTags,   \* start tags of the input: [name, prefix, items]
  MaxCalls,    \* bound: callbacks of libxml2 in one parse, end tags not counted
  NULL

Items == UNION {Range(tag.items) : tag \in StartTags}

(* The PmmSAXVector: ns_stack, and charbuf with the places of its texts    *)
Frames  == [defs : Seq(Items), bound : BOOLEAN]
Vectors == [stack : Seq(Frames), charbuf : Seq(Nat)]

(* A start tag is well-formed: no prefix is declared twice in it. *)
ASSUME TagsAssumption ==
  \A tag \in StartTags :
    /\ tag.items \in Seq(Range(tag.items))
    /\ \A i, j \in DOMAIN tag.items :
         /\ tag.items[i].declares => tag.items[i].uri # NULL
         /\ tag.items[i].declares /\ tag.items[j].declares
              /\ tag.items[i].prefix = tag.items[j].prefix => i = j

ASSUME NullAssumption == NULL \notin Vectors

VARIABLES
  mode,     \* what is parsed: a whole document or a balanced chunk
  join,     \* JOIN_CHARACTERS
  status,   \* of the parse
  open,     \* libxml2: the start tags not ended yet
  calls,    \* libxml2: the content it has reported so far
  sax,      \* the PmmSAXVector of the parser context, NULL without one
  todo,     \* what is left of the running callback
  log       \* the methods called on the handler

parser == <<mode, join, open, calls>>
vars   == <<parser, status, sax, todo, log>>

(* An item of a start tag is a declaration (of the default namespace when  *)
(* its prefix is NULL) or an attribute with a prefix.  A frame of ns_stack *)
(* has the declarations of an element; bound says that a prefix in the     *)
(* name was resolved, so that the frame keeps the local name alone.        *)
Declarations(items) ==
  FoldLeft(LAMBDA found, item : IF item.declares THEN Append(found, item) ELSE found, <<>>, items)

Bottom == [defs |-> <<>>, bound |-> FALSE]

Init ==
  /\ mode \in {"document", "chunk"}
  /\ join \in BOOLEAN
  /\ status = "idle"
  /\ open = <<>>
  /\ calls = <<>>
  /\ sax = NULL
  /\ todo = <<>>
  /\ log = <<>>

-----------------------------------------------------------------------------
(* The namespace stack *)

Declaring(stack, prefix) ==
  {i \in DOMAIN stack : \E d \in Range(stack[i].defs) : d.prefix = prefix}

UriOn(frame, prefix) == (CHOOSE d \in Range(frame.defs) : d.prefix = prefix).uri

(* A faulty form: the outermost declaration of the prefix is taken. *)
GetNsMapping_outermost(stack, prefix) ==
  LET declaring == Declaring(stack, prefix)
  IN  IF declaring = {} THEN NULL ELSE UriOn(stack[Min(declaring)], prefix)

(* xmlSearchNs: the declaration of the prefix on the innermost frame that  *)
(* has one.                                                                *)
GetNsMapping(stack, prefix) ==
  LET declaring == Declaring(stack, prefix)
  IN  IF declaring = {} THEN NULL ELSE UriOn(stack[Max(declaring)], prefix)

ExtendNsStack(stack, tag) ==
  Append(stack, [defs  |-> <<>>,
                 bound |-> tag.prefix # NULL /\ GetNsMapping(stack, tag.prefix) # NULL])

AddNamespace(stack, tag, item) ==
  [stack EXCEPT ![Len(stack)] =
     [defs  |-> Append(@.defs, item),
      bound |-> @.bound \/ (tag.prefix # NULL /\ item.prefix = tag.prefix)]]

(* A faulty form: an element without declarations is taken to have none. *)
NarrowNsStack_declaring(stack) ==
  IF Last(stack).defs = <<>> THEN stack ELSE Front(stack)

NarrowNsStack(stack) == Front(stack)

(* An element whose prefix has a mapping is reported under the name that   *)
(* the stack keeps, any other under its whole name.                        *)
GenElement(stack, tag) ==
  LET uri == GetNsMapping(stack, tag.prefix)
  IN  [uri |-> uri, name |-> tag.name,
       cut |-> uri # NULL /\ Last(stack).bound]

(* The attributes are looked up while the start tag is read from left to   *)
(* right: a declaration further right is not on the stack yet.             *)
GenAttributes(stack, items) ==
  [k \in DOMAIN items |->
     LET seen == Declarations(SubSeq(items, 1, k - 1))
     IN  IF items[k].declares THEN NULL
         ELSE GetNsMapping(Append(Front(stack), [defs |-> seen, bound |-> FALSE]),
                           items[k].prefix)]

-----------------------------------------------------------------------------
(* Calling the handler *)

Event(kind) == [event |-> kind]

Mapping(kind, item) == [event |-> kind, prefix |-> item.prefix, uri |-> item.uri]

Characters(texts) == [event |-> "characters", data |-> texts]

StartTag(stack, tag) == [event |-> "start_element", element |-> GenElement(stack, tag),
                         attrs |-> GenAttributes(stack, tag.items)]

EndTag(stack, tag) == [event |-> "end_element", element |-> GenElement(stack, tag)]

(* The function goes on, or the method died and libxml2 is left with it.   *)
(* PSaxExternalSubset does not look whether end_dtd died.                  *)
Call(e) ==
  /\ log' = Append(log, e)
  /\ \/ /\ todo' = Tail(todo)
        /\ UNCHANGED status
     \/ /\ e.event # "end_dtd"
        /\ todo' = <<>>
        /\ status' = "died"

Silently ==
  /\ todo' = Tail(todo)
  /\ UNCHANGED <<status, log>>

Running(instruction) == todo # <<>> /\ Head(todo).do = instruction

(* A faulty form: the buffer keeps what was delivered. *)
Flush_kept ==
  /\ Running("flush")
  /\ IF sax.charbuf = <<>> THEN Silently ELSE Call(Characters(sax.charbuf))
  /\ UNCHANGED <<parser, sax>>

(* PSaxCharactersFlush empties the buffer before it calls the handler. *)
Flush ==
  /\ Running("flush")
  /\ sax' = [sax EXCEPT !.charbuf = <<>>]
  /\ IF sax.charbuf = <<>> THEN Silently ELSE Call(Characters(sax.charbuf))
  /\ UNCHANGED parser

ExtendStack ==
  /\ Running("extend")
  /\ sax' = [sax EXCEPT !.stack = ExtendNsStack(@, Head(todo).tag)]
  /\ Silently
  /\ UNCHANGED parser

(* PmmAddNamespace, for one attribute of PmmGenAttributeHashSV *)
Declare ==
  /\ Running("declare")
  /\ sax' = [sax EXCEPT !.stack = AddNamespace(@, Head(todo).tag, Head(todo).item)]
  /\ Call(Mapping("start_prefix_mapping", Head(todo).item))
  /\ UNCHANGED parser

NarrowStack ==
  /\ Running("narrow")
  /\ sax' = [sax EXCEPT !.stack = NarrowNsStack(@)]
  /\ Silently
  /\ UNCHANGED parser

CallStart ==
  /\ Running("start_element")
  /\ Call(StartTag(sax.stack, Head(todo).tag))
  /\ UNCHANGED <<parser, sax>>

CallEnd ==
  /\ Running("end_element")
  /\ Call(EndTag(sax.stack, Head(todo).tag))
  /\ UNCHANGED <<parser, sax>>

CallMethod ==
  /\ Running("call")
  /\ Call(Head(todo).e)
  /\ UNCHANGED <<parser, sax>>

Execute ==
  \/ Flush
  \/ ExtendStack
  \/ Declare
  \/ NarrowStack
  \/ CallStart
  \/ CallEnd
  \/ CallMethod

-----------------------------------------------------------------------------
(* The callbacks of libxml2, each for the next piece of its input *)

Do(e) == [do |-> "call", e |-> e]
Doing(instruction, tag) == [do |-> instruction, tag |-> tag]

(* A faulty form: the callbacks do not flush. *)
Flushed_never(program) == program

(* Only a context that joins characters has a buffer to flush. *)
Flushed(program) == IF join THEN <<[do |-> "flush"]>> \o program ELSE program

Started == calls # <<>>
HadRoot == \E i \in DOMAIN calls : calls[i].event = "start"
Broken  == Started /\ Last(calls).event = "error"

(* Text and child elements are read inside an element, or in a chunk. *)
InContent == open # <<>> \/ mode = "chunk"

Callback(content, program) ==
  /\ status = "parsing"
  /\ todo = <<>>
  /\ ~Broken
  /\ calls' = Append(calls, content)
  /\ todo' = program
  /\ UNCHANGED <<mode, join, status, log>>

Room == Len(SelectSeq(calls, LAMBDA c : c.event # "end")) < MaxCalls

(* PSaxSetDocumentLocator, then PSaxStartDocument; a chunk has neither. *)
StartDocument ==
  /\ mode = "document" /\ ~Started
  /\ Callback(Event("document"),
              Flushed(<<Do(Event("set_document_locator")), Do(Event("start_document")),
                        Do(Event("xml_decl"))>>))
  /\ UNCHANGED <<open, sax>>

ExternalSubset ==
  /\ Room
  /\ mode = "document" /\ calls = <<Event("document")>>
  /\ Callback(Event("dtd"), <<Do(Event("start_dtd")), Do(Event("end_dtd"))>>)
  /\ UNCHANGED <<open, sax>>

StartElement(tag) ==
  /\ Room
  /\ InContent \/ (Started /\ ~HadRoot)
  /\ LET defs == Declarations(tag.items)
     IN  Callback([event |-> "start", tag |-> tag],
                  Flushed(<<Doing("extend", tag)>>
                          \o [i \in DOMAIN defs |->
                                [do |-> "declare", tag |-> tag, item |-> defs[i]]]
                          \o <<Doing("start_element", tag)>>))
  /\ open' = Append(open, tag)
  /\ UNCHANGED sax

(* A faulty form: the mappings are ended before the element. *)
EndElement_mappingsFirst ==
  /\ open # <<>>
  /\ LET defs == Last(sax.stack).defs
     IN  Callback([event |-> "end", tag |-> Last(open)],
                  Flushed([i \in DOMAIN defs |-> Do(Mapping("end_prefix_mapping", defs[i]))]
                          \o <<Doing("end_element", Last(open)), [do |-> "narrow"]>>))
  /\ open' = Front(open)
  /\ UNCHANGED sax

(* PSaxEndElement; PmmNarrowNsStack ends the mappings of the frame first. *)
EndElement ==
  /\ open # <<>>
  /\ LET defs == Last(sax.stack).defs
     IN  Callback([event |-> "end", tag |-> Last(open)],
                  Flushed(<<Doing("end_element", Last(open))>>
                          \o [i \in DOMAIN defs |->
                                Do(Mapping("end_prefix_mapping", defs[i]))]
                          \o <<[do |-> "narrow"]>>))
  /\ open' = Front(open)
  /\ UNCHANGED sax

(* PSaxCharacters appends to the buffer or calls the handler.  A piece of  *)
(* character data is known by its place in the input.                      *)
Text ==
  /\ Room
  /\ InContent
  /\ LET text == Len(calls) + 1
     IN  /\ Callback([event |-> "text"], IF join THEN <<>> ELSE <<Do(Characters(<<text>>))>>)
         /\ sax' = [sax EXCEPT !.charbuf = IF join THEN Append(@, text) ELSE @]
  /\ UNCHANGED open

CDATABlock ==
  /\ Room
  /\ InContent
  /\ Callback([event |-> "text"],
              Flushed(<<Do(Event("start_cdata")), Do(Characters(<<Len(calls) + 1>>)),
                        Do(Event("end_cdata"))>>))
  /\ UNCHANGED <<open, sax>>

(* PSaxComment and PSaxProcessingInstruction *)
Comment ==
  /\ Room
  /\ InContent \/ Started
  /\ Callback([event |-> "comment"], Flushed(<<Do([event |-> "comment", at |-> Len(calls) + 1])>>))
  /\ UNCHANGED <<open, sax>>

(* What the handler hears of an error: nothing when the structured handler *)
(* of INIT_ERROR_HANDLER takes it, else a call for each that libxml2       *)
(* reports (two at most here).                                             *)
ErrorReports ==
  LET report == Do(Event("fatal_error"))
  IN  {<<>>, <<report>>, <<report, report>>}

(* The input is not well-formed or ends too early: PmmSaxError calls       *)
(* fatal_error without a flush, and libxml2 makes no other callback then.  *)
FatalError ==
  /\ \E reports \in ErrorReports : Callback(Event("error"), reports)
  /\ UNCHANGED <<open, sax>>

-----------------------------------------------------------------------------
(* The parse: XML::LibXML::SAX around _parse_sax_string and its kin *)

(* PmmSAXInitContext *)
InitContext ==
  /\ status = "idle"
  /\ status' = "parsing"
  /\ sax' = [stack |-> <<Bottom>>, charbuf |-> <<>>]
  /\ UNCHANGED <<parser, todo, log>>

Complete == ~Broken /\ open = <<>> /\ (mode = "document" => HadRoot)

(* A faulty form: an error leaves the vector behind. *)
Return_unclosed ==
  /\ status = "parsing"
  /\ todo = <<>>
  /\ Broken
  /\ status' = "failed"
  /\ UNCHANGED <<parser, todo, sax, log>>

(* libxml2 returns and PmmSAXCloseContext drops the vector.  An error is   *)
(* croaked; otherwise SAX.pm ends the document, but never a chunk.         *)
Return ==
  /\ status = "parsing"
  /\ todo = <<>>
  /\ sax' = NULL
  /\ \/ /\ Broken
        /\ status' = "failed"
        /\ UNCHANGED log
     \/ /\ Complete
        /\ status' = "done"
        /\ log' = IF mode = "document" THEN Append(log, Event("end_document")) ELSE log
  /\ UNCHANGED <<parser, todo>>

Next ==
  \/ InitContext
  \/ StartDocument
  \/ ExternalSubset
  \/ \E tag \in StartTags : StartElement(tag)
  \/ EndElement
  \/ Text
  \/ CDATABlock
  \/ Comment
  \/ FatalError
  \/ Execute
  \/ Return

(* A parse is one call of Perl: libxml2 reads on to the end of a finite    *)
(* input, the methods of the handler return or die, and nothing else runs. *)
Spec == Init /\ [][Next]_vars /\ WF_vars(Next)
-----------------------------------------------------------------------------
(* Properties *)

(* Types: the vector of the context is a non-empty stack of declarations   *)
(* and a buffer of texts; it exists exactly while a parse is under way, or *)
(* was left by a handler that died.                                        *)
TypeOK ==
  /\ status \in {"idle", "parsing", "died", "done", "failed"}
  /\ Range(open) \subseteq StartTags
  /\ (sax = NULL) <=> (status \in {"idle", "done", "failed"})
  /\ sax # NULL => /\ sax \in Vectors
                   /\ sax.stack # <<>> /\ Head(sax.stack) = Bottom
                   /\ Range(sax.charbuf) \subseteq DOMAIN calls

(* Between two callbacks the namespace stack has one frame for every open  *)
(* element with exactly its declarations: nothing that a callback pushes   *)
(* (PmmExtendNsStack) is left behind by the end tag (PmmNarrowNsStack).    *)
StackMatchesTags ==
  status = "parsing" /\ todo = <<>> =>
    [i \in 1..Len(sax.stack) - 1 |-> sax.stack[i + 1].defs]
      = [i \in DOMAIN open |-> Declarations(open[i].items)]

(* What a prefix means inside open elements, by the recommendation. *)
Meaning(tags, prefix) ==
  LET declaring == {i \in DOMAIN tags :
                      \E item \in Range(tags[i].items) : item.declares /\ item.prefix = prefix}
  IN  IF declaring = {} THEN NULL
      ELSE (CHOOSE item \in Range(tags[Max(declaring)].items) :
              item.declares /\ item.prefix = prefix).uri

DeclaredLater(tag, k) ==
  \E j \in DOMAIN tag.items :
     j > k /\ tag.items[j].declares /\ tag.items[j].prefix = tag.items[k].prefix

(* A start_element says the namespace that its tag has in the document:    *)
(* the nearest declaration wins, also over the one that was found before   *)
(* the declarations of the tag itself were read; the local name is cut     *)
(* exactly where there is a prefix; and so for the attributes.  It says    *)
(* nothing of an attribute that stands before the declaration of its own   *)
(* prefix in the same tag, which the code looks up outside of the tag.     *)
NamesResolved ==
  log # <<>> /\ Last(log).event = "start_element" /\ status \in {"parsing", "died"} =>
    LET e   == Last(log)
        tag == Last(open)
    IN  todo = <<>> /\ Last(calls).event = "start" =>
          /\ e.element.uri = Meaning(open, tag.prefix)
          /\ e.element.cut <=> tag.prefix # NULL /\ e.element.uri # NULL
          /\ \A k \in DOMAIN tag.items :
               ~tag.items[k].declares /\ ~DeclaredLater(tag, k) =>
                 e.attrs[k] = Meaning(open, tag.items[k].prefix)

(* An automaton that reads the events as a handler must be able to: it     *)
(* keeps the elements that are open, the mappings announced for the next   *)
(* element and those still to be ended after the last one.                 *)
Step(s, e) ==
  LET quiet  == s.ending = {} /\ s.announced = {}
      mapped == [prefix |-> e.prefix, uri |-> e.uri]
  IN  CASE e.event = "start_prefix_mapping" ->
             [s EXCEPT !.announced = @ \cup {mapped},
                       !.ok = @ /\ s.ending = {} /\ mapped \notin s.announced]
        [] e.event = "start_element" ->
             [s EXCEPT !.elements  = Append(@, [e |-> e.element, maps |-> s.announced]),
                       !.announced = {},
                       !.ok        = @ /\ s.ending = {}]
        [] e.event = "end_element" /\ s.elements # <<>> ->
             [s EXCEPT !.elements = Front(@),
                       !.ending   = Last(s.elements).maps,
                       !.ok       = @ /\ quiet /\ Last(s.elements).e = e.element]
        [] e.event = "end_prefix_mapping" ->
             [s EXCEPT !.ending = @ \ {mapped},
                       !.ok     = @ /\ mapped \in s.ending]
        [] e.event = "end_document" ->
             [s EXCEPT !.ok = @ /\ quiet /\ s.elements = <<>>]
        [] e.event = "fatal_error" -> s
        [] OTHER -> [s EXCEPT !.ok = @ /\ quiet /\ e.event # "end_element"]

Reading == [elements |-> <<>>, announced |-> {}, ending |-> {}, ok |-> TRUE]

(* The handler sees a well-formed stream wherever its methods die: tags    *)
(* nest and an end tag has the name and namespace of its start tag, the    *)
(* prefixes of an element are announced right before it and ended right    *)
(* after it, and a document ends when nothing is open.                     *)
StreamWellFormed == FoldLeft(Step, Reading, log).ok

(* The texts and comments that reached the handler, in the order of the    *)
(* events; a joined text counts for all its pieces.                        *)
Delivered ==
  FoldLeft(LAMBDA seen, e : CASE e.event = "characters" -> seen \o e.data
                              [] e.event = "comment"    -> Append(seen, e.at)
                              [] OTHER                  -> seen,
           <<>>, log)

Content ==
  FoldLeft(LAMBDA seen, i : IF calls[i].event \in {"text", "comment"} THEN Append(seen, i) ELSE seen,
           <<>>, [i \in DOMAIN calls |-> i])

(* Joining characters neither drops, repeats nor reorders content: between *)
(* two callbacks, what the handler saw and what is in the buffer is what   *)
(* libxml2 has reported.                                                   *)
TextInOrder ==
  status = "parsing" /\ todo = <<>> =>
    Delivered \o sax.charbuf = Content

Unsuccessful == status \in {"failed", "died"}
AllDelivered == status = "done" /\ Delivered = Content

(* A parse that was started comes to an end, and a document that was       *)
(* parsed without an error has then given all its content to the handler,  *)
(* in order: the joined text is flushed before the parse is over.          *)
TextArrives ==
  status = "parsing" /\ mode = "document" ~> AllDelivered \/ Unsuccessful

(* The same of every successful parse, chunks included: parse_chunk()      *)
(* "generates SAX events from well balanced data" (SAX.pod).               *)
ChunkTextArrives == status = "parsing" ~> AllDelivered \/ Unsuccessful
=============================================================================
