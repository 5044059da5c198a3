--------------------------- MODULE InputCallbacks ---------------------------
(***************************************************************************)
(* The parse functions of LibXML.pm and the package variables of           *)
(* XML::LibXML::InputCallback through which libxml2 calls Perl to match,   *)
(* open, read and close an input.  A callback may die, and it may itself   *)
(* use a parser, so that parses are nested.                                *)
(***************************************************************************)
EXTENDS Parses, SequencesExt

CONSTANTS
  CallbackGroups,   \* sets of match, open, read and close callbacks
  Groups,           \* Groups[p]: those of a parser, first to be asked first
  RefuseInside,     \* an open callback may refuse an URI while an input is open
  MaxInputs         \* bound: inputs opened in one parse

ASSUME GroupsAssumption == Groups \in [Parsers -> Seq(CallbackGroups)]
ASSUME NullAssumption == NULL \notin CallbackGroups

VARIABLES
  busy,         \* busy[p]: _State_ of a parser
  calls,        \* the parses under way, the innermost last
  parses,       \* parses begun so far
  cur,          \* $_CUR_CB
  stack,        \* @_CB_STACK
  globals,      \* @_GLOBAL_CALLBACKS
  depth,        \* $_CB_NESTED_DEPTH
  nested,       \* @_CB_NESTED_STACK
  registered    \* libxml2 has the functions LibXML_input_*

perl == <<cur, stack, globals, depth, nested, registered>>
vars == <<busy, calls, parses, perl>>

Idle == [do |-> "nothing", group |-> NULL]

(* A parse: whether it is a push; how often its function installed the     *)
(* callbacks of the parser, and above which depth; the Perl callback that  *)
(* runs; the groups that opened the inputs, the innermost last, NULL for   *)
(* one that was refused.                                                   *)
Frame(p, push, levels) ==
  [parser |-> p, push |-> push, levels |-> levels, below |-> depth, callback |-> Idle,
   inputs |-> <<>>, opened |-> 0]

Running == calls[Len(calls)]

(* Perl code runs: the main program or a callback of the innermost parse. *)
InPerl == calls # <<>> => Running.callback # Idle

InLibxml == calls # <<>> /\ Running.callback = Idle

InCallback(do) == calls # <<>> /\ Running.callback.do = do

Init ==
  /\ busy = [p \in Parsers |-> FALSE]
  /\ calls = <<>>
  /\ parses = 0
  /\ cur = NULL
  /\ stack = <<>>
  /\ globals = <<>>
  /\ depth = 0
  /\ nested = <<>>
  /\ registered = FALSE

-----------------------------------------------------------------------------
(* XML::LibXML::InputCallback *)

Current == [cur |-> cur, stack |-> stack, globals |-> globals]

Fresh(p) == [cur |-> NULL, stack |-> <<>>, globals |-> Groups[p]]

(* A faulty form: a parse goes on with the open inputs of the one around it. *)
InitCallbacks_same(p, levels) ==
  /\ registered' = TRUE
  /\ depth' = depth + levels
  /\ nested' = nested \o (IF levels = 1 THEN <<Current>> ELSE <<Current, Fresh(p)>>)
  /\ globals' = Groups[p]
  /\ UNCHANGED <<cur, stack>>

(* init_callbacks, once or, by parse_balanced_chunk, twice *)
InitCallbacks(p, levels) ==
  /\ registered' = TRUE
  /\ depth' = depth + levels
  /\ nested' = nested \o (IF levels = 1 THEN <<Current>> ELSE <<Current, Fresh(p)>>)
  /\ cur' = NULL
  /\ stack' = <<>>
  /\ globals' = Groups[p]

(* A faulty form: the innermost of the calls restores what it has saved. *)
CleanupCallbacks_innermost(levels) ==
  LET saved == Last(nested)
  IN  /\ depth' = depth - levels
      /\ nested' = SubSeq(nested, 1, Len(nested) - levels)
      /\ cur' = saved.cur
      /\ stack' = saved.stack
      /\ globals' = saved.globals
      /\ registered' = (depth # levels)

(* A faulty form: libxml2 loses its functions with any parse. *)
CleanupCallbacks_unregister(levels) ==
  LET saved == nested[depth - levels + 1]
  IN  /\ depth' = depth - levels
      /\ nested' = SubSeq(nested, 1, Len(nested) - levels)
      /\ cur' = saved.cur
      /\ stack' = saved.stack
      /\ globals' = saved.globals
      /\ registered' = FALSE

(* cleanup_callbacks, as often: what the first of the calls saved is what  *)
(* stays in the end.                                                       *)
CleanupCallbacks(levels) ==
  LET saved == nested[depth - levels + 1]
  IN  /\ depth' = depth - levels
      /\ nested' = SubSeq(nested, 1, Len(nested) - levels)
      /\ cur' = saved.cur
      /\ stack' = saved.stack
      /\ globals' = saved.globals
      /\ registered' = (depth # levels)

(* A faulty form: the group that is released stays the current one. *)
ShiftStack_current ==
  /\ stack' = IF stack = <<>> THEN <<>> ELSE Tail(stack)
  /\ UNCHANGED <<cur, globals, depth, nested, registered>>

(* shift @_CB_STACK; $_CUR_CB = $_CB_STACK[0] *)
ShiftStack ==
  /\ stack' = IF stack = <<>> THEN <<>> ELSE Tail(stack)
  /\ cur' = IF stack' = <<>> THEN NULL ELSE Head(stack')
  /\ UNCHANGED <<globals, depth, nested, registered>>

-----------------------------------------------------------------------------
(* A parse begins *)

Begin(p, push, levels) ==
  /\ InPerl
  /\ Len(calls) < MaxNesting
  /\ parses < MaxParses
  /\ parses' = parses + 1
  /\ calls' = Append(calls, Frame(p, push, levels))
  /\ InitCallbacks(p, levels)

(* parse_string and its kin; a parser that is busy croaks. *)
Parse(p) ==
  /\ ~busy[p]
  /\ busy' = [busy EXCEPT ![p] = TRUE]
  /\ Begin(p, FALSE, 1)

(* parse_balanced_chunk installs the callbacks, and so does the function   *)
(* parse_xml_chunk that it calls.                                          *)
ParseBalancedChunk(p) ==
  /\ ~busy[p]
  /\ busy' = [busy EXCEPT ![p] = TRUE]
  /\ Begin(p, FALSE, 2)

(* push does not look at _State_.  A program does not push to a parser     *)
(* inside a callback of a push to it.                                      *)
Push(p) ==
  /\ \A k \in DOMAIN calls : calls[k].push => calls[k].parser # p
  /\ Begin(p, TRUE, 1)
  /\ UNCHANGED busy

-----------------------------------------------------------------------------
(* A parse goes on *)

SetRunning(frame) == calls' = [calls EXCEPT ![Len(calls)] = frame]

Enter(do, group) ==
  SetRunning([Running EXCEPT !.callback = [do |-> do, group |-> group]])

Continue == SetRunning([Running EXCEPT !.callback = Idle])

(* libxml2 looks for a URI: _callback_match asks the groups in their order *)
(* and is now at the one that will answer 1.  An input that was refused    *)
(* names no URI: there is nothing to read in it.                           *)
Match ==
  /\ InLibxml
  /\ registered
  /\ Running.inputs # <<>> => Last(Running.inputs) # NULL
  /\ Running.opened < MaxInputs
  /\ \E i \in DOMAIN globals : Enter("match", globals[i])
  /\ UNCHANGED <<busy, parses, perl>>

(* The match callback returns, and libxml2 opens the input. *)
Matched ==
  /\ InCallback("match")
  /\ cur' = Running.callback.group
  /\ stack' = <<cur'>> \o stack
  /\ Enter("open", cur')
  /\ UNCHANGED <<busy, parses, globals, depth, nested, registered>>

Opened(group) ==
  SetRunning([Running EXCEPT !.callback = Idle,
                             !.inputs = Append(@, group),
                             !.opened = @ + 1])

OpenSucceeds ==
  /\ InCallback("open")
  /\ Opened(Running.callback.group)
  /\ UNCHANGED <<busy, parses, perl>>

(* The open callback returns 0: _callback_open takes the group off the     *)
(* stack, but LibXML_input_open gives the 0 to libxml2 as an open input.   *)
OpenRefused ==
  /\ InCallback("open")
  /\ Running.inputs = <<>> \/ RefuseInside
  /\ Opened(NULL)
  /\ ShiftStack
  /\ UNCHANGED <<busy, parses>>

(* Reading goes to the current group, whichever input libxml2 reads. *)
Read ==
  /\ InLibxml
  /\ Running.inputs # <<>>
  /\ cur # NULL
  /\ Enter("read", cur)
  /\ UNCHANGED <<busy, parses, perl>>

ReadReturns ==
  /\ InCallback("read")
  /\ Continue
  /\ UNCHANGED <<busy, parses, perl>>

Close ==
  /\ InLibxml
  /\ Running.inputs # <<>>
  /\ IF cur = NULL
     THEN SetRunning([Running EXCEPT !.inputs = Front(@)])
     ELSE Enter("close", cur)
  /\ UNCHANGED <<busy, parses, perl>>

CloseReturns ==
  /\ InCallback("close")
  /\ SetRunning([Running EXCEPT !.callback = Idle, !.inputs = Front(@)])
  /\ ShiftStack
  /\ UNCHANGED <<busy, parses>>

(* libxml2 calls Perl otherwise: a SAX handler, a loader of entities. *)
Handler ==
  /\ InLibxml
  /\ Enter("handler", NULL)
  /\ UNCHANGED <<busy, parses, perl>>

HandlerReturns ==
  /\ InCallback("handler")
  /\ Continue
  /\ UNCHANGED <<busy, parses, perl>>

-----------------------------------------------------------------------------
(* A parse ends *)

(* A faulty form: _State_ is not reset. *)
Leave_busy ==
  /\ calls' = Front(calls)
  /\ CleanupCallbacks(Running.levels)
  /\ UNCHANGED <<busy, parses>>

(* A faulty form: a push resets it too. *)
Leave_reset ==
  /\ calls' = Front(calls)
  /\ busy' = [busy EXCEPT ![Running.parser] = FALSE]
  /\ CleanupCallbacks(Running.levels)
  /\ UNCHANGED parses

(* Whether the parse function returns or croaks, it resets _State_ and     *)
(* takes its callbacks back.                                               *)
Leave ==
  /\ calls' = Front(calls)
  /\ busy' = IF Running.push THEN busy ELSE [busy EXCEPT ![Running.parser] = FALSE]
  /\ CleanupCallbacks(Running.levels)
  /\ UNCHANGED parses

Return ==
  /\ InLibxml
  /\ Running.inputs = <<>>
  /\ Leave

(* A faulty form: the exception also jumps over the parse function. *)
Die_uncaught ==
  /\ calls # <<>> /\ ~InLibxml
  /\ calls' = Front(calls)
  /\ busy' = [busy EXCEPT ![Running.parser] = FALSE]
  /\ UNCHANGED <<parses, perl>>

(* A callback dies: the exception jumps over libxml2 and the C code into   *)
(* the eval of the parse function, which throws it again.  The callback    *)
(* that called this function may go on, or die in turn.                    *)
Die ==
  /\ calls # <<>> /\ ~InLibxml
  /\ Leave

CallbackEnds ==
  \/ Matched
  \/ OpenSucceeds
  \/ OpenRefused
  \/ ReadReturns
  \/ CloseReturns
  \/ HandlerReturns
  \/ Die

Next ==
  \/ \E p \in Parsers : Parse(p) \/ ParseBalancedChunk(p) \/ Push(p)
  \/ Match
  \/ Read
  \/ Close
  \/ Handler
  \/ CallbackEnds
  \/ Return

Spec == Init /\ [][Next]_vars

(* A callback returns or dies.  An input has an end: libxml2 does not read *)
(* on for ever, it closes the input, and when none is left it returns.     *)
Fairness ==
  /\ WF_vars(CallbackEnds)
  /\ SF_vars(Close)
  /\ SF_vars(Return)

FairSpec == Spec /\ Fairness

-----------------------------------------------------------------------------
(* Properties *)

Dos == {"match", "open", "read", "close", "handler"}

(* Types: the package variables hold groups, the current one is the first  *)
(* on the stack, and a parse under another has a callback running, in      *)
(* which the other was started.                                            *)
TypeOK ==
  /\ busy \in [Parsers -> BOOLEAN]
  /\ depth \in Nat
  /\ registered \in BOOLEAN
  /\ \A k \in DOMAIN calls :
       /\ calls[k].parser \in Parsers
       /\ calls[k].levels \in {1, 2}
       /\ k < Len(calls) => calls[k].callback.do \in Dos
       /\ Range(calls[k].inputs) \subseteq CallbackGroups \cup {NULL}
  /\ {cur} \cup Range(stack) \cup Range(globals) \subseteq CallbackGroups \cup {NULL}
  /\ cur = IF stack = <<>> THEN NULL ELSE Head(stack)

(* $_CB_NESTED_DEPTH and @_CB_NESTED_STACK agree and are exactly what the  *)
(* parses under way have installed, so that the outermost parse and no     *)
(* other gives libxml2 its functions and takes them back, also when        *)
(* callbacks die at any place of any of the parses.                        *)
DepthExact ==
  /\ depth = Len(nested)
  /\ registered <=> depth > 0
  /\ depth = IF calls = <<>> THEN 0 ELSE Running.below + Running.levels
  /\ \A k \in DOMAIN calls :
       calls[k].below = IF k = 1 THEN 0 ELSE calls[k - 1].below + calls[k - 1].levels

(* The callbacks of each parse: the variables for the innermost, what the  *)
(* next one saved for any other.                                           *)
Scope(k) ==
  LET s == IF k = Len(calls) THEN Current ELSE nested[calls[k + 1].below + 1]
  IN  [groups |-> s.globals, serving |-> s.stack]

(* The groups that opened the open inputs of a parse, the innermost first. *)
(* An input that was refused has none, and is the only one.                *)
Openers(f) ==
  LET opening == IF f.callback.do = "open" THEN <<f.callback.group>> ELSE <<>>
      open    == IF f.inputs = <<NULL>> THEN <<>> ELSE f.inputs
  IN  opening \o Reverse(open)

(* Every parse has the callbacks of its own parser, also after parses that *)
(* ran in its callbacks, and the groups on its stack are those that opened *)
(* its open inputs, the innermost first: none is left over, lost or taken  *)
(* from another parse.                                                     *)
ScopesExact ==
  \A k \in DOMAIN calls :
    Scope(k) = [groups |-> Groups[calls[k].parser], serving |-> Openers(calls[k])]

(* libxml2 reads and closes an input through the group that opened it. *)
ReadByOpener ==
  calls # <<>> /\ Running.callback.do \in {"read", "close"} =>
    Running.callback.group = Last(Running.inputs)

(* "parse already in progress" is said of a parser exactly while a parse   *)
(* function of it runs, and no parser is in two of them.                   *)
BusyExact ==
  /\ \A p \in Parsers :
       busy[p] <=> \E k \in DOMAIN calls : calls[k].parser = p /\ ~calls[k].push
  /\ \A j, k \in DOMAIN calls :
       calls[j].parser = calls[k].parser /\ calls[j].push = calls[k].push => j = k

(* When no parse is under way nothing is left of the callbacks of any. *)
NothingLeft ==
  calls = <<>> => cur = NULL /\ stack = <<>> /\ globals = <<>>

(* A parser does not stay busy: whatever its callbacks do, its parse       *)
(* function ends and the parser can be used again.                         *)
ParsesEnd ==
  \A p \in Parsers : busy[p] ~> ~busy[p]

CallScopes == [k \in DOMAIN calls |-> Scope(k)]

(* The package variables implement a scope of callbacks for each parse. *)
Scopes ==
  INSTANCE CallbackScopes WITH
    GroupLists <- {Groups[p] : p \in Parsers},
    scopes     <- CallScopes

ImplementsScopes == Scopes!Spec
=============================================================================
