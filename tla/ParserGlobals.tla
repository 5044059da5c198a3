--------------------------- MODULE ParserGlobals ---------------------------
(***************************************************************************)
(* The parse functions of LibXML.xs and the globals of libxml2 that they   *)
(* set and restore: the error handlers and the external entity loader; and *)
(* the context of the push interface, which outlives the function.  Perl   *)
(* code that libxml2 calls may die, which jumps over the rest of the       *)
(* function, or may use a parser itself.  (InputCallbacks has the          *)
(* variables of LibXML.pm; the two share nothing but the calls.  What has  *)
(* a name there too has it here with Xs.)                                  *)
(***************************************************************************)
EXTENDS Parses, SequencesExt

CONSTANTS
  NoNet,         \* the parsers with the option no_network
  Handling,      \* the parsers with the option ext_ent_handler
  SaxParsers     \* the parsers with a SAX handler

Loaders  == {"default", "nonet", "perl"}
Contexts == {"sound", "broken"}   \* broken: not wellFormed

(* The functions of the push interface; those that set _State_, so that the *)
(* parser is taken; and those that do not rely on saved_error alone.       *)
Pushing  == {"push", "end_push", "end_sax_push"}
Taking   == {"parse", "sax", "chunk"}
Checking == {"chunk", "xinclude", "push", "end_push"}

ASSUME NestingAssumption == MaxNesting \in Nat /\ NULL \notin 1..MaxNesting
ASSUME LoadersAssumption == NULL \notin Loaders \cup Contexts

VARIABLES
  context,     \* context[p]: CONTEXT, the parser context of the push interface
  xsCalls,     \* the functions of LibXML.xs under way, the innermost last
  xsParses,    \* parses begun so far
  sink,        \* the call to whose saved_error libxml2 reports errors
  loader,      \* the external entity loader of libxml2
  oldLoader,   \* LibXML_old_ext_ent_loader
  func,        \* EXTERNAL_ENTITY_LOADER_FUNC is set
  oldGlobal,   \* LibXML_old_ext_ent_loader_global
  thrown       \* what a call made of the errors it met, in the state in
               \* which it has just returned (not of those of a find)

loaders == <<loader, oldLoader, func, oldGlobal>>
xsVars  == <<context, xsCalls, xsParses, sink, loaders, thrown>>

(* A call: the function and its parser, whether libxml2 has called Perl,   *)
(* whether another function that sets the handlers has run in it, whether  *)
(* one has died in it, whether it has met an error, and whether the error  *)
(* is in its saved_error.                                                  *)
XsFrame(p, function) ==
  [parser |-> p, function |-> function, inPerl |-> FALSE, disturbed |-> FALSE,
   abandoned |-> FALSE, broken |-> FALSE, saved |-> FALSE]

XsRunning == xsCalls[Len(xsCalls)]

XsInPerl   == xsCalls # <<>> => XsRunning.inPerl
XsInLibxml == xsCalls # <<>> /\ ~XsRunning.inPerl

XsInit ==
  /\ context = [p \in Parsers |-> NULL]
  /\ xsCalls = <<>>
  /\ xsParses = 0
  /\ sink = NULL
  /\ loader = "default"
  /\ oldLoader = NULL
  /\ func = FALSE
  /\ oldGlobal = NULL
  /\ thrown = NULL

-----------------------------------------------------------------------------
(* The external entity loader *)

(* A faulty form: the loader of the program gives way. *)
InitLoader_anyway(p) ==
  IF p \in Handling \cup NoNet
  THEN /\ oldLoader' = loader
       /\ loader' = IF p \in Handling THEN "perl" ELSE "nonet"
       /\ UNCHANGED <<func, oldGlobal>>
  ELSE UNCHANGED loaders

(* LibXML_init_parser *)
InitLoader(p) ==
  IF ~func /\ p \in Handling \cup NoNet
  THEN /\ oldLoader' = loader
       /\ loader' = IF p \in Handling THEN "perl" ELSE "nonet"
       /\ UNCHANGED <<func, oldGlobal>>
  ELSE UNCHANGED loaders

(* LibXML_cleanup_parser *)
CleanupLoader ==
  IF ~func /\ oldLoader # NULL
  THEN /\ loader' = oldLoader
       /\ oldLoader' = NULL
       /\ UNCHANGED <<func, oldGlobal>>
  ELSE UNCHANGED loaders

(* XML::LibXML::externalEntityLoader with a function *)
SetLoader ==
  /\ XsInPerl
  /\ func' = TRUE
  /\ IF oldGlobal = NULL
     THEN oldGlobal' = loader /\ loader' = "perl"
     ELSE UNCHANGED <<oldGlobal, loader>>
  /\ UNCHANGED <<context, xsCalls, xsParses, sink, oldLoader>>
  /\ thrown' = NULL

(* ... and with undef *)
UnsetLoader ==
  /\ XsInPerl
  /\ func' = FALSE
  /\ IF oldGlobal # NULL
     THEN loader' = oldGlobal /\ oldGlobal' = NULL
     ELSE UNCHANGED <<oldGlobal, loader>>
  /\ UNCHANGED <<context, xsCalls, xsParses, sink, oldLoader>>
  /\ thrown' = NULL

-----------------------------------------------------------------------------
(* A function begins *)

(* The calls below the new one are disturbed: it will reset the handlers. *)
Disturbed == [k \in DOMAIN xsCalls |-> [xsCalls[k] EXCEPT !.disturbed = TRUE]]

(* A faulty form: handlers that are set already are kept. *)
XsBegin_keepsHandlers(p, function) ==
  /\ XsInPerl
  /\ Len(xsCalls) < MaxNesting
  /\ xsParses < MaxParses
  /\ xsParses' = xsParses + 1
  /\ xsCalls' = Append(Disturbed, XsFrame(p, function))
  /\ sink' = IF sink = NULL THEN Len(xsCalls) + 1 ELSE sink
  /\ thrown' = NULL

(* INIT_ERROR_HANDLER *)
XsBegin(p, function) ==
  /\ XsInPerl
  /\ Len(xsCalls) < MaxNesting
  /\ xsParses < MaxParses
  /\ xsParses' = xsParses + 1
  /\ xsCalls' = Append(Disturbed, XsFrame(p, function))
  /\ sink' = Len(xsCalls) + 1
  /\ thrown' = NULL

(* A function of a parser, which LibXML.pm does not begin in another of it *)
(* while _State_ is set *)
XsBeginParse(p, function) ==
  /\ function \in Taking =>
       \A k \in DOMAIN xsCalls : xsCalls[k].function \in Taking => xsCalls[k].parser # p
  /\ XsBegin(p, function)
  /\ InitLoader(p)
  /\ UNCHANGED context

(* _parse_string, _parse_fh, _parse_file, and those of HTML, which a SAX   *)
(* handler does not concern *)
XsParse(p) == XsBeginParse(p, "parse")

(* _parse_sax_string, _parse_sax_fh, _parse_sax_file, _parse_sax_xml_chunk *)
XsParseSax(p) == p \in SaxParsers /\ XsBeginParse(p, "sax")

(* _parse_xml_chunk *)
XsParseChunk(p) == p \notin SaxParsers /\ XsBeginParse(p, "chunk")

(* _processXIncludes *)
XsProcessXIncludes(p) == XsBeginParse(p, "xinclude")

(* The functions of nodes that set the error handlers only: _find, that of *)
(* an XPathContext, toStringC14N.  Of the others that do so, XPath is the  *)
(* one that calls Perl code.                                               *)
XsFind ==
  /\ XsBegin(NULL, "find")
  /\ UNCHANGED <<context, loaders>>

(* A program does not use the context of a parser inside a callback of a   *)
(* push to it.                                                             *)
InUse(p) == \E k \in DOMAIN xsCalls : xsCalls[k].parser = p /\ xsCalls[k].function \in Pushing

(* _start_push sets the loader and restores what it saved, or, if it saved *)
(* nothing, what a parse around it had saved.                              *)
StartPushLoader(p) ==
  IF p \in Handling \cup NoNet
  THEN /\ oldLoader' = IF func THEN oldLoader ELSE NULL
       /\ UNCHANGED <<loader, func, oldGlobal>>
  ELSE CleanupLoader

(* init_push drops the context of an earlier document. *)
StartPush(p) ==
  /\ XsInPerl
  /\ ~InUse(p)
  /\ context' = [context EXCEPT ![p] = "sound"]
  /\ sink' = NULL
  /\ StartPushLoader(p)
  /\ xsCalls' = Disturbed
  /\ thrown' = NULL
  /\ UNCHANGED xsParses

(* A faulty form: the context is not kept for the next chunk. *)
XsPush_contextless(p) ==
  /\ ~InUse(p)
  /\ XsBegin(p, "push")
  /\ InitLoader(p)
  /\ UNCHANGED context

(* push makes a context first if there is none. *)
XsPush(p) ==
  /\ ~InUse(p)
  /\ context' = [context EXCEPT ![p] = IF @ = NULL THEN "sound" ELSE @]
  /\ XsBegin(p, "push")
  /\ IF context[p] = NULL /\ p \notin Handling \cup NoNet
     THEN CleanupLoader
     ELSE InitLoader(p)

(* finish_push: _end_sax_push or _end_push *)
EndPush(p) ==
  /\ ~InUse(p)
  /\ context[p] # NULL
  /\ XsBegin(p, IF p \in SaxParsers THEN "end_sax_push" ELSE "end_push")
  /\ InitLoader(p)
  /\ UNCHANGED context

-----------------------------------------------------------------------------
(* A function goes on and ends *)

XsSetRunning(frame) == xsCalls' = [xsCalls EXCEPT ![Len(xsCalls)] = frame]

CallPerl ==
  /\ XsInLibxml
  /\ XsSetRunning([XsRunning EXCEPT !.inPerl = TRUE])
  /\ UNCHANGED <<context, xsParses, sink, loaders>>
  /\ thrown' = NULL

PerlReturns ==
  /\ xsCalls # <<>> /\ XsRunning.inPerl
  /\ XsSetRunning([XsRunning EXCEPT !.inPerl = FALSE])
  /\ UNCHANGED <<context, xsParses, sink, loaders>>
  /\ thrown' = NULL

(* The input is not what it should be: wellFormed of the context that      *)
(* libxml2 parses with, or that of a push, of which earlier chunks decide  *)
IllFormed ==
  XsRunning.broken \/ (XsRunning.function \in Pushing /\ context[XsRunning.parser] = "broken")

(* A faulty form: PmmSaxError only calls the handler. *)
Saved_unsaved == {saved \in BOOLEAN : saved <=> sink # NULL /\ sink = Len(xsCalls)}

(* Whether an error comes to saved_error: libxml2 reports it to the        *)
(* structured handler, and without one to the handler of the context.      *)
(* That of SAX, PmmSaxError, saves it itself: in the saved_error of        *)
(* _parse_sax_..., but for a push in that of _start_push, by now freed,    *)
(* which may be anything.                                                  *)
Saved ==
  {saved \in BOOLEAN :
     /\ sink # NULL => (saved <=> sink = Len(xsCalls))
     /\ sink = NULL /\ XsRunning.function = "sax" => saved
     /\ sink = NULL /\ saved =>
          \/ XsRunning.function = "sax"
          \/ XsRunning.function \in Pushing /\ XsRunning.parser \in SaxParsers}

(* libxml2 finds an error in the input, and parses no further. *)
Error ==
  /\ XsInLibxml
  /\ ~IllFormed
  /\ \E saved \in Saved : XsSetRunning([XsRunning EXCEPT !.broken = TRUE, !.saved = saved])
  /\ context' = IF XsRunning.function \in Pushing
                THEN [context EXCEPT ![XsRunning.parser] = "broken"]
                ELSE context
  /\ UNCHANGED <<xsParses, sink, loaders>>
  /\ thrown' = NULL

(* finish_push deletes the context however it ends. *)
ContextAfter ==
  IF XsRunning.function \in {"end_push", "end_sax_push"}
  THEN [context EXCEPT ![XsRunning.parser] = NULL]
  ELSE context

(* REPORT_ERROR, then what the function makes of an ill-formed input: it   *)
(* croaks in any case if it checks, and returns if not.                    *)
Outcome ==
  [function  |-> XsRunning.function,
   met       |-> XsRunning.broken,
   ill       |-> IllFormed,
   disturbed |-> XsRunning.disturbed,
   abandoned |-> XsRunning.abandoned,
   croaked   |-> XsRunning.saved \/ (XsRunning.function \in Checking /\ IllFormed)]

(* LibXML_cleanup_parser, CLEANUP_ERROR_HANDLER and REPORT_ERROR *)
XsReturn ==
  /\ XsInLibxml
  /\ IF XsRunning.function = "find" THEN UNCHANGED loaders ELSE CleanupLoader
  /\ sink' = NULL
  /\ xsCalls' = Front(xsCalls)
  /\ context' = ContextAfter
  /\ thrown' = IF XsRunning.function = "find" THEN NULL ELSE Outcome
  /\ UNCHANGED xsParses

(* The Perl code dies: nothing that the function has set is restored, and  *)
(* errors of the call around it go to a saved_error that is no more.       *)
XsDie ==
  /\ xsCalls # <<>> /\ XsRunning.inPerl
  /\ xsCalls' = [k \in 1..(Len(xsCalls) - 1) |->
                   [xsCalls[k] EXCEPT !.abandoned = @ \/ k = Len(xsCalls) - 1]]
  /\ context' = ContextAfter
  /\ thrown' = NULL
  /\ UNCHANGED <<xsParses, sink, loaders>>

XsNext ==
  \/ \E p \in Parsers :
       \/ XsParse(p) \/ XsParseSax(p) \/ XsParseChunk(p) \/ XsProcessXIncludes(p)
       \/ StartPush(p) \/ XsPush(p) \/ EndPush(p)
  \/ XsFind
  \/ SetLoader
  \/ UnsetLoader
  \/ CallPerl
  \/ PerlReturns
  \/ Error
  \/ XsReturn
  \/ XsDie

XsSpec == XsInit /\ [][XsNext]_xsVars

-----------------------------------------------------------------------------
(* Properties *)

(* Types *)
XsTypeOK ==
  /\ context \in [Parsers -> Contexts \cup {NULL}]
  /\ Len(xsCalls) <= MaxNesting
  /\ \A k \in DOMAIN xsCalls :
       /\ xsCalls[k].parser \in Parsers \cup {NULL}
       /\ k < Len(xsCalls) => xsCalls[k].inPerl /\ xsCalls[k].disturbed
       /\ xsCalls[k].function \in Pushing => context[xsCalls[k].parser] # NULL
  /\ sink \in 1..MaxNesting \cup {NULL}
  /\ loader \in Loaders
  /\ {oldLoader, oldGlobal} \subseteq Loaders \cup {NULL}

(* A loader that the program has set for all parsers stays in force until  *)
(* the program takes it back, whichever parses with their own idea of a    *)
(* loader begin, end or die in the meantime.                               *)
GlobalLoaderStays ==
  func => loader = "perl"

(* libxml2 never reports an error to a parse further out than the one that *)
(* meets it: to that one, to none, or to one that is over.                 *)
NoErrorFurtherOut ==
  sink # NULL => sink >= Len(xsCalls)

(* An error in the input becomes an exception                              *)
(*   - of any function, if no other that sets the handlers has run in a    *)
(*     callback of it, whatever earlier ones have left when they died;     *)
(*   - of _parse_sax_..., also if others have, unless one of them has died;*)
(*   - of _parse_xml_chunk, _processXIncludes, _push and _end_push always, *)
(*     and of the last two also if an earlier chunk had the error.         *)
UndisturbedErrorsThrown ==
  thrown # NULL =>
    /\ thrown.met /\ ~thrown.disturbed => thrown.croaked
    /\ thrown.met /\ thrown.function = "sax" /\ ~thrown.abandoned => thrown.croaked
    /\ thrown.ill /\ thrown.function \in Checking => thrown.croaked

(* Of the DOM parse functions without the condition: "All of the functions *)
(* listed below will throw an exception if the document is invalid"        *)
(* (Parser.pod).                                                           *)
ErrorsThrown ==
  thrown # NULL /\ thrown.function = "parse" /\ thrown.met => thrown.croaked
=============================================================================
