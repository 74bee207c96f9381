-------------------------------- MODULE Texts --------------------------------
(***************************************************************************)
(* Holders of texts, fonts and symbols.                                    *)
(***************************************************************************)
EXTENDS Statements, TLC

\* A copy of the text goes to the caller.
Clipboard ==
  [create   |-> Block,
   set_text |-> Clear("text") \o New("text"),
   get_text |-> IfSet("text", Maybe(Fails({})) \o Use("text")),
   clear    |-> Clear("text"),
   destroy  |-> Release("text") \o Unblock]

Csp       == Owner(Copies)
CodeBlock == Vector

\* An entry is three copies; those that are there are freed when one fails.
I18n ==
  Owner(New("it") \o NewElse("copy", {"it"}) \o NewElse("buffer", {"it", "copy"})
          \o Add("items", "it") \o Add("items", "copy") \o Add("items", "buffer"))

StateRestoration ==
  [create       |-> Block,
   set_scene_id |-> Clear("scene_id") \o New("scene_id"),
   destroy      |-> Release("scene_id") \o Unblock]

\* The URI that is encoded is a copy of the router's, as is the blob, which
\* goes to the caller.
StateEncoding ==
  [create |-> Block,
   encode |-> New("copy") \o Maybe(Maybe(Fails({}))) \o Free("copy"),
   destroy |-> Unblock]

StringT ==
  [create  |-> << >>,
   append  |-> Maybe(Grow("data") \o Use("data")),
   destroy |-> Clear("data")]

Minimap ==
  [create |-> Block, set_text |-> Clear("text") \o New("text"),
   destroy |-> Release("text") \o Unblock]

\* The fonts that stand in for others are freed with the primary one.
Typography ==
  [create           |-> Block \o NewElse("array", {"self"}) \o Take("room"),
   set_primary_font |-> New("it") \o Release("primary") \o Move("primary", "it")
                          \o IfSet("items", Use("items")),
   add_fallback     |-> New("it") \o EarlyGrow("array", {"it"}) \o Use("room")
                          \o Add("items", "it") \o IfSet("primary", Use("primary")),
   destroy          |-> ReleaseAll(<<"primary", "items">>) \o Drop("room") \o Free("array")
                          \o Unblock]

SystemFonts ==
  [create  |-> Block \o New("text") \o New("display") \o New("compact") \o New("mono")
                 \o New("ny"),
   destroy |-> ReleaseAll(<<"text", "display", "compact", "mono", "ny">>) \o Unblock]

Symbols == Held

\* A symbol that was asked for: nothing frees it.
SymbolNode ==
  [create      |-> Block \o NewElse("name", {"self"}),
   apply_style |-> Use("self") \o Clear("colors") \o Maybe(New("colors")),
   destroy     |-> << >>]

\* The tree of a text: the results of the two helpers are not read.
MdNode ==
  [create  |-> Block \o Try("it", Maybe(Try("contents", << >>))) \o Maybe(Use("it"))
                 \o IfSet("it", Try("array", Add("items", "it"))),
   destroy |-> ReleaseAll(<<"contents", "items", "array">>) \o Unblock]

\* The spans that a parse gives to its caller; when the array cannot grow it is
\* NULL, and written to.
SyntaxSpans ==
  [create  |-> Block \o Maybe(Move("copy", "self") \o Try("self", Free("copy")) \o Use("self")),
   destroy |-> Release("self")]

Texts ==
  [Clipboard |-> Clipboard, Csp |-> Csp, CodeBlock |-> CodeBlock, I18n |-> I18n,
   StateRestoration |-> StateRestoration, StateEncoding |-> StateEncoding,
   StringT |-> StringT, Minimap |-> Minimap, Typography |-> Typography,
   SystemFonts |-> SystemFonts, Symbols |-> Symbols, SymbolNode |-> SymbolNode,
   MdNode |-> MdNode, SyntaxSpans |-> SyntaxSpans]

\* The copy of the URI is lost when the blob cannot be allocated, the fonts that
\* are there when one fails, each symbol when the symbols are destroyed, and
\* what a parse had built.
TextFaults ==
  {<<"StateEncoding", "leaked", "encode">>, <<"Typography", "misused", "add_fallback">>,
   <<"SystemFonts", "leaked", "create">>, <<"SymbolNode", "leaked", "destroy">>,
   <<"MdNode", "leaked", "create">>, <<"MdNode", "misused", "create">>,
   <<"SyntaxSpans", "leaked", "create">>, <<"SyntaxSpans", "misused", "create">>}
=============================================================================
