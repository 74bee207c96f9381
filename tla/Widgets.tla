------------------------------- MODULE Widgets -------------------------------
(***************************************************************************)
(* The controls of src/widgets: what their calls do with memory.           *)
(***************************************************************************)
EXTENDS Statements, TLC

\* A control that is one block.
Plain == [create |-> Block, destroy |-> Unblock]

Editable ==
  [create      |-> Block \o NewElse("text", {"self"}),
   insert_text |-> Maybe(Maybe(New("grown") \o Free("text") \o Move("text", "grown"))
                         \o Use("text")),
   destroy     |-> Release("text") \o Unblock]

Menu ==
  [create   |-> Block,
   add_item |-> Grow("array") \o Use("array") \o Keep("items"),
   destroy  |-> IfSet("array", Release("items") \o Free("array")) \o Unblock]

\* An item is freed by the menu that it was added to.
MenuItem ==
  [create  |-> Block \o New("title") \o Maybe(New("symbol")) \o Maybe(Take("child")),
   destroy |-> ReleaseAll(<<"title", "symbol", "child">>) \o Unblock]

SearchController ==
  [create          |-> Block,
   set_text        |-> Clear("text") \o Maybe(New("text")),
   add_scope       |-> New("grown") \o Release("scopes") \o Move("scopes", "grown")
                         \o New("it") \o Add("titles", "it"),
   resolve_metrics |-> IfSet("text", Use("text")),
   set_suggestions |-> IfSet("suggestions", Drop("texts") \o Drop("suggestions"))
                         \o Maybe(New("buffer") \o New("it") \o Move("texts", "it")
                                    \o Move("suggestions", "buffer")),
   destroy         |-> Release("text") \o IfSet("scopes", Free("titles") \o Free("scopes"))
                         \o IfSet("suggestions", Free("texts") \o Free("suggestions"))
                         \o Unblock]

\* The three strings of a tab are written into the slot behind the last tab,
\* which is counted when all of them are there.
TabBar ==
  [create  |-> Block,
   add_tab |-> Grow("tabs") \o Use("tabs") \o New("it") \o New("copy") \o New("buffer")
                 \o Add("strings", "it") \o Add("strings", "copy") \o Add("strings", "buffer"),
   destroy |-> IfSet("tabs", Release("strings") \o Free("tabs")) \o Unblock]

TextField ==
  [create          |-> Block \o NewElse("text", {"self"}),
   insert_text     |-> Maybe(Maybe(New("grown") \o Free("text") \o Move("text", "grown"))
                             \o Use("text")),
   delete_backward |-> Maybe(Use("text")),
   destroy         |-> Release("text") \o Unblock]

NavBar == Plain
RangeSlider == Plain
SelectUi == Plain
SystemButton == Plain
Toggle == Plain
RichTextView == Plain

Widgets ==
  [Editable |-> Editable, Menu |-> Menu, MenuItem |-> MenuItem,
   SearchController |-> SearchController, TabBar |-> TabBar, TextField |-> TextField,
   NavBar |-> NavBar, RangeSlider |-> RangeSlider, SelectUi |-> SelectUi,
   SystemButton |-> SystemButton, Toggle |-> Toggle, RichTextView |-> RichTextView]

\* An item whose title or symbol cannot be copied is left behind; so are the
\* suggestions that were copied before the one that fails, and the strings of
\* a tab.
WidgetFaults ==
  {<<"MenuItem", "leaked", "create">>,
   <<"SearchController", "leaked", "set_suggestions">>,
   <<"TabBar", "leaked", "add_tab">>}
=============================================================================
