------------------------------- MODULE Inputs -------------------------------
(***************************************************************************)
(* Pickers, lists, collections and commands of src/.                       *)
(***************************************************************************)
EXTENDS Statements, TLC

\* The new items of a picker: an array, then a copy of each text.
NewItems == New("buffer") \o New("it") \o Move("texts", "it") \o Move("items", "buffer")

\* The items are freed, and those that are given are copied.
WheelPicker ==
  [create    |-> Block,
   set_items |-> IfSet("items", Use("items") \o Drop("texts") \o Drop("items"))
                   \o Maybe(NewItems),
   use       |-> Use("self"),
   destroy   |-> IfSet("items", Use("items") \o Free("texts") \o Free("items")) \o Unblock]

\* The same, but for the pointer to the array that was freed.
SegmentedControl ==
  [create       |-> Block,
   set_segments |-> IfSet("items", Use("items") \o Drop("texts") \o Free("items"))
                      \o Maybe(NewItems),
   use          |-> Use("self"),
   destroy      |-> IfSet("items", Use("items") \o Release("texts") \o Free("items"))
                      \o Unblock]

UiCommand ==
  [create       |-> Block \o New("title") \o New("action_id"),
   set_shortcut |-> Release("shortcut") \o Take("shortcut"),
   destroy      |-> ReleaseAll(<<"title", "action_id", "shortcut">>) \o Unblock]

ListRow ==
  [create           |-> Block \o New("title"),
   add_swipe_action |-> New("grown") \o Release("actions") \o Move("actions", "grown")
                          \o New("it") \o Add("titles", "it"),
   destroy          |-> Release("title") \o IfSet("actions", Release("titles")
                          \o Free("actions")) \o Unblock]

ListOfRows == Owner(Given)
Collection == Owner(Given)

\* The items of a snapshot are copied before those of the last are freed.
DiffableDatasource ==
  [create         |-> Block,
   apply_snapshot |-> Maybe(New("copy")) \o Clear("state")
                        \o IfSet("copy", Move("state", "copy")),
   destroy        |-> Release("state") \o Unblock]

Inputs ==
  [WheelPicker |-> WheelPicker, SegmentedControl |-> SegmentedControl,
   UiCommand |-> UiCommand, ListRow |-> ListRow, ListOfRows |-> ListOfRows,
   Collection |-> Collection, DiffableDatasource |-> DiffableDatasource]

\* Copies that fail half-way leave behind what was copied, and a creation its
\* object.  The segments that were freed are freed again, and read, when no new
\* ones take their place (line 195 of cmp_inputs.c).
InputFaults ==
  {<<"WheelPicker", "leaked", "set_items">>, <<"SegmentedControl", "leaked", "set_segments">>,
   <<"SegmentedControl", "freed twice", "set_segments">>,
   <<"SegmentedControl", "freed twice", "destroy">>,
   <<"SegmentedControl", "misused", "set_segments">>,
   <<"SegmentedControl", "misused", "destroy">>,
   <<"UiCommand", "leaked", "create">>, <<"ListRow", "leaked", "create">>}
=============================================================================
