---------------------------- MODULE Accessibility ----------------------------
(***************************************************************************)
(* The tree of accessibility nodes and what refers to it.                  *)
(***************************************************************************)
EXTENDS Statements, TLC

\* Something is done to a node of the tree, when there is such a node.
OnNode(s) == IfSet("nodes", Use("nodes") \o s)

\* A text of a node: freed, and copied anew when there is one.
SetText(f) == OnNode(Clear(f) \o Maybe(New(f)))

\* An action or rotor of a node: a slot of an array, and a copy of the name.
AddName(array, names) == OnNode(Grow(array) \o Use(array) \o New("it") \o Add(names, "it"))

\* The role and the name are written into the slot behind the last node, which
\* is counted when both are there.
AddNode ==
  Grow("nodes") \o Use("nodes") \o Maybe(New("it")) \o Maybe(New("copy"))
    \o IfSet("it", Add("names", "it")) \o IfSet("copy", Add("names", "copy"))

A11yTreeDestroy ==
  IfSet("nodes", ReleaseAll(<<"names", "labels", "captions", "action_names", "actions",
                              "rotor_names", "rotors">>) \o Free("nodes")) \o Unblock

\* A plausible bug: the text that is freed goes on being pointed to.
SetLabelHintValueStale == OnNode(Release("labels") \o Maybe(New("labels")))

SetLabelHintValue == SetText("labels")
TraitsAndGroups   == OnNode(<< >>)
AddCustomAction   == AddName("actions", "action_names")
AddCustomRotor    == AddName("rotors", "rotor_names")
FocusAndBraille   == OnNode(<< >>)
SetDescriptions   == SetText("captions")
SwitchesOfNode    == OnNode(<< >>)
SetHoverText      == SetText("captions")
SetVoiceTag       == SetText("captions")
LimitsOfNode      == OnNode(<< >>)
SetSoundCaption   == SetText("captions")

\* A node for every node of the UI tree: what fails is not noticed.
Serialize == Maybe(AddNode) \o TraitsAndGroups

A11yTree ==
  [create |-> Block, add_node |-> AddNode, serialize |-> Serialize,
   set_text |-> SetLabelHintValue, set_traits |-> TraitsAndGroups,
   add_action |-> AddCustomAction, add_rotor |-> AddCustomRotor,
   set_focus |-> FocusAndBraille, set_description |-> SetDescriptions,
   set_switches |-> SwitchesOfNode, set_hover |-> SetHoverText, set_voice |-> SetVoiceTag,
   set_limits |-> LimitsOfNode, set_caption |-> SetSoundCaption,
   destroy |-> A11yTreeDestroy]

A11yRotor       == Vector
Aria            == Vector
AriaLive        == Vector
AriaRelations   == Vector
FocusNavigation == Wrapper
ScreenReader    == Vector

Accessibility ==
  [A11yTree |-> A11yTree, A11yRotor |-> A11yRotor, Aria |-> Aria, AriaLive |-> AriaLive,
   AriaRelations |-> AriaRelations, FocusNavigation |-> FocusNavigation,
   ScreenReader |-> ScreenReader]

\* The role of a node whose name cannot be copied is lost.
AccessibilityFaults ==
  {"A11yTree"} \X {"leaked"} \X {"add_node", "serialize"}
=============================================================================
