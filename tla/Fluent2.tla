------------------------------- MODULE Fluent2 -------------------------------
(***************************************************************************)
(* The controls of the Fluent 2 theme, src/themes/cmp_f2_*.c.  Each is a   *)
(* node whose properties point to a block of the control, from malloc, and *)
(* some have children from the start.  Nodes are those of UiNodes.         *)
(***************************************************************************)
EXTENDS UiNodes, TLC

\* The calls of a control with root as its node and its first children.
Fluent(root, children) ==
  [create  |-> root \o NewElse("data", {"node"}) \o children \o Move("properties", "data"),
   set     |-> Use("properties"),
   destroy |-> RootGone]

\* A text, or a field's help, that a later call adds.
WithText(control) == [set_text |-> Use("properties") \o Label] @@ control

\* A control that is no more than its node and its children.
Bare(children) == [create |-> Root \o children, destroy |-> RootGone]

F2Menu           == Bare(<< >>)
F2MenuItem       == WithText(Fluent(Root, Label))
F2NavView        == Fluent(Root, << >>)
F2NavItem        == Fluent(Root, Label)
F2TabContainer   == Fluent(Root, << >>)
F2TabItem        == Bare(Label)
F2Breadcrumb     == Bare(<< >>)
F2BreadcrumbItem == Bare(Label \o Label)
F2Toolbar        == Fluent(Root, << >>)
F2Link           == Fluent(Root, Label)
F2Stepper        == Bare(<< >>)
F2StepperItem    == Fluent(Root, Label)

F2Dropdown       == Fluent(Root, Child \o Child)
F2Combobox       == Fluent(Root, Child)
F2Listbox        == Bare(<< >>)
F2ListboxOption  == Fluent(Root, Label)
F2ListboxGroup   == Bare(Label)
F2ColorPicker    == Fluent(Root, << >>)
F2Calendar       == Fluent(Root, << >>)
F2DatePicker     == Fluent(Root, Child)
F2TimePicker     == Fluent(Root, << >>)

F2Avatar         == WithText(Fluent(Root, << >>))
F2AvatarGroup    == Fluent(Root, << >>)
F2PresenceBadge  == Fluent(Root, << >>)
F2Badge          == Fluent(Root, Label)
F2Tag            == Fluent(Root, Label)
F2DataGrid       == Fluent(Root, << >>)
F2DataGridRow    == Bare(<< >>)
F2Tree           == Bare(<< >>)
F2TreeItem       == Fluent(Root, Label)

F2Dialog         == Fluent(Root, << >>)
F2Flyout         == Fluent(Root, << >>)
F2Tooltip        == Fluent(Root, Label)
F2Toast          == Fluent(Root, << >>)
F2MessageBar     == Fluent(Root, << >>)
F2Progress       == Fluent(Root, << >>)
F2Skeleton       == Fluent(Root, << >>)

F2Card           == Fluent(Root, << >>)
F2Accordion      == Fluent(Root, << >>)
F2AccordionPanel == Fluent(Root, Label)
F2Divider        == Fluent(Root, << >>)
F2SplitView      == Fluent(Root, << >>)
F2ScrollView     == Fluent(Root, << >>)

F2Checkbox       == Fluent(New("node") \o Maybe(NewElse("properties", {"node"})), << >>)
F2Radio          == Fluent(RootWithCopy, << >>)
F2RadioGroup     == Bare(<< >>)
F2Toggle         == Fluent(Root, << >>)
F2Slider         == Fluent(RootWithCopy, << >>)
F2SpinButton     == Fluent(Root, << >>)

F2TextInput      == Fluent(Root, << >>)
F2Textarea       == Fluent(Root, << >>)
F2Field          == WithText(Fluent(Root, Label \o Keep("kids")))
F2SearchBox      == Fluent(Root, << >>)

F2Button         == Fluent(RootWithCopy, << >>)
F2CompoundButton == Fluent(RootWithCopy, Label)
F2MenuButton     == Fluent(RootWithCopy, Child)
F2SplitButton    == Fluent(RootWithCopy, Child \o Child)

F2Stack          == Bare(<< >>)
F2Wrap           == Bare(<< >>)
F2Grid           == [create |-> RootWithCopy, destroy |-> RootGone]

\* The node of an icon is a text node, whose properties cmp_ui_node_destroy
\* frees: not when they come from malloc, which CMP_FREE does not know.
F2Icon ==
  [create  |-> RootWithCopy \o NewElse("data", {"node", "properties"}) \o Move("properties", "data"),
   set     |-> Use("properties"),
   destroy |-> RootGone]

F2Controls ==
  [F2Menu |-> F2Menu, F2MenuItem |-> F2MenuItem, F2NavView |-> F2NavView,
   F2NavItem |-> F2NavItem, F2TabContainer |-> F2TabContainer, F2TabItem |-> F2TabItem,
   F2Breadcrumb |-> F2Breadcrumb, F2BreadcrumbItem |-> F2BreadcrumbItem,
   F2Toolbar |-> F2Toolbar, F2Link |-> F2Link, F2Stepper |-> F2Stepper,
   F2StepperItem |-> F2StepperItem, F2Dropdown |-> F2Dropdown, F2Combobox |-> F2Combobox,
   F2Listbox |-> F2Listbox, F2ListboxOption |-> F2ListboxOption,
   F2ListboxGroup |-> F2ListboxGroup, F2ColorPicker |-> F2ColorPicker,
   F2Calendar |-> F2Calendar, F2DatePicker |-> F2DatePicker, F2TimePicker |-> F2TimePicker,
   F2Avatar |-> F2Avatar, F2AvatarGroup |-> F2AvatarGroup,
   F2PresenceBadge |-> F2PresenceBadge, F2Badge |-> F2Badge, F2Tag |-> F2Tag,
   F2DataGrid |-> F2DataGrid, F2DataGridRow |-> F2DataGridRow, F2Tree |-> F2Tree,
   F2TreeItem |-> F2TreeItem, F2Dialog |-> F2Dialog, F2Flyout |-> F2Flyout,
   F2Tooltip |-> F2Tooltip, F2Toast |-> F2Toast, F2MessageBar |-> F2MessageBar,
   F2Progress |-> F2Progress, F2Skeleton |-> F2Skeleton, F2Card |-> F2Card,
   F2Accordion |-> F2Accordion, F2AccordionPanel |-> F2AccordionPanel,
   F2Divider |-> F2Divider, F2SplitView |-> F2SplitView, F2ScrollView |-> F2ScrollView,
   F2Checkbox |-> F2Checkbox, F2Radio |-> F2Radio, F2RadioGroup |-> F2RadioGroup,
   F2Toggle |-> F2Toggle, F2Slider |-> F2Slider, F2SpinButton |-> F2SpinButton,
   F2TextInput |-> F2TextInput, F2Textarea |-> F2Textarea, F2Field |-> F2Field,
   F2SearchBox |-> F2SearchBox, F2Button |-> F2Button, F2CompoundButton |-> F2CompoundButton,
   F2MenuButton |-> F2MenuButton, F2SplitButton |-> F2SplitButton, F2Stack |-> F2Stack,
   F2Wrap |-> F2Wrap, F2Grid |-> F2Grid, F2Icon |-> F2Icon]

\* cmp_ui_node_destroy does not free the properties of these nodes (cmp_ui.c,
\* line 490), and creation does not look whether a child could be attached, or
\* overwrites the copy of the label that cmp_ui_button_create made.
F2Faults ==
  ((DOMAIN F2Controls
      \ {"F2Menu", "F2TabItem", "F2Breadcrumb", "F2BreadcrumbItem", "F2Stepper", "F2Listbox",
         "F2ListboxGroup", "F2DataGridRow", "F2Tree", "F2RadioGroup", "F2Stack", "F2Wrap"})
    \X {"leaked"} \X {"destroy"})
  \cup
  ({"F2AccordionPanel", "F2Badge", "F2BreadcrumbItem", "F2Button", "F2Checkbox", "F2Combobox",
    "F2CompoundButton", "F2DatePicker", "F2Dropdown", "F2Field", "F2Icon", "F2Link",
    "F2ListboxGroup", "F2ListboxOption", "F2MenuButton", "F2MenuItem", "F2NavItem", "F2Radio",
    "F2Slider", "F2SplitButton", "F2StepperItem", "F2TabItem", "F2Tag", "F2Tooltip",
    "F2TreeItem"} \X {"leaked"} \X {"create"})
  \cup
  ({"F2Avatar", "F2Field", "F2MenuItem"} \X {"leaked"} \X {"set_text"})
=============================================================================
