------------------------------- MODULE UiNodes -------------------------------
(***************************************************************************)
(* The nodes of the UI tree, src/cmp_ui.c and src/core/cmp_layout.c: what  *)
(* their creation, their growth and their end do with memory.  A node owns *)
(* a layout node, an array of children, the children in it, its listeners  *)
(* and one block of properties.                                            *)
(***************************************************************************)
EXTENDS Statements

\* A plausible bug: the node is forgotten when its layout cannot be made.
LayoutCreateLeaves == New("layout")

LayoutCreate == NewElse("layout", {"node"})
LayoutDestroy == Release("layout_kids") \o Free("layout")

\* The layout of the parent may fail to grow: its answer is not read.
LayoutAddChild ==
  Use("layout") \o IfNull("layout_kids", Try("layout_kids", << >>))
    \o IfSet("layout_kids", Maybe(Try("grown", Free("layout_kids")
                                                 \o Move("layout_kids", "grown"))))

\* A plausible bug: nobody looks whether the first array of children is there.
AddChildUnchecked ==
  IfNull("children", Try("children", << >>)) \o Use("children") \o Keep("kids")
    \o LayoutAddChild

AddChild == Grow("children") \o Use("children") \o Keep("kids") \o LayoutAddChild

AddListener == New("it") \o Add("listeners", "it")

\* The ancestors of the target, gathered before the first listener is called.
Dispatch ==
  New("buffer")
    \o Maybe(NewElse("grown", {"buffer"}) \o Free("buffer") \o Move("buffer", "grown"))
    \o Use("buffer") \o Free("buffer")

\* Only the text of a text node is freed with it.
DestroyNode(properties) ==
  Release("listeners") \o Release("kids") \o Release("children")
    \o IfSet("layout", LayoutDestroy) \o properties \o Free("node")

\* A node and its layout; and what is allocated for the properties after them.
Node == New("node") \o LayoutCreate
With(properties) == Node \o properties
Copied == NewElse("properties", {"layout", "node"})

NodeClass(create, properties) ==
  [create |-> create, add_child |-> AddChild, add_listener |-> AddListener,
   dispatch |-> Dispatch, destroy |-> DestroyNode(properties)]

BoxNode      == NodeClass(Node, << >>)
TextNode     == NodeClass(With(Copied), Release("properties"))
ButtonNode   == NodeClass(With(Copied), << >>)
TextInput    == NodeClass(Node, << >>)
CheckboxNode == NodeClass(With(Maybe(Copied)), << >>)
RadioNode    == NodeClass(With(Copied), << >>)
ImageView    == NodeClass(With(Copied), << >>)
SliderNode   == NodeClass(With(Copied), << >>)
ListView     == NodeClass(Node, << >>)
GridView     == NodeClass(With(Copied), << >>)
DropdownNode == NodeClass(Node, << >>)
ModalNode    == NodeClass(Node, << >>)
CanvasNode   == NodeClass(Node, << >>)
RichText     == NodeClass(Node, << >>)

UiNodes ==
  [BoxNode |-> BoxNode, TextNode |-> TextNode, ButtonNode |-> ButtonNode,
   TextInput |-> TextInput, CheckboxNode |-> CheckboxNode, RadioNode |-> RadioNode,
   ImageView |-> ImageView, SliderNode |-> SliderNode, ListView |-> ListView,
   GridView |-> GridView, DropdownNode |-> DropdownNode, ModalNode |-> ModalNode,
   CanvasNode |-> CanvasNode, RichText |-> RichText]

\* cmp_ui_node_destroy frees the properties of text nodes only (line 490).
UiNodeFaults ==
  {"ButtonNode", "CheckboxNode", "RadioNode", "ImageView", "SliderNode", "GridView"}
    \X {"leaked"} \X {"destroy"}

-----------------------------------------------------------------------------
(* What the rest of the library uses: cmp_ui_box_create and its kin give a  *)
(* node or nothing, and cmp_ui_node_destroy takes it with its children.     *)

Root         == New("node")
RootWithCopy == New("node") \o NewElse("properties", {"node"})
RootGone     == Release("kids") \o Release("children") \o Free("node")

\* cmp_ui_node_add_child where its result is not read.
Attach(f) == IfNull("children", Try("children", << >>)) \o IfSet("children", Add("kids", f))

\* A child that is created if it can be, and when it is asked for.
Child == Try("it", Attach("it"))
Label == Maybe(Child)
=============================================================================
