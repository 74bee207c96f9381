------------------------------ MODULE Graphics ------------------------------
(***************************************************************************)
(* Regions, effects, grids and the buffers of the graphics interface.      *)
(***************************************************************************)
EXTENDS Statements, TLC

AppRegion == Vector

\* Objects of the process, created once.  The rectangle of the region may fail;
\* the region stays.
CustomChrome ==
  [create  |-> << >>,
   init    |-> IfNull("region", New("region") \o New("rects")),
   cleanup |-> IfSet("region", Clear("rects") \o Drop("region")),
   destroy |-> IfSet("region", Release("rects") \o Free("region"))]

DpiAwareness ==
  [create |-> << >>, init |-> IfNull("dpi", New("dpi")), cleanup |-> Clear("dpi"),
   destroy |-> Release("dpi")]

BackgroundBlur == Wrapper

\* A list that is freed from its root.
Chain ==
  [create |-> Block, append |-> Use("self") \o Keep("next"),
   destroy |-> Unblock \o Release("next")]
BoxShadow == Chain
Filter    == Chain

\* The sizes of the tracks are allocated anew each time they are computed.
GridCtx ==
  [create          |-> Block,
   add_item        |-> Grow("items") \o Use("items"),
   implicit_tracks |-> Maybe(New("row_sizes")) \o Maybe(New("col_sizes")),
   destroy         |-> ReleaseAll(<<"items", "row_sizes", "col_sizes">>) \o Unblock]

Vbo == Vector
Ubo ==
  [create  |-> Block \o NewElse("data", {"self"}),
   update  |-> Use("data"),
   destroy |-> Release("data") \o Unblock]

\* Calls that draw neighbouring vertices are merged into a new array.
DrawCalls ==
  [create   |-> Block,
   add      |-> Grow("array") \o Use("array"),
   optimize |-> IfSet("array", Maybe(New("copy") \o Use("array") \o Free("array")
                                      \o Move("array", "copy"))),
   destroy  |-> Release("array") \o Unblock]

\* A gradient has exactly as many slots as stops.
Gradient ==
  [create   |-> Block,
   add_stop |-> New("grown") \o Release("stops") \o Move("stops", "grown") \o Use("stops"),
   destroy  |-> Release("stops") \o Unblock]

StackCtx       == Vector
Msaa           == Wrapper
TexCompression == Wrapper

Swapchain ==
  [create  |-> Block \o NewElse("front", {"self"}) \o NewElse("back", {"front", "self"}),
   present |-> Use("front") \o Use("back"),
   destroy |-> ReleaseAll(<<"front", "back">>) \o Unblock]

\* A shader of the caller's: it may be initialised again.
Shader ==
  [create |-> << >>, init |-> New("handle"), destroy |-> Clear("handle")]

Graphics ==
  [AppRegion |-> AppRegion, CustomChrome |-> CustomChrome, DpiAwareness |-> DpiAwareness,
   BackgroundBlur |-> BackgroundBlur, BoxShadow |-> BoxShadow, Filter |-> Filter,
   GridCtx |-> GridCtx, Vbo |-> Vbo, Ubo |-> Ubo, DrawCalls |-> DrawCalls,
   Gradient |-> Gradient, StackCtx |-> StackCtx, Msaa |-> Msaa,
   TexCompression |-> TexCompression, Swapchain |-> Swapchain, Shader |-> Shader]

GraphicsFaults ==
  {<<"GridCtx", "leaked", "implicit_tracks">>, <<"Shader", "leaked", "init">>}
=============================================================================
