------------------------------ MODULE Vectors ------------------------------
(***************************************************************************)
(* Vector graphics, the layout pass and the media of a window.             *)
(***************************************************************************)
EXTENDS Statements, TLC

SvgRenderer == Vector

\* Two renderers collect the outlines; their arrays may stay missing, and the
\* result is copied out of them.
SvgPath ==
  [create  |-> New("it") \o Try("copy", << >>) \o IfNull("copy", Fails({"it"}))
                 \o NewElse("self", {"copy", "it"}) \o Use("copy") \o Free("copy") \o Free("it"),
   destroy |-> Unblock]

SvgStroke ==
  [create  |-> New("it") \o NewElse("copy", {"it"}) \o Try("grown", << >>) \o Try("buffer", << >>)
                 \o NewElse("self", {"grown", "it", "buffer", "copy"})
                 \o ReleaseAll(<<"grown", "it", "buffer", "copy">>),
   destroy |-> Unblock]

SvgDash ==
  [create  |-> Block \o NewElse("counts", {"self"}) \o NewElse("points", {"self", "counts"}),
   destroy |-> Free("points") \o Free("counts") \o Unblock]

SvgFilter == Held
SvgFill   == Held

\* A node of a picture, and its style: binding one again loses the first.
SvgCss == New("css")
SvgNode ==
  [create    |-> Block,
   add_child |-> Grow("array") \o Use("array") \o Keep("items"),
   bind_css  |-> SvgCss,
   destroy   |-> Release("css") \o IfSet("array", Release("items") \o Free("array")) \o Unblock]

\* A copy of a node: children that cannot be copied or added are left out.
SvgUse ==
  [SvgNode EXCEPT !.create = Block \o Maybe(Try("css", << >>))
                               \o Maybe(Try("it", Try("array", Add("items", "it"))))]

\* The lines of a flex container, of which a full array is copied.
LayoutPass ==
  [create  |-> << >>,
   pass    |-> Maybe(Try("it", << >>) \o Use("it")
                 \o Maybe(New("grown") \o Free("it") \o Move("it", "grown"))) \o Release("it"),
   destroy |-> << >>]

Camera       == Held
Renderer     == Held
Texture      == Held
Font         == Held
AudioBuffer  == Held
AudioSource  == Held
VideoDecoder == Held
PlatformWindow == [create |-> Block \o Maybe(Fails({"self"})), use |-> Use("self"),
                   destroy |-> Unblock]

\* The target of a drop belongs to the system as soon as it is registered.
DropTarget ==
  [create |-> Block \o NewElse("vtable", {"self"}), use |-> Use("self"),
   destroy |-> Free("vtable") \o Unblock]

Vectors ==
  [SvgRenderer |-> SvgRenderer, SvgPath |-> SvgPath, SvgStroke |-> SvgStroke,
   SvgDash |-> SvgDash, SvgFilter |-> SvgFilter, SvgFill |-> SvgFill, SvgNode |-> SvgNode,
   SvgUse |-> SvgUse, LayoutPass |-> LayoutPass, Camera |-> Camera, Renderer |-> Renderer,
   Texture |-> Texture, Font |-> Font, AudioBuffer |-> AudioBuffer,
   AudioSource |-> AudioSource, VideoDecoder |-> VideoDecoder,
   PlatformWindow |-> PlatformWindow, DropTarget |-> DropTarget]

\* A pass whose first array of lines is missing writes to it all the same, and
\* one that cannot grow the array ends without freeing it.
VectorFaults ==
  {"SvgNode", "SvgUse"} \X {"leaked"} \X {"bind_css"}
    \cup {<<"SvgUse", "leaked", "create">>, <<"LayoutPass", "misused", "pass">>,
          <<"LayoutPass", "leaked", "pass">>}
=============================================================================
