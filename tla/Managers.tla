------------------------------ MODULE Managers ------------------------------
(***************************************************************************)
(* What an application holds on to while it runs: routes, tabs, panels,    *)
(* windows, shaders, coroutines, clients and queries.                      *)
(***************************************************************************)
EXTENDS Statements, TLC

\* The routes and the stack of the router.  The first copy of a URI is cut into
\* tokens, and so is the path of every route that is compared with it.
ExecuteRoute ==
  New("copy") \o Maybe(NewElse("buffer", {"copy"}) \o Free("buffer")) \o Maybe(Fails({"copy"}))
    \o Free("copy")
PushRoute ==
  ExecuteRoute \o Grow("stack") \o New("it") \o Use("stack") \o Add("uris", "it")
RegisterRoute ==
  New("it") \o NewElse("copy", {"it"}) \o Add("routes", "it") \o Add("paths", "copy")

\* All but the root are freed; then the stack counts as empty.
SwitchTab == IfSet("uris", Move("it", "uris")) \o PushRoute

RouterStack ==
  [create     |-> Block,
   register   |-> RegisterRoute,
   push       |-> PushRoute,
   pop        |-> IfSet("uris", Use("stack") \o Maybe(ExecuteRoute)),
   switch_tab |-> SwitchTab,
   destroy    |-> ReleaseAll(<<"paths", "routes", "uris", "stack">>) \o Unblock]

SplitView ==
  [create     |-> Block,
   set_routes |-> Maybe(Release("master") \o New("master"))
                    \o Maybe(Release("detail") \o New("detail")),
   destroy    |-> ReleaseAll(<<"master", "detail">>) \o Unblock]

TabNav         == EarlyOwner @@ [close_tab |-> Use("array") \o Clear("items")]
ToastManager   == EarlyOwner @@ [tick |-> Use("array") \o Clear("items")]
Docking        == EarlyOwner
CommandPalette == EarlyOwner

UndoRedo ==
  [create  |-> Block,
   push    |-> Maybe(Clear("states")) \o New("it") \o Add("states", "it"),
   undo    |-> IfSet("states", Use("states")),
   destroy |-> Release("states") \o Unblock]

FocusManager  == Vector
WindowManager == Owner(Given)

\* A window is lost in no case: it is in one of the slots, or there is none left.
MultiWindow ==
  [create     |-> << >>,
   tear_off   |-> New("it") \o Maybe(Fails({"it"})) \o Add("windows", "it"),
   merge_back |-> Clear("windows"),
   destroy    |-> Clear("windows")]

StoreShader(fs) ==
  NewElse("it", fs) \o NewElse("copy", {"it"} \cup fs) \o NewElse("buffer", {"copy", "it"} \cup fs)
    \o Add("entries", "it") \o Add("keys", "copy") \o Add("shaders", "buffer")

\* A shader that is read from the disk is initialised, and stored after that.
LoadShaders ==
  Maybe(New("key") \o Maybe(Fails({"key"})) \o Try("grown", << >>) \o StoreShader({"key"})
          \o IfSet("grown", Add("handles", "grown")) \o Free("key"))

ShaderCache ==
  [create  |-> Block,
   store   |-> StoreShader({}) \o Keep("handles"),
   load    |-> LoadShaders,
   destroy |-> ReleaseAll(<<"keys", "handles", "shaders", "entries">>) \o Unblock]

Observable ==
  [create  |-> Block \o NewElse("query", {"self"}),
   bind    |-> Release("property") \o New("property"),
   destroy |-> ReleaseAll(<<"query", "property">>) \o Unblock]

Dnd ==
  [create   |-> Block,
   set_text |-> Clear("payload") \o New("payload"),
   get_text |-> IfSet("payload", Maybe(Fails({})) \o Use("payload")),
   add_item |-> Grow("payload"),
   destroy  |-> Release("payload") \o Unblock]

Coroutine ==
  [create  |-> Block \o NewElse("context", {"self"}) \o NewElse("stack", {"context", "self"})
                 \o Maybe(Fails({"stack", "context", "self"})),
   resume  |-> Use("context") \o Use("stack"),
   destroy |-> Clear("stack") \o Clear("context") \o Unblock]

HttpClient ==
  [create  |-> Block \o NewElse("client", {"self"}) \o Maybe(Fails({"client", "self"})),
   destroy |-> Free("client") \o Unblock]

\* Several requests at once: an array of futures, which are freed with it.
MultiRequest ==
  [create  |-> Block \o NewElse("futures", {"self"})
                 \o Maybe(NewElse("it", {"futures", "self"}) \o Add("futures", "it")),
   destroy |-> Use("futures") \o Free("futures") \o Unblock]

\* What a worker needs to read a WebSocket, or server-sent events: the task
\* frees it, or the call does when the task is not accepted.  In the end the task
\* has run, or the modality was destroyed with the task in its queue, which frees
\* the node of the task only (line 290 of cmp_modality.c).
WsTask  == [create  |-> Block \o Maybe(Fails({"self"})),
            destroy |-> Maybe(Use("self") \o Unblock)]
SseTask == WsTask

EventQueue ==
  [create  |-> New("ring"),
   push    |-> New("it") \o Maybe(Fails({"it"})) \o Add("events", "it"),
   pop     |-> IfSet("events", Use("events") \o Drop("events")),
   destroy |-> Release("events") \o Free("ring")]

Arena == [create |-> Maybe(New("memory")), alloc |-> IfSet("memory", Use("memory")),
          destroy |-> Clear("memory")]
Pool  == Arena

Managers ==
  [RouterStack |-> RouterStack, SplitView |-> SplitView, TabNav |-> TabNav,
   ToastManager |-> ToastManager, Docking |-> Docking, CommandPalette |-> CommandPalette,
   UndoRedo |-> UndoRedo, FocusManager |-> FocusManager, WindowManager |-> WindowManager,
   MultiWindow |-> MultiWindow, ShaderCache |-> ShaderCache, Observable |-> Observable,
   Dnd |-> Dnd, Coroutine |-> Coroutine, HttpClient |-> HttpClient,
   MultiRequest |-> MultiRequest, WsTask |-> WsTask, SseTask |-> SseTask,
   EventQueue |-> EventQueue, Arena |-> Arena, Pool |-> Pool]

\* The root of the stack is lost when the tab changes.  A text that was freed is
\* not set to NULL before its copy is made.  An array that could not grow is
\* written behind its end by the next call.  A shader that could not be stored is
\* lost, and so is what a task needs that was queued and never ran.
ManagerFaults ==
  {<<"RouterStack", "leaked", "switch_tab">>, <<"ShaderCache", "leaked", "load">>}
    \cup {"WsTask", "SseTask"} \X {"leaked"} \X {"destroy"}
    \cup {"SplitView"} \X {"freed twice"} \X {"set_routes", "destroy"}
    \cup {"Observable"} \X {"freed twice"} \X {"bind", "destroy"}
    \cup {"TabNav", "ToastManager", "Docking", "CommandPalette"} \X {"misused"} \X {"add"}
=============================================================================
