---------------------------- MODULE MCApplication ----------------------------
(***************************************************************************)
(* The parts of the library that one thread uses at a time, and the        *)
(* watches.  They do not share state, so that a behaviour is one of one of *)
(* them, which stays the same: subject.                                    *)
(***************************************************************************)
EXTENDS MCOwnership, Router, EditorTabs, UndoStack, BlockPool, ShaderStore,
  Coroutines, Dispatch, Watch

VARIABLE subject

MCPaths ==
  ("/item/1" :> {"/item/1"}) @@ ("/item/:id" :> {"/item/1"})
    @@ ("/home" :> {"/home"})

\* A pop in whose callbacks the router is popped or replaced gives its builder a
\* URI that was freed; a replace in which switching tabs fails has no top.
MCWithin ==
  [push |-> {"push", "replace", "pop", "switch"},
   replace |-> {"push", "replace", "pop"}, pop |-> {"push"}]

CONSTANTS v, w   \* two watches
MCUnwatched == {<<v, w>>}

MCInit ==
  /\ subject \in {"object", "router", "tabs", "undo", "pool", "shaders", "coroutines",
                  "dispatch", "watches"}
  /\ IF subject = "object" THEN Init
     ELSE /\ class = CHOOSE c \in DOMAIN Classes : TRUE
          /\ call = "none" /\ pc = 0 /\ phase = "gone" /\ field = << >> /\ faults = {}
  /\ RouterInit /\ TabsInit /\ UndoInit /\ PoolInit /\ ShadersInit /\ CosInit
  /\ DispatchInit /\ WatchInit

MCNext ==
  \/ /\ subject = "object" /\ Next
     /\ UNCHANGED <<subject, routerVars, tabVars, undoVars, poolVars,
                    shaderVars, coVars, dispatchVars, watchVars>>
  \/ /\ subject = "router" /\ RouterNext
     /\ UNCHANGED <<subject, vars, tabVars, undoVars, poolVars, shaderVars,
                    coVars, dispatchVars, watchVars>>
  \/ /\ subject = "tabs" /\ TabsNext
     /\ UNCHANGED <<subject, vars, routerVars, undoVars, poolVars, shaderVars,
                    coVars, dispatchVars, watchVars>>
  \/ /\ subject = "undo" /\ UndoNext
     /\ UNCHANGED <<subject, vars, routerVars, tabVars, poolVars, shaderVars,
                    coVars, dispatchVars, watchVars>>
  \/ /\ subject = "pool" /\ PoolNext
     /\ UNCHANGED <<subject, vars, routerVars, tabVars, undoVars, shaderVars,
                    coVars, dispatchVars, watchVars>>
  \/ /\ subject = "shaders" /\ ShadersNext
     /\ UNCHANGED <<subject, vars, routerVars, tabVars, undoVars, poolVars,
                    coVars, dispatchVars, watchVars>>
  \/ /\ subject = "coroutines" /\ CosNext
     /\ UNCHANGED <<subject, vars, routerVars, tabVars, undoVars, poolVars,
                    shaderVars, dispatchVars, watchVars>>
  \/ /\ subject = "dispatch" /\ DispatchNext
     /\ UNCHANGED <<subject, vars, routerVars, tabVars, undoVars, poolVars,
                    shaderVars, coVars, watchVars>>
  \/ /\ subject = "watches" /\ WatchNext
     /\ UNCHANGED <<subject, vars, routerVars, tabVars, undoVars, poolVars,
                    shaderVars, coVars, dispatchVars>>

MCSpec == MCInit /\ [][MCNext]_<<subject, vars, routerVars, tabVars, undoVars, poolVars,
                                 shaderVars, coVars, dispatchVars, watchVars>>
            /\ WatchFairness
=============================================================================
