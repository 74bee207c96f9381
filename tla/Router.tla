-------------------------------- MODULE Router --------------------------------
(***************************************************************************)
(* src/src/cmp_router.c: routes, the stack of the URIs one came by, and    *)
(* the view that is shown.  To go to a URI is to call the guard and then   *)
(* the builder of the first route that matches it; both are code of the    *)
(* application, and may navigate before they return.                       *)
(***************************************************************************)
EXTENDS Naturals, Sequences, SequencesExt

CONSTANTS
  Uris,
  PathsOf,     \* the URIs that each path of a route matches, exactly or by its
               \* dynamic segments
  NoView,
  Within,      \* the calls that guards and builders make during each call
  MaxRoutes, MaxStack, MaxDepth   \* bounds of the model

\* What the application must keep to.  A pop in whose callbacks the router is
\* popped, replaced or switched gives its builder a URI that was freed; a replace
\* in which the tabs are switched finds no top to replace.
ASSUME WithinAssumption == "switch" \notin Within["replace"] /\ Within["pop"] \subseteq {"push"}

VARIABLES
  routes,      \* router->routes, the newest first
  stack,       \* router->stack: the URIs
  view,        \* router->active_view: the URI it was built from
  frames,      \* the navigations that have begun, the outermost first
  outcome,     \* how the last one ended that no other was around
  redirected   \* whether the outermost one is a pop whose callback navigates

routerVars == <<routes, stack, view, frames, outcome, redirected>>

Navigations == {"push", "replace", "pop", "switch"}

RouterInit ==
  /\ routes = << >> /\ stack = << >> /\ view = NoView
  /\ frames = << >> /\ outcome = "none" /\ redirected = FALSE

Idle == frames = << >>
Callback == Last(frames)

\* cmp_router_register
Register ==
  /\ Idle /\ Len(routes) < MaxRoutes
  /\ \E p \in DOMAIN PathsOf, g \in BOOLEAN :
       routes' = <<[path |-> p, guarded |-> g]>> \o routes
  /\ UNCHANGED <<stack, view, frames, outcome, redirected>>

\* Whose turn it is: the application's, or that of one of its callbacks.
MayCall(op) ==
  /\ Len(frames) < MaxDepth
  /\ \A i \in DOMAIN frames : op \in Within[frames[i].op]

\* The call has ended with ok, and fs are the navigations around it.
Ends(fs, ok) ==
  /\ frames' = fs
  /\ outcome' = IF fs # << >> THEN outcome
                ELSE IF ~ok THEN "failed" ELSE IF redirected THEN "redirected" ELSE "done"
  /\ redirected' = (redirected /\ fs # << >>)

\* internal_execute_route up to its first callback, or to the end when no route
\* matches or memory runs out.
Execute(op, uri) ==
  LET matching == {i \in DOMAIN routes : uri \in PathsOf[routes[i].path]}
      first    == CHOOSE i \in matching : \A j \in matching : i <= j
  IN  /\ redirected' = (~Idle /\ (redirected \/ frames[1].op = "pop"))
      /\ \/ /\ matching # {}
            /\ frames' = Append(frames, [op |-> op, uri |-> uri,
                                         at |-> IF routes[first].guarded THEN "guard"
                                                                         ELSE "builder"])
            /\ UNCHANGED outcome
         \/ /\ frames' = frames
            /\ outcome' = IF Idle THEN "failed" ELSE outcome

Push(uri) ==
  /\ MayCall("push") /\ Len(stack) < MaxStack
  /\ Execute("push", uri)
  /\ UNCHANGED <<routes, stack, view>>

\* An empty stack has nothing to replace.
Replace(uri) ==
  /\ MayCall("replace")
  /\ IF stack = << >> THEN Execute("push", uri) ELSE Execute("replace", uri)
  /\ UNCHANGED <<routes, stack, view>>

\* A plausible bug: a pop frees the top and does not count it off.
UnderTheTopKept == stack

UnderTheTop == Front(stack)

\* The root cannot be popped; any other URI is freed before it is known whether
\* the one below it can be shown.
Pop ==
  /\ MayCall("pop") /\ Len(stack) > 1
  /\ stack' = UnderTheTop
  /\ Execute("pop", stack[Len(stack) - 1])
  /\ UNCHANGED <<routes, view>>

\* cmp_router_switch_tab: the whole stack goes before the tab is pushed.
SwitchToTab(uri) ==
  /\ MayCall("switch")
  /\ stack' = << >>
  /\ Execute("push", uri)
  /\ UNCHANGED <<routes, view>>

GuardReturns ==
  /\ ~Idle /\ Callback.at = "guard"
  /\ \/ /\ frames' = [frames EXCEPT ![Len(frames)].at = "builder"]
        /\ UNCHANGED <<outcome, redirected>>
     \/ Ends(Front(frames), FALSE)
  /\ UNCHANGED <<routes, stack, view>>

\* What the stack becomes when the view has been built.
StackAfter(op, uri) ==
  CASE op = "push"    -> Append(stack, uri)
    [] op = "replace" -> Append(Front(stack), uri)
    [] op = "pop"     -> stack

\* The view is shown at once; after that the stack may fail to take the URI.
BuilderReturns ==
  /\ ~Idle /\ Callback.at = "builder"
  /\ view' = Callback.uri
  /\ \/ /\ stack' = StackAfter(Callback.op, Callback.uri)
        /\ Ends(Front(frames), TRUE)
     \/ /\ Callback.op # "pop"
        /\ Ends(Front(frames), FALSE)
        /\ UNCHANGED stack
  /\ UNCHANGED routes

RouterNext ==
  \/ Register \/ Pop \/ GuardReturns \/ BuilderReturns
  \/ \E uri \in Uris : Push(uri) \/ Replace(uri) \/ SwitchToTab(uri)

RouterSpec == RouterInit /\ [][RouterNext]_routerVars

-----------------------------------------------------------------------------
(* After a navigation that succeeded the view is that of the URI on top of   *)
(* the stack, whatever failed before it and however often the guards and     *)
(* builders of a push or a replace navigated themselves.  A pop whose        *)
(* callbacks navigated is "redirected": it shows one URI and leaves another  *)
(* on top.                                                                   *)
ShownIsTop == Idle /\ outcome = "done" => stack # << >> /\ view = Last(stack)
=============================================================================
