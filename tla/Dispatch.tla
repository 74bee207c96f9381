------------------------------- MODULE Dispatch -------------------------------
(***************************************************************************)
(* src/src/core/cmp_event_bubbling.c: an event goes down the ancestors of  *)
(* its target, to the target, and up again.  The listeners it meets are    *)
(* code of the application: they may add listeners, also to the node the   *)
(* event is at, and move nodes to other parents.  Nodes that are destroyed *)
(* while an event is under way are left out.                               *)
(***************************************************************************)
EXTENDS Naturals, Sequences, SequencesExt, FiniteSets

CONSTANTS
  UiNodeIds,      \* the nodes of the tree
  NoParent,
  ListenerIds     \* listeners of the type of the event, each added at most once

ASSUME NodesAssumption == IsFiniteSet(UiNodeIds) /\ NoParent \notin UiNodeIds

VARIABLES
  parent,      \* node->parent
  listeners,   \* node->event_listeners: records of a listener and its capture
  visits,      \* where the event has still to go: pairs of a node and a phase
  rest,        \* the listeners of the node it is at that were not looked at yet
  heard,       \* who was called during this dispatch, in order
  due          \* the calls that have to be made, told when it began

dispatchVars == <<parent, listeners, visits, rest, heard, due>>

DispatchInit ==
  /\ parent = [n \in UiNodeIds |-> NoParent]
  /\ listeners = [n \in UiNodeIds |-> << >>]
  /\ visits = << >> /\ rest = << >> /\ heard = << >> /\ due = {}

\* c starts at n and follows parent to the root.
IsLineage(c, n) ==
  /\ c # << >> /\ c[1] = n /\ parent[Last(c)] = NoParent
  /\ \A i \in 1 .. Len(c) - 1 : parent[c[i]] = c[i + 1]

\* n and its ancestors, the nearest first.
Lineage(n) == CHOOSE c \in SeqOf(UiNodeIds, Cardinality(UiNodeIds)) : IsLineage(c, n)

Under == visits # << >>   \* an event is under way

\* cmp_ui_node_add_child: the old parent goes on listing the node.
AddChildTo(p, n) ==
  /\ n \notin ToSet(Lineage(p)) /\ parent[n] # p
  /\ parent' = [parent EXCEPT ![n] = p]
  /\ UNCHANGED <<listeners, visits, rest, heard, due>>

\* A plausible bug: the walk counts its way through the list as it is now.
RestAfterAddCounted(n, l) ==
  IF Under /\ n = Head(visits).node
  THEN SubSeq(<<l>> \o listeners[n], Len(listeners[n]) - Len(rest) + 1, Len(listeners[n]) + 1)
  ELSE rest

\* The walk holds on to the listener it is at, and a new one comes before it.
RestAfterAdd(n, l) == rest

AddListenerTo(n) ==
  \E id \in ListenerIds, capture \in BOOLEAN :
    LET l == [id |-> id, capture |-> capture]
    IN  /\ \A m \in UiNodeIds : \A i \in DOMAIN listeners[m] : listeners[m][i].id # id
        /\ listeners' = [listeners EXCEPT ![n] = <<l>> \o @]
        /\ rest' = RestAfterAdd(n, l)
        /\ UNCHANGED <<parent, visits, heard, due>>

Visit(n, phase) == [node |-> n, phase |-> phase]
InPhase(ns, phase) == [i \in DOMAIN ns |-> Visit(ns[i], phase)]

\* The chain of ancestors is gathered before any listener is called.
Journey(target) ==
  LET chain == Tail(Lineage(target))
  IN  InPhase(Reverse(chain), "capture") \o <<Visit(target, "target")>>
        \o InPhase(chain, "bubble")

\* The target's listeners are called whatever their capture is.
Hears(l, phase) ==
  CASE phase = "capture" -> l.capture
    [] phase = "bubble"  -> ~l.capture
    [] phase = "target"  -> TRUE

\* The calls that visits vs are for, each with the visits and the listeners of its
\* node that are left when it is made, its own among them.
CallsOf(vs) ==
  UNION {LET l == listeners[vs[k].node]
         IN  {[visits |-> Len(vs) + 1 - k, rest |-> Len(l) + 1 - i, id |-> l[i].id] :
                i \in {j \in DOMAIN l : Hears(l[j], vs[k].phase)}} : k \in DOMAIN vs}

BeginDispatch(target) ==
  /\ ~Under
  /\ visits' = Journey(target)
  /\ rest' = listeners[Head(visits').node]
  /\ heard' = << >>
  /\ due' = CallsOf(visits')
  /\ UNCHANGED <<parent, listeners>>

CallListener ==
  /\ Under /\ rest # << >>
  /\ heard' = IF Hears(Head(rest), Head(visits).phase)
              THEN Append(heard, Head(rest).id) ELSE heard
  /\ rest' = Tail(rest)
  /\ UNCHANGED <<parent, listeners, visits, due>>

NextNode ==
  /\ Under /\ rest = << >>
  /\ visits' = Tail(visits)
  /\ rest' = IF visits' = << >> THEN << >> ELSE listeners[Head(visits').node]
  /\ UNCHANGED <<parent, listeners, heard, due>>

DispatchNext ==
  \/ \E p, n \in UiNodeIds : AddChildTo(p, n)
  \/ \E n \in UiNodeIds : AddListenerTo(n) \/ BeginDispatch(n)
  \/ CallListener \/ NextNode

DispatchSpec == DispatchInit /\ [][DispatchNext]_dispatchVars

-----------------------------------------------------------------------------
\* c is made before d.
Before(c, d) == c.visits > d.visits \/ (c.visits = d.visits /\ c.rest > d.rest)

(* When a dispatch has ended, every listener that was on the way from the    *)
(* root to the target and back when it began has been called once, in that   *)
(* order, whatever the listeners did to the tree and to the lists; one that  *)
(* was added on the way is called at most once, and disturbs no other.       *)
HeardOnTheWay ==
  /\ \A i, j \in DOMAIN heard : heard[i] = heard[j] => i = j
  /\ ~Under =>
       /\ \A c \in due : c.id \in ToSet(heard)
       /\ \A i, j \in DOMAIN heard : \A c, d \in due :
            heard[i] = c.id /\ heard[j] = d.id /\ Before(c, d) => i < j
=============================================================================
