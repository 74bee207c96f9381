------------------------- MODULE MCRingBufferAsUsed ----------------------------
(***************************************************************************)
(* RingBuffer as the library uses it: one producer, and consumers that the *)
(* producer does not lap.  The items are numbers, offered in their order:  *)
(* the code never looks at one, so any other order is this one under other *)
(* names.  The producer stops when every item has been offered.            *)
(***************************************************************************)
EXTENDS RingBuffer, FiniteSets, TLC

MCMayOffer(item) == item = Cardinality(offered) + 1

MCPush(p) == Push(p) /\ NoLap'

MCNext ==
  \/ \E p \in Producers :
       MCPush(p) \/ \E item \in Items : MCMayOffer(item) /\ PushCall(p, item)
  \/ \E c \in Consumers : Pop(c) \/ PopCall(c)

MCSpec ==
  /\ Init /\ [][MCNext]_vars
  /\ \A p \in Producers : WF_vars(MCPush(p))
  /\ \A c \in Consumers : WF_vars(Pop(c) \/ PopCall(c))
=============================================================================
