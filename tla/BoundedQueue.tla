---------------------------- MODULE BoundedQueue ----------------------------
(***************************************************************************)
(* What the callers of cmp_ring_buffer_t rely on: a first-in first-out     *)
(* queue of at most Limit items whose operations take effect in one step.  *)
(* A push is refused only by a full queue and a pop only by an empty one.  *)
(***************************************************************************)
EXTENDS Naturals, Sequences

CONSTANTS Producers, Consumers, Items, Limit

VARIABLES queue, ret

qvars == <<queue, ret>>

Init ==
  /\ queue = << >>
  /\ ret = [t \in Producers \cup Consumers |-> "none"]

Call(t) ==
  /\ ret' = [ret EXCEPT ![t] = "none"]
  /\ UNCHANGED queue

Push(p, item) ==
  /\ Len(queue) < Limit
  /\ queue' = Append(queue, item)
  /\ ret' = [ret EXCEPT ![p] = "SUCCESS"]

Refuse(p) ==
  /\ Len(queue) = Limit
  /\ ret' = [ret EXCEPT ![p] = "BOUNDS"]
  /\ UNCHANGED queue

Pop(c) ==
  /\ queue # << >>
  /\ queue' = Tail(queue)
  /\ ret' = [ret EXCEPT ![c] = "SUCCESS"]

FindEmpty(c) ==
  /\ queue = << >>
  /\ ret' = [ret EXCEPT ![c] = "NOT_FOUND"]
  /\ UNCHANGED queue

Next ==
  \/ \E t \in Producers \cup Consumers : Call(t)
  \/ \E p \in Producers : Refuse(p) \/ \E item \in Items : Push(p, item)
  \/ \E c \in Consumers : Pop(c) \/ FindEmpty(c)

Spec == Init /\ [][Next]_qvars
=============================================================================
