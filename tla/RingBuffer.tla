----------------------------- MODULE RingBuffer -----------------------------
(***************************************************************************)
(* cmp_ring_buffer_t (src/src/cmp_ring_buffer.c): the array of item        *)
(* pointers with a head and a tail index that hands task nodes to the      *)
(* workers of the threaded modality and events to the event loop.          *)
(*                                                                         *)
(* One action is one access to shared memory: an atomic load of an index,  *)
(* the plain read or write of a slot, or the compare-and-swap that         *)
(* publishes the new index.  The indices are the code's: they wrap modulo  *)
(* Capacity, so a compare-and-swap cannot tell an index that never moved   *)
(* from one that went all the way round.  Loads are performed in the order *)
(* of the program.                                                         *)
(*                                                                         *)
(* accepted and taken are history variables: the items in the order of     *)
(* the successful compare-and-swaps of tail, and in that of head.  So is    *)
(* seen: how many items had been taken when a pop loaded head.             *)
(***************************************************************************)
EXTENDS Naturals, Sequences

CONSTANTS
  Producers,   \* threads that call cmp_ring_buffer_push
  Consumers,   \* threads that call cmp_ring_buffer_pop
  Items,       \* the pointers that may be pushed, each once
  Capacity,    \* the capacity given to cmp_ring_buffer_init
  NULL         \* the content of a slot that calloc has zeroed

ASSUME CapacityAssumption == Capacity \in Nat \ {0}
ASSUME NullAssumption == NULL \notin Items
ASSUME RolesAssumption == Producers \cap Consumers = {}

VARIABLES buffer, head, tail, pc, cur, ret, accepted, taken, seen, offered

vars == <<buffer, head, tail, pc, cur, ret, accepted, taken, seen, offered>>

Threads == Producers \cup Consumers
Slots   == 0 .. Capacity - 1

\* The index after i: next_tail and next_head in the code.
NextIndex(i) == (i + 1) % Capacity

\* A plausible bug: no test for a full buffer.
FullNeverSeen(t, h) == FALSE

\* The test of a push: one slot always stays open.
Full(t, h) == NextIndex(t) = h

\* Plausible bugs: the last item is taken for the open slot; no test at all.
EmptyOneEarly(h, t) == h = t \/ NextIndex(h) = t
EmptyNeverSeen(h, t) == FALSE

\* The test of a pop.
Empty(h, t) == h = t

PushPCs == {"push_tail", "push_head", "push_write", "push_cas"}
PopPCs  == {"pop_head", "pop_tail", "pop_read", "pop_cas"}

\* cmp_ring_buffer_init on a buffer whose allocation succeeded.
Init ==
  /\ buffer = [i \in Slots |-> NULL]
  /\ head = 0
  /\ tail = 0
  /\ pc = [t \in Threads |-> "idle"]
  /\ cur = [t \in Threads |-> [item |-> NULL, head |-> 0, tail |-> 0]]
  /\ ret = [t \in Threads |-> "none"]
  /\ accepted = << >>
  /\ taken = << >>
  /\ seen = [c \in Consumers |-> 0]
  /\ offered = {}

Goto(t, from, to) == pc[t] = from /\ pc' = [pc EXCEPT ![t] = to]
Return(t, from, result) == Goto(t, from, "idle") /\ ret' = [ret EXCEPT ![t] = result]

-----------------------------------------------------------------------------
(* cmp_ring_buffer_push *)

PushCall(p, item) ==
  /\ Goto(p, "idle", "push_tail")
  /\ item \in Items \ offered
  /\ offered' = offered \cup {item}
  /\ cur' = [cur EXCEPT ![p].item = item]
  /\ ret' = [ret EXCEPT ![p] = "none"]
  /\ UNCHANGED <<buffer, head, tail, accepted, taken, seen>>

PushLoadTail(p) ==
  /\ Goto(p, "push_tail", "push_head")
  /\ cur' = [cur EXCEPT ![p].tail = tail]
  /\ UNCHANGED <<buffer, head, tail, ret, accepted, taken, seen, offered>>

PushLoadHead(p) ==
  /\ cur' = [cur EXCEPT ![p].head = head]
  /\ IF Full(cur[p].tail, head)
       THEN Return(p, "push_head", "BOUNDS")
       ELSE Goto(p, "push_head", "push_write") /\ UNCHANGED ret
  /\ UNCHANGED <<buffer, head, tail, accepted, taken, seen, offered>>

\* The slot is written before the index that makes it visible is moved.
PushWrite(p) ==
  /\ Goto(p, "push_write", "push_cas")
  /\ buffer' = [buffer EXCEPT ![cur[p].tail] = cur[p].item]
  /\ UNCHANGED <<head, tail, cur, ret, accepted, taken, seen, offered>>

PushCAS(p) ==
  /\ IF tail = cur[p].tail
       THEN /\ Return(p, "push_cas", "SUCCESS")
            /\ tail' = NextIndex(cur[p].tail)
            /\ accepted' = Append(accepted, cur[p].item)
       ELSE /\ Goto(p, "push_cas", "push_tail")
            /\ UNCHANGED <<ret, tail, accepted>>
  /\ UNCHANGED <<buffer, head, cur, taken, seen, offered>>

-----------------------------------------------------------------------------
(* cmp_ring_buffer_pop *)

PopCall(c) ==
  /\ Goto(c, "idle", "pop_head")
  /\ cur' = [cur EXCEPT ![c].item = NULL]
  /\ ret' = [ret EXCEPT ![c] = "none"]
  /\ UNCHANGED <<buffer, head, tail, accepted, taken, seen, offered>>

PopLoadHead(c) ==
  /\ Goto(c, "pop_head", "pop_tail")
  /\ cur' = [cur EXCEPT ![c].head = head]
  /\ seen' = [seen EXCEPT ![c] = Len(taken)]
  /\ UNCHANGED <<buffer, head, tail, ret, accepted, taken, offered>>

PopLoadTail(c) ==
  /\ cur' = [cur EXCEPT ![c].tail = tail]
  /\ IF Empty(cur[c].head, tail)
       THEN Return(c, "pop_tail", "NOT_FOUND")
       ELSE Goto(c, "pop_tail", "pop_read") /\ UNCHANGED ret
  /\ UNCHANGED <<buffer, head, tail, accepted, taken, seen, offered>>

PopRead(c) ==
  /\ Goto(c, "pop_read", "pop_cas")
  /\ cur' = [cur EXCEPT ![c].item = buffer[cur[c].head]]
  /\ UNCHANGED <<buffer, head, tail, ret, accepted, taken, seen, offered>>

\* A plausible bug: head is stored whether or not another pop has moved it.
HeadUnchangedNotLooked(c) == TRUE

HeadUnchanged(c) == head = cur[c].head

PopCAS(c) ==
  /\ IF HeadUnchanged(c)
       THEN /\ Return(c, "pop_cas", "SUCCESS")
            /\ head' = NextIndex(cur[c].head)
            /\ taken' = Append(taken, cur[c].item)
       ELSE /\ Goto(c, "pop_cas", "pop_head")
            /\ UNCHANGED <<ret, head, taken>>
  /\ UNCHANGED <<buffer, tail, cur, accepted, seen, offered>>

-----------------------------------------------------------------------------
Push(p) == PushLoadTail(p) \/ PushLoadHead(p) \/ PushWrite(p) \/ PushCAS(p)
Pop(c)  == PopLoadHead(c) \/ PopLoadTail(c) \/ PopRead(c) \/ PopCAS(c)

Next ==
  \/ \E p \in Producers : Push(p) \/ \E item \in Items : PushCall(p, item)
  \/ \E c \in Consumers : Pop(c) \/ PopCall(c)

Spec == Init /\ [][Next]_vars

\* A call that has begun runs to its end (the code has no blocking step) and
\* the consumers poll for ever, as the worker loop and the event loop do.
FairSpec ==
  /\ Spec
  /\ \A p \in Producers : WF_vars(Push(p))
  /\ \A c \in Consumers : WF_vars(Pop(c) \/ PopCall(c))

-----------------------------------------------------------------------------
(* What the indices mean. *)

\* The number of items between head and tail.
Count == IF head <= tail THEN tail - head ELSE tail + Capacity - head

\* The slot of the i-th of them, counting from zero.
SlotAt(i) == IF head + i < Capacity THEN head + i ELSE head + i - Capacity

\* The items a consumer would still find, oldest first.
Contents == [i \in 1 .. Count |-> buffer[SlotAt(i - 1)]]

TypeOK ==
  /\ buffer \in [Slots -> Items \cup {NULL}]
  /\ head \in Slots
  /\ tail \in Slots
  /\ pc \in [Threads -> {"idle"} \cup PushPCs \cup PopPCs]
  /\ cur \in [Threads -> [item : Items \cup {NULL}, head : Slots, tail : Slots]]
  /\ ret \in [Threads -> {"none", "SUCCESS", "BOUNDS", "NOT_FOUND"}]
  /\ accepted \in Seq(Items)
  /\ taken \in Seq(Items \cup {NULL})
  /\ seen \in [Consumers -> Nat]
  /\ offered \in SUBSET Items

\* What the queue promises its callers: the items handed out, followed by
\* the items still held, are the items accepted, in that order.  Nothing is
\* lost, duplicated, invented or reordered (push writes the slot at line 53
\* and publishes it at 61, pop reads it at 98 and releases it at 106).
NothingLost ==
  /\ Len(accepted) = Len(taken) + Count
  /\ \A i \in 1 .. Len(taken) : taken[i] = accepted[i]
  /\ \A i \in 1 .. Count : accepted[Len(taken) + i] = buffer[SlotAt(i - 1)]

\* Between its load of head and its compare-and-swap a pop lets the producer do
\* no full lap: the tail does not come back to the slot of the head it loaded.
\* Nothing in the code sees to that; a single consumer always does it, since
\* there nobody else makes room.
Popping(c) == pc[c] \in {"pop_tail", "pop_read", "pop_cas"}
NoLap ==
  \A c \in Consumers : Popping(c) => Len(accepted) < seen[c] + Capacity

\* The number of slots from i on to j.
Distance(i, j) == IF i <= j THEN j - i ELSE j + Capacity - i

\* What the only producer, and each consumer that is not lapped, can rely on
\* between its steps, although the others move in between: the producer's copy
\* of tail is current, a slot found free stays free, and an item that a consumer
\* has found stays in its slot, even when another has taken it in the meantime.
\* Together with NothingLost it is inductive.
ProducerView(p) ==
  /\ pc[p] \in {"idle"} \cup PushPCs
  /\ pc[p] \in PushPCs => cur[p].item \in Items
  /\ pc[p] \in {"push_head", "push_write", "push_cas"} => cur[p].tail = tail
  /\ pc[p] \in {"push_write", "push_cas"} => NextIndex(tail) # head
  /\ pc[p] = "push_cas" => buffer[tail] = cur[p].item
ConsumerView(c) ==
  /\ pc[c] \in {"idle"} \cup PopPCs
  /\ Popping(c) =>
       /\ Len(taken) = seen[c] + Distance(cur[c].head, head)
       /\ Len(accepted) = seen[c] + Distance(cur[c].head, tail)
  /\ pc[c] \in {"pop_read", "pop_cas"} => cur[c].head # tail
  /\ pc[c] = "pop_cas" => cur[c].item = buffer[cur[c].head]
LocalView ==
  /\ \A p \in Producers : ProducerView(p)
  /\ \A c \in Consumers : ConsumerView(c)

\* The slots are plain memory: no push may be about to write a slot that a
\* pop is about to read.
NoSlotRace ==
  \A p \in Producers, c \in Consumers :
    ~ /\ pc[p] = "push_write"
      /\ pc[c] = "pop_read"
      /\ cur[p].tail = cur[c].head

\* An item is pushed by one call, which has accepted it at most once.
PushedOnce ==
  /\ \A i, j \in 1 .. Len(accepted) : accepted[i] = accepted[j] => i = j
  /\ \A i \in 1 .. Len(accepted) : accepted[i] \in offered
  /\ \A p \in Producers : pc[p] \in PushPCs =>
       /\ cur[p].item \in offered
       /\ \A i \in 1 .. Len(accepted) : accepted[i] # cur[p].item

\* No item comes out of the buffer twice, which for the threaded modality
\* means that no task runs twice and no task node is freed twice.
TakenOnce ==
  \A i, j \in 1 .. Len(taken) : taken[i] = taken[j] => i = j

\* Every item a push reported as accepted is handed to some consumer.
EveryAcceptedIsTaken ==
  \A item \in Items :
    (\E i \in 1 .. Len(accepted) : accepted[i] = item)
      ~> (\E i \in 1 .. Len(taken) : taken[i] = item)

-----------------------------------------------------------------------------
(* What the buffer implements: its contents are the slots from head to tail, *)
(* and it holds Capacity - 1 items at most, since one slot is left open.     *)
Abstract == INSTANCE BoundedQueue WITH queue <- Contents, Limit <- Capacity - 1

\* Every step of the buffer is a step of the bounded queue or invisible to its
\* callers: a push is refused only when the queue is full at the load of head
\* (line 43), a pop only when it is empty at the load of tail (line 87).
ImplementsQueue == Abstract!Spec
=============================================================================
