-------------------------- MODULE RingBuffer_proofs --------------------------
(***************************************************************************)
(* Proofs about RingBuffer for every capacity, every set of items, any     *)
(* number of consumers and any length of run, when there is one producer   *)
(* and it laps no consumer; and that it cannot lap the only consumer.      *)
(***************************************************************************)
EXTENDS RingBuffer, SequenceTheorems, TLAPS

\* One thread pushes: the owner of a threaded modality, or the thread of the
\* windows.
OneProducer == \A p, q \in Producers : p = q

\* And one thread pops: the only way of use in which the plain slot accesses and
\* the wrapping indices of the code are enough, however threads are scheduled.
OneConsumer == \A c, d \in Consumers : c = d

IInv == TypeOK /\ LocalView /\ NothingLost

\* The successor of a slot, without the modulus: arithmetic the prover can do.
LEMMA NextIndexValue ==
  \A i \in Slots : NextIndex(i) = IF i + 1 = Capacity THEN 0 ELSE i + 1
<1> SUFFICES ASSUME NEW i \in Slots
             PROVE  NextIndex(i) = IF i + 1 = Capacity THEN 0 ELSE i + 1
  OBVIOUS
<1>1. Capacity \in Nat /\ Capacity > 0 /\ i \in Nat /\ i < Capacity
  BY CapacityAssumption DEF Slots
<1>2. CASE i + 1 = Capacity
  <2>1. Capacity % Capacity = 0
    BY <1>1, SMT
  <2> QED
    BY <1>2, <2>1 DEF NextIndex
<1>3. CASE i + 1 # Capacity
  <2>1. (i + 1) % Capacity = i + 1
    BY <1>1, <1>3, SMT
  <2> QED
    BY <1>3, <2>1 DEF NextIndex
<1> QED
  BY <1>2, <1>3

LEMMA NextIndexInSlots == \A i \in Slots : NextIndex(i) \in Slots
<1> SUFFICES ASSUME NEW i \in Slots PROVE NextIndex(i) \in Slots
  OBVIOUS
<1>1. NextIndex(i) = IF i + 1 = Capacity THEN 0 ELSE i + 1
  BY NextIndexValue
<1> QED
  BY <1>1, CapacityAssumption DEF Slots

-----------------------------------------------------------------------------
(* Where the items between head and tail lie. *)

\* Count and SlotAt stay in range, the first item is at head, the slot at
\* tail holds none of them, and it comes right after the last.
LEMMA Geometry ==
  ASSUME head \in Slots, tail \in Slots
  PROVE  /\ Count \in 0 .. Capacity - 1
         /\ Count = 0 <=> head = tail
         /\ \A i \in 0 .. Count : SlotAt(i) \in Slots
         /\ SlotAt(0) = head
         /\ SlotAt(Count) = tail
         /\ \A i \in 1 .. Count : SlotAt(i - 1) # tail
BY CapacityAssumption DEF Count, SlotAt, Slots

\* Moving tail one slot on makes room for one more item at the end.
LEMMA TailAdvances ==
  ASSUME head \in Slots, tail \in Slots, NextIndex(tail) # head,
         tail' = NextIndex(tail), head' = head
  PROVE  /\ tail' \in Slots
         /\ Count' = Count + 1
         /\ \A i \in 0 .. Count : SlotAt(i)' = SlotAt(i)
<1>1. NextIndex(tail) = IF tail + 1 = Capacity THEN 0 ELSE tail + 1
  BY NextIndexValue
<1> QED
  BY <1>1, CapacityAssumption DEF Count, SlotAt, Slots

\* Moving head one slot on drops the first item and keeps the others.
LEMMA HeadAdvances ==
  ASSUME head \in Slots, tail \in Slots, head # tail,
         head' = NextIndex(head), tail' = tail
  PROVE  /\ head' \in Slots
         /\ Count' = Count - 1
         /\ \A i \in 0 .. Count - 1 : SlotAt(i)' = SlotAt(i + 1)
<1>1. NextIndex(head) = IF head + 1 = Capacity THEN 0 ELSE head + 1
  BY NextIndexValue
<1> QED
  BY <1>1, CapacityAssumption DEF Count, SlotAt, Slots

\* A full buffer cannot become emptier by a push: after head has moved, a
\* slot that was free behind tail is still free.
LEMMA RoomStays ==
  ASSUME head \in Slots, tail \in Slots, head # tail, NextIndex(tail) # head
  PROVE  NextIndex(tail) # NextIndex(head)
<1>1. NextIndex(tail) = IF tail + 1 = Capacity THEN 0 ELSE tail + 1
  BY NextIndexValue
<1>2. NextIndex(head) = IF head + 1 = Capacity THEN 0 ELSE head + 1
  BY NextIndexValue
<1> QED
  BY <1>1, <1>2, CapacityAssumption DEF Slots

\* One slot stays open: the buffer is full with Capacity - 1 items.
LEMMA FullBuffer ==
  ASSUME head \in Slots, tail \in Slots
  PROVE  NextIndex(tail) = head <=> Count = Capacity - 1
<1>1. NextIndex(tail) = IF tail + 1 = Capacity THEN 0 ELSE tail + 1
  BY NextIndexValue
<1> QED
  BY <1>1, CapacityAssumption DEF Count, Slots

\* Distances are counted up to a lap; that from head to tail is the number of
\* items; and a target that moves a slot on is a slot further away.
LEMMA DistanceIsShort ==
  \A i, j \in Slots :
    /\ Distance(i, j) \in 0 .. Capacity - 1
    /\ Distance(i, j) = 0 <=> i = j
BY CapacityAssumption DEF Distance, Slots

LEMMA CountIsDistance == Count = Distance(head, tail)
BY DEF Count, Distance

LEMMA DistanceGrows ==
  ASSUME NEW i \in Slots, NEW j \in Slots, Distance(i, j) + 1 < Capacity
  PROVE  Distance(i, NextIndex(j)) = Distance(i, j) + 1
<1>1. NextIndex(j) = IF j + 1 = Capacity THEN 0 ELSE j + 1
  BY NextIndexValue
<1> QED
  BY <1>1, CapacityAssumption DEF Distance, Slots

-----------------------------------------------------------------------------
(* The inductive invariant. *)

LEMMA InitIInv == Init => IInv
<1> SUFFICES ASSUME Init PROVE IInv
  OBVIOUS
<1>1. 0 \in Slots
  BY CapacityAssumption DEF Slots
<1>2. TypeOK
  BY <1>1 DEF Init, TypeOK
<1>3. LocalView
  BY DEF Init, LocalView, ProducerView, ConsumerView, Popping, Threads, PushPCs, PopPCs
<1>4. NothingLost
  <2>1. Count = 0 /\ Len(accepted) = 0 /\ Len(taken) = 0
    BY DEF Init, Count
  <2> QED
    BY <2>1 DEF NothingLost
<1> QED
  BY <1>2, <1>3, <1>4 DEF IInv

\* A step that leaves slots, indices and histories alone loses nothing.
LEMMA NothingLostUnchanged ==
  ASSUME NothingLost, UNCHANGED <<buffer, head, tail, accepted, taken>>
  PROVE  NothingLost'
BY DEF NothingLost, Count, SlotAt

LEMMA StepTypeOK ==
  ASSUME IInv, [Next]_vars
  PROVE  TypeOK'
<1> USE DEF IInv, TypeOK, Goto, Return, PushPCs, PopPCs
<1>1. ASSUME NEW p \in Producers, NEW item \in Items, PushCall(p, item)
      PROVE  TypeOK'
  BY <1>1 DEF PushCall, Threads
<1>2. ASSUME NEW p \in Producers, PushLoadTail(p)
      PROVE  TypeOK'
  BY <1>2 DEF PushLoadTail, Threads
<1>3. ASSUME NEW p \in Producers, PushLoadHead(p)
      PROVE  TypeOK'
  BY <1>3, ZenonT(60) DEF PushLoadHead, Threads
<1>4. ASSUME NEW p \in Producers, PushWrite(p)
      PROVE  TypeOK'
  BY <1>4 DEF PushWrite, Threads
<1>5. ASSUME NEW p \in Producers, PushCAS(p)
      PROVE  TypeOK'
  <2>1. /\ cur[p] \in [item : Items \cup {NULL}, head : Slots, tail : Slots]
        /\ cur[p].item \in Items
    BY <1>5 DEF PushCAS, LocalView, ProducerView, Threads
  <2>2. tail' \in Slots
    BY <1>5, <2>1, NextIndexInSlots DEF PushCAS
  <2>3. accepted' \in Seq(Items)
    <3>1. Append(accepted, cur[p].item) \in Seq(Items)
      BY <2>1, AppendProperties
    <3> QED
      BY <1>5, <3>1 DEF PushCAS
  <2>4. ret' \in [Threads -> {"none", "SUCCESS", "BOUNDS", "NOT_FOUND"}]
    BY <1>5 DEF PushCAS
  <2>5. pc' \in [Threads -> {"idle"} \cup PushPCs \cup PopPCs]
    BY <1>5 DEF PushCAS
  <2> QED
    BY <1>5, <2>2, <2>3, <2>4, <2>5 DEF PushCAS
<1>6. ASSUME NEW c \in Consumers, PopCall(c)
      PROVE  TypeOK'
  BY <1>6 DEF PopCall, Threads
<1>7. ASSUME NEW c \in Consumers, PopLoadHead(c)
      PROVE  TypeOK'
  <2>1. Len(taken) \in Nat /\ c \in Threads
    BY LenProperties DEF Threads
  <2>2. seen' \in [Consumers -> Nat]
    BY <1>7, <2>1 DEF PopLoadHead
  <2> QED
    BY <1>7, <2>1, <2>2 DEF PopLoadHead
<1>8. ASSUME NEW c \in Consumers, PopLoadTail(c)
      PROVE  TypeOK'
  BY <1>8, ZenonT(60) DEF PopLoadTail, Threads
<1>9. ASSUME NEW c \in Consumers, PopRead(c)
      PROVE  TypeOK'
  BY <1>9 DEF PopRead, Threads
<1>10. ASSUME NEW c \in Consumers, PopCAS(c)
       PROVE  TypeOK'
  <2>1. cur[c] \in [item : Items \cup {NULL}, head : Slots, tail : Slots]
    BY DEF Threads
  <2>2. head' \in Slots
    BY <1>10, <2>1, NextIndexInSlots DEF PopCAS, HeadUnchanged
  <2>3. taken' \in Seq(Items \cup {NULL})
    <3>1. cur[c].item \in Items \cup {NULL}
      BY <2>1
    <3>2. Append(taken, cur[c].item) \in Seq(Items \cup {NULL})
      BY <3>1, AppendProperties
    <3> QED
      BY <1>10, <3>2 DEF PopCAS, HeadUnchanged
  <2>4. ret' \in [Threads -> {"none", "SUCCESS", "BOUNDS", "NOT_FOUND"}]
    BY <1>10 DEF PopCAS, HeadUnchanged
  <2>5. pc' \in [Threads -> {"idle"} \cup PushPCs \cup PopPCs]
    BY <1>10 DEF PopCAS, HeadUnchanged
  <2> QED
    BY <1>10, <2>2, <2>3, <2>4, <2>5 DEF PopCAS, HeadUnchanged
<1>11. CASE UNCHANGED vars
  BY <1>11 DEF vars
<1> QED
  BY <1>1, <1>2, <1>3, <1>4, <1>5, <1>6, <1>7, <1>8, <1>9, <1>10, <1>11
     DEF Next, Push, Pop

\* A consumer keeps its view while others move neither its locals nor indices,
\* and do not write the slot it has found.
LEMMA QuietConsumer ==
  ASSUME NEW c \in Consumers, ConsumerView(c),
         pc'[c] = pc[c], cur'[c] = cur[c], seen'[c] = seen[c],
         head' = head, tail' = tail, accepted' = accepted, taken' = taken,
         pc[c] = "pop_cas" => buffer'[cur[c].head] = buffer[cur[c].head]
  PROVE  ConsumerView(c)'
BY DEF ConsumerView, Popping, Distance, PopPCs

\* The steps of the producer: nobody else writes a slot or moves tail, the
\* consumers can only make more room, and it does not come round to the slot a
\* consumer still looks at.
LEMMA PushKeepsLocalView ==
  ASSUME OneProducer, IInv, NoLap',
         NEW p \in Producers, Push(p) \/ \E item \in Items : PushCall(p, item)
  PROVE  LocalView'
<1> USE DEF IInv, TypeOK, Goto, Return, PushPCs
<1>0. /\ Producers = {p} /\ p \in Threads /\ ProducerView(p)
      /\ \A c \in Consumers : c \in Threads /\ c # p /\ ConsumerView(c)
  BY RolesAssumption DEF OneProducer, Threads, LocalView
<1>1. ASSUME NEW item \in Items, PushCall(p, item)
      PROVE  LocalView'
  <2>1. ProducerView(p)'
    BY <1>0, <1>1 DEF PushCall, ProducerView
  <2>2. \A c \in Consumers : ConsumerView(c)'
    BY <1>0, <1>1, QuietConsumer DEF PushCall
  <2> QED
    BY <1>0, <2>1, <2>2 DEF LocalView
<1>2. CASE PushLoadTail(p)
  <2>1. ProducerView(p)'
    BY <1>0, <1>2 DEF PushLoadTail, ProducerView
  <2>2. \A c \in Consumers : ConsumerView(c)'
    BY <1>0, <1>2, QuietConsumer DEF PushLoadTail
  <2> QED
    BY <1>0, <2>1, <2>2 DEF LocalView
<1>3. CASE PushLoadHead(p)
  <2>1. ProducerView(p)'
    BY <1>0, <1>3 DEF PushLoadHead, Full, ProducerView
  <2>2. \A c \in Consumers : ConsumerView(c)'
    BY <1>0, <1>3, QuietConsumer DEF PushLoadHead
  <2> QED
    BY <1>0, <2>1, <2>2 DEF LocalView
<1>4. CASE PushWrite(p)
  <2>0. cur[p].tail = tail
    BY <1>0, <1>4 DEF PushWrite, ProducerView
  <2>1. ProducerView(p)'
    BY <1>0, <1>4, <2>0 DEF PushWrite, ProducerView
  <2>2. ASSUME NEW c \in Consumers
        PROVE  ConsumerView(c)'
    <3>1. pc[c] = "pop_cas" => cur[c].head # tail
      BY <1>0 DEF ConsumerView
    <3>2. pc[c] = "pop_cas" => buffer'[cur[c].head] = buffer[cur[c].head]
      BY <1>0, <1>4, <2>0, <3>1 DEF PushWrite
    <3> QED
      BY <1>0, <1>4, <3>2, QuietConsumer DEF PushWrite
  <2> QED
    BY <1>0, <2>1, <2>2 DEF LocalView
<1>5. CASE PushCAS(p)
  <2>0. /\ cur[p].tail = tail /\ cur[p].item \in Items
        /\ tail' = NextIndex(tail) /\ head' = head /\ buffer' = buffer
        /\ accepted' = Append(accepted, cur[p].item)
        /\ UNCHANGED <<cur, taken, seen>>
    BY <1>0, <1>5 DEF PushCAS, ProducerView
  <2>1. ProducerView(p)'
    BY <1>0, <1>5, <2>0 DEF PushCAS, ProducerView
  <2>2. ASSUME NEW c \in Consumers
        PROVE  ConsumerView(c)'
    <3>1. pc'[c] = pc[c] /\ c \in Threads
      BY <1>0, <1>5, <2>0 DEF PushCAS
    <3>2. CASE ~Popping(c)
      BY <1>0, <3>1, <3>2 DEF ConsumerView, Popping
    <3>3. CASE Popping(c)
      <4>1. /\ Len(accepted') = Len(accepted) + 1 /\ Len(accepted) \in Nat
            /\ seen[c] \in Nat /\ cur[c].head \in Slots
        BY <2>0, <3>1, AppendProperties, LenProperties
      <4>2. /\ Len(taken) = seen[c] + Distance(cur[c].head, head)
            /\ Len(accepted) = seen[c] + Distance(cur[c].head, tail)
        BY <1>0, <3>3 DEF ConsumerView
      <4>3. Len(accepted') < seen[c] + Capacity
        BY <2>0, <3>1, <3>3 DEF NoLap, Popping
      <4>4. Distance(cur[c].head, tail) \in Nat
        BY <4>1, DistanceIsShort, CapacityAssumption, SMTT(60)
      <4>5. Distance(cur[c].head, tail) + 1 < Capacity
        BY <4>1, <4>2, <4>3, <4>4, CapacityAssumption
      <4>6. Distance(cur[c].head, NextIndex(tail)) = Distance(cur[c].head, tail) + 1
        BY <4>1, <4>5, DistanceGrows
      <4>7. cur[c].head # NextIndex(tail)
        BY <4>1, <4>4, <4>6, DistanceIsShort
      <4>8. Len(accepted') = seen[c] + Distance(cur[c].head, NextIndex(tail))
        BY <4>1, <4>2, <4>4, <4>6
      <4>9. (Distance(cur[c].head, head))' = Distance(cur[c].head, head)
        BY <2>0 DEF Distance
      <4>10. (Distance(cur[c].head, tail))' = Distance(cur[c].head, NextIndex(tail))
        BY <2>0 DEF Distance
      <4> QED
        BY <1>0, <2>0, <3>1, <3>3, <4>2, <4>7, <4>8, <4>9, <4>10 DEF ConsumerView, Popping
    <3> QED
      BY <3>2, <3>3
  <2> QED
    BY <1>0, <2>1, <2>2 DEF LocalView
<1> QED
  BY <1>1, <1>2, <1>3, <1>4, <1>5 DEF Push

\* The steps of a consumer: it moves head only when head is the one it loaded,
\* and the others see it go away from the one they loaded.
LEMMA PopKeepsLocalView ==
  ASSUME IInv, NoLap, NEW c \in Consumers, Pop(c) \/ PopCall(c)
  PROVE  LocalView'
<1> USE DEF IInv, TypeOK, Goto, Return, PopPCs
<1>0. /\ c \in Threads /\ ConsumerView(c)
      /\ \A p \in Producers : p \in Threads /\ p # c /\ ProducerView(p)
      /\ \A d \in Consumers : d \in Threads /\ ConsumerView(d)
  BY RolesAssumption DEF Threads, LocalView
<1>1. ASSUME UNCHANGED <<buffer, head, tail, accepted, taken>>,
             \A t \in Threads \ {c} : pc'[t] = pc[t] /\ cur'[t] = cur[t],
             \A d \in Consumers \ {c} : seen'[d] = seen[d],
             ConsumerView(c)'
      PROVE  LocalView'
  <2>1. \A p \in Producers : ProducerView(p)'
    BY <1>0, <1>1 DEF ProducerView, PushPCs
  <2>2. ASSUME NEW d \in Consumers
        PROVE  ConsumerView(d)'
    BY <1>0, <1>1, <2>2, QuietConsumer
  <2> QED
    BY <2>1, <2>2 DEF LocalView
<1>2. CASE PopCall(c)
  <2>1. ConsumerView(c)'
    BY <1>0, <1>2 DEF PopCall, ConsumerView, Popping
  <2> QED
    BY <1>1, <1>2, <2>1 DEF PopCall
<1>3. CASE PopLoadHead(c)
  <2>1. /\ Len(accepted) = Len(taken) + Distance(head, tail)
        /\ Len(taken) \in Nat /\ Distance(head, head) = 0
    BY CountIsDistance, DistanceIsShort, LenProperties DEF NothingLost
  <2>2. /\ cur'[c].head = head /\ seen'[c] = Len(taken) /\ pc'[c] = "pop_tail"
        /\ UNCHANGED <<buffer, head, tail, accepted, taken>>
    BY <1>0, <1>3 DEF PopLoadHead
  <2>3. ConsumerView(c)'
    <3>1. (Distance(cur[c].head, head))' = Distance(head, head)
      BY <2>2 DEF Distance
    <3>2. (Distance(cur[c].head, tail))' = Distance(head, tail)
      BY <2>2 DEF Distance
    <3> QED
      BY <2>1, <2>2, <3>1, <3>2 DEF ConsumerView
  <2> QED
    BY <1>1, <1>3, <2>3 DEF PopLoadHead
<1>4. CASE PopLoadTail(c)
  <2>1. ConsumerView(c)'
    BY <1>0, <1>4 DEF PopLoadTail, Empty, ConsumerView, Popping, Distance
  <2> QED
    BY <1>1, <1>4, <2>1 DEF PopLoadTail
<1>5. CASE PopRead(c)
  <2>1. ConsumerView(c)'
    BY <1>0, <1>5 DEF PopRead, ConsumerView, Popping, Distance
  <2> QED
    BY <1>1, <1>5, <2>1 DEF PopRead
<1>6. CASE PopCAS(c) /\ ~HeadUnchanged(c)
  <2>1. ConsumerView(c)'
    BY <1>0, <1>6 DEF PopCAS, ConsumerView, Popping
  <2> QED
    BY <1>1, <1>6, <2>1 DEF PopCAS
<1>7. CASE PopCAS(c) /\ HeadUnchanged(c)
  <2>1. /\ cur[c].head = head /\ head # tail
        /\ head' = NextIndex(head) /\ tail' = tail /\ buffer' = buffer
        /\ taken' = Append(taken, cur[c].item) /\ cur[c].item \in Items \cup {NULL}
        /\ UNCHANGED <<cur, accepted, seen>>
    BY <1>0, <1>7 DEF PopCAS, HeadUnchanged, ConsumerView
  <2>2. NextIndex(tail) # head => NextIndex(tail) # NextIndex(head)
    BY <2>1, RoomStays
  <2>3. ASSUME NEW p \in Producers
        PROVE  ProducerView(p)'
    <3>1. pc'[p] = pc[p]
      BY <1>0, <1>7 DEF PopCAS
    <3> QED
      BY <1>0, <2>1, <2>2, <3>1 DEF ProducerView, PushPCs
  <2>4. /\ Len(taken') = Len(taken) + 1 /\ Len(taken) \in Nat
        /\ Len(accepted) > Len(taken) /\ Len(accepted) \in Nat
    <3>1. Count \in Nat /\ Count > 0
      BY <2>1, Geometry, CapacityAssumption
    <3>2. Len(taken') = Len(taken) + 1 /\ Len(taken) \in Nat /\ Len(accepted) \in Nat
      BY <2>1, AppendProperties, LenProperties
    <3> QED
      BY <3>1, <3>2 DEF NothingLost
  <2>5. ASSUME NEW d \in Consumers
        PROVE  ConsumerView(d)'
    <3>1. CASE d = c
      BY <1>0, <1>7, <2>1, <3>1 DEF PopCAS, HeadUnchanged, ConsumerView, Popping
    <3>2. CASE d # c /\ ~Popping(d)
      BY <1>0, <1>7, <2>1, <3>2 DEF PopCAS, HeadUnchanged, ConsumerView, Popping
    <3>3. CASE d # c /\ Popping(d)
      <4>1. pc'[d] = pc[d] /\ seen[d] \in Nat /\ cur[d].head \in Slots
        BY <1>0, <1>7, <3>3 DEF PopCAS, HeadUnchanged
      <4>2. /\ Len(taken) = seen[d] + Distance(cur[d].head, head)
            /\ Len(accepted) = seen[d] + Distance(cur[d].head, tail)
            /\ Len(accepted) < seen[d] + Capacity
        BY <1>0, <3>3 DEF ConsumerView, NoLap
      <4>3. Distance(cur[d].head, head) \in Nat
        BY <4>1, DistanceIsShort, CapacityAssumption, SMTT(60)
      <4>4. Distance(cur[d].head, head) + 1 < Capacity
        BY <2>4, <4>1, <4>2, <4>3, CapacityAssumption
      <4>5. Distance(cur[d].head, NextIndex(head)) = Distance(cur[d].head, head) + 1
        BY <4>1, <4>4, DistanceGrows
      <4>6. Len(taken') = seen[d] + Distance(cur[d].head, NextIndex(head))
        BY <2>4, <4>1, <4>2, <4>3, <4>5
      <4>7. (Distance(cur[d].head, head))' = Distance(cur[d].head, NextIndex(head))
        BY <2>1 DEF Distance
      <4>8. (Distance(cur[d].head, tail))' = Distance(cur[d].head, tail)
        BY <2>1 DEF Distance
      <4> QED
        BY <1>0, <2>1, <4>1, <4>2, <4>6, <4>7, <4>8 DEF ConsumerView, Popping
    <3> QED
      BY <3>1, <3>2, <3>3
  <2> QED
    BY <2>3, <2>5 DEF LocalView
<1> QED
  BY <1>2, <1>3, <1>4, <1>5, <1>6, <1>7 DEF Pop

LEMMA StepLocalView ==
  ASSUME OneProducer, IInv, NoLap, NoLap', [Next]_vars
  PROVE  LocalView'
<1>1. CASE UNCHANGED vars
  BY <1>1 DEF vars, IInv, LocalView, ProducerView, ConsumerView, Popping, Distance
<1> QED
  BY <1>1, PushKeepsLocalView, PopKeepsLocalView DEF Next

\* Only three steps touch what NothingLost speaks of: the write of a slot,
\* which hits the free slot at tail, and the two compare-and-swaps.
LEMMA StepNothingLost ==
  ASSUME IInv, [Next]_vars
  PROVE  NothingLost'
<1> USE DEF IInv, TypeOK, LocalView, ProducerView, ConsumerView
<1>1. ASSUME NEW p \in Producers, PushWrite(p)
      PROVE  NothingLost'
  <2>1. cur[p].tail = tail
    BY <1>1 DEF PushWrite, Goto
  <2>2. Count' = Count /\ \A i \in 0 .. Count : SlotAt(i)' = SlotAt(i)
    BY <1>1 DEF PushWrite, Count, SlotAt
  <2>3. \A i \in 1 .. Count : buffer'[SlotAt(i - 1)] = buffer[SlotAt(i - 1)]
    BY <1>1, <2>1, Geometry DEF PushWrite
  <2> QED
    BY <1>1, <2>2, <2>3, Geometry DEF PushWrite, NothingLost
<1>2. ASSUME NEW p \in Producers, PushCAS(p)
      PROVE  NothingLost'
  <2>1. /\ cur[p].tail = tail /\ NextIndex(tail) # head
        /\ buffer[tail] = cur[p].item /\ cur[p].item \in Items
    BY <1>2 DEF PushCAS, Goto, Return, PushPCs
  <2>2. /\ tail' = NextIndex(tail) /\ head' = head /\ buffer' = buffer
        /\ taken' = taken /\ accepted' = Append(accepted, buffer[tail])
    BY <1>2, <2>1 DEF PushCAS
  <2>3. /\ Count' = Count + 1
        /\ \A i \in 0 .. Count : SlotAt(i)' = SlotAt(i)
    BY <2>1, <2>2, TailAdvances
  <2>4. Count \in Nat /\ SlotAt(Count) = tail
    BY Geometry, CapacityAssumption
  <2>5. /\ Len(accepted') = Len(accepted) + 1
        /\ \A i \in 1 .. Len(accepted) : accepted'[i] = accepted[i]
        /\ accepted'[Len(accepted) + 1] = buffer[tail]
        /\ Len(accepted) \in Nat /\ Len(taken) \in Nat
    BY <2>1, <2>2, AppendProperties, LenProperties
  <2>6. Len(accepted') = Len(taken') + Count'
    BY <2>2, <2>3, <2>4, <2>5 DEF NothingLost
  <2>7. \A i \in 1 .. Len(taken') : taken'[i] = accepted'[i]
    BY <2>2, <2>4, <2>5 DEF NothingLost
  <2>8. ASSUME NEW i \in 1 .. Count'
        PROVE  accepted'[Len(taken') + i] = buffer'[SlotAt(i - 1)']
    <3>1. CASE i = Count + 1
      BY <2>2, <2>3, <2>4, <2>5, <3>1 DEF NothingLost
    <3>2. CASE i \in 1 .. Count
      <4>1. accepted[Len(taken) + i] = buffer[SlotAt(i - 1)]
        BY <3>2 DEF NothingLost
      <4>2. Len(taken) + i \in 1 .. Len(accepted)
        BY <2>4, <2>5, <3>2 DEF NothingLost
      <4> QED
        BY <2>2, <2>3, <2>4, <2>5, <3>2, <4>1, <4>2
    <3> QED
      BY <2>3, <2>4, <3>1, <3>2
  <2> QED
    BY <2>6, <2>7, <2>8 DEF NothingLost
<1>3. ASSUME NEW c \in Consumers, PopCAS(c), HeadUnchanged(c)
      PROVE  NothingLost'
  <2>1. cur[c].head = head /\ head # tail /\ cur[c].item = buffer[head]
    BY <1>3 DEF PopCAS, HeadUnchanged, Goto, Return
  <2>2. /\ head' = NextIndex(head) /\ tail' = tail /\ buffer' = buffer
        /\ accepted' = accepted /\ taken' = Append(taken, buffer[head])
    BY <1>3, <2>1 DEF PopCAS, HeadUnchanged
  <2>3. /\ Count' = Count - 1
        /\ \A i \in 0 .. Count - 1 : SlotAt(i)' = SlotAt(i + 1)
    BY <2>1, <2>2, HeadAdvances
  <2>4. Count \in Nat /\ Count > 0 /\ SlotAt(0) = head
    BY <2>1, Geometry, CapacityAssumption
  <2>5. accepted[Len(taken) + 1] = buffer[head]
    BY <2>4 DEF NothingLost
  <2>6. /\ taken \in Seq(Items \cup {NULL}) /\ Len(taken) \in Nat
        /\ Len(taken') = Len(taken) + 1
    BY <2>2
  <2>7. Len(accepted') = Len(taken') + Count'
    <3>1. Len(accepted) = Len(taken) + Count
      BY DEF NothingLost
    <3>2. Len(accepted') = Len(accepted)
      BY <2>2
    <3> QED
      BY <2>3, <2>4, <2>6, <3>1, <3>2
  <2>8. \A i \in 1 .. Len(taken') : taken'[i] = accepted'[i]
    BY <2>2, <2>5, <2>6 DEF NothingLost
  <2>9. ASSUME NEW i \in 1 .. Count'
        PROVE  accepted'[Len(taken') + i] = buffer'[SlotAt(i - 1)']
    <3>1. i + 1 \in 1 .. Count /\ i - 1 \in 0 .. Count - 1
      BY <2>3, <2>4
    <3>2. SlotAt(i - 1)' = SlotAt(i)
      BY <2>3, <3>1
    <3>3. accepted[Len(taken) + (i + 1)] = buffer[SlotAt(i)]
      BY <3>1 DEF NothingLost
    <3> QED
      BY <2>2, <2>6, <3>1, <3>2, <3>3
  <2> QED
    BY <2>7, <2>8, <2>9 DEF NothingLost
<1>4. ASSUME NEW c \in Consumers, PopCAS(c), ~HeadUnchanged(c)
      PROVE  UNCHANGED <<buffer, head, tail, accepted, taken>>
  BY <1>4 DEF PopCAS
<1>5. CASE UNCHANGED <<buffer, head, tail, accepted, taken>>
  BY <1>5, NothingLostUnchanged
<1> QED
  BY <1>1, <1>2, <1>3, <1>4, <1>5
     DEF Next, Push, Pop, vars, PushCall, PushLoadTail, PushLoadHead,
         PopCall, PopLoadHead, PopLoadTail, PopRead

LEMMA InvariantIInv ==
  ASSUME OneProducer
  PROVE  Spec /\ []NoLap => []IInv
<1>1. Init => IInv
  BY InitIInv
<1>2. IInv /\ NoLap /\ NoLap' /\ [Next]_vars => IInv'
  BY StepTypeOK, StepLocalView, StepNothingLost DEF IInv
<1> QED
  BY <1>1, <1>2, PTL DEF Spec

-----------------------------------------------------------------------------
(* The only consumer is not lapped. *)

\* Nobody but the consumer moves head, so the head it loaded is current.
HeadIsCurrent == \A c \in Consumers : Popping(c) => seen[c] = Len(taken)

LEMMA StepHeadIsCurrent ==
  ASSUME OneConsumer, TypeOK, HeadIsCurrent, [Next]_vars
  PROVE  HeadIsCurrent'
<1> USE DEF TypeOK, HeadIsCurrent, Popping, Goto, Return
<1>1. ASSUME NEW p \in Producers, Push(p) \/ \E item \in Items : PushCall(p, item)
      PROVE  HeadIsCurrent'
  <2>1. UNCHANGED <<seen, taken>> /\ \A t \in Threads \ {p} : pc'[t] = pc[t]
    BY <1>1 DEF Push, PushCall, PushLoadTail, PushLoadHead, PushWrite, PushCAS, Threads
  <2>2. \A c \in Consumers : c \in Threads \ {p}
    BY RolesAssumption DEF Threads
  <2> QED
    BY <2>1, <2>2
<1>2. ASSUME NEW c \in Consumers, Pop(c) \/ PopCall(c)
      PROVE  HeadIsCurrent'
  <2>1. Consumers = {c} /\ c \in Threads
    BY DEF OneConsumer, Threads
  <2>2. CASE PopCall(c)
    BY <2>1, <2>2 DEF PopCall
  <2>3. CASE PopLoadHead(c)
    BY <2>1, <2>3 DEF PopLoadHead
  <2>4. CASE PopLoadTail(c)
    BY <2>1, <2>4 DEF PopLoadTail
  <2>5. CASE PopRead(c)
    BY <2>1, <2>5 DEF PopRead
  <2>6. CASE PopCAS(c)
    BY <2>1, <2>6 DEF PopCAS
  <2> QED
    BY <1>2, <2>2, <2>3, <2>4, <2>5, <2>6 DEF Pop
<1>3. CASE UNCHANGED vars
  BY <1>3 DEF vars
<1> QED
  BY <1>1, <1>2, <1>3 DEF Next

LEMMA CurrentIsNotLapped == TypeOK /\ NothingLost /\ HeadIsCurrent => NoLap
<1> SUFFICES ASSUME TypeOK, NothingLost, HeadIsCurrent PROVE NoLap
  OBVIOUS
<1> USE DEF TypeOK
<1>1. Count \in 0 .. Capacity - 1 /\ Len(taken) \in Nat
  BY Geometry, LenProperties
<1>2. Len(accepted) < Len(taken) + Capacity
  BY <1>1, CapacityAssumption DEF NothingLost
<1> QED
  BY <1>2 DEF NoLap, HeadIsCurrent

\* With one consumer the hypothesis of the theorems below is no hypothesis: the
\* buffer is full before the producer could come round.
THEOREM OneConsumerIsNotLapped ==
  ASSUME OneProducer, OneConsumer
  PROVE  Spec => []NoLap
<1> DEFINE Both == IInv /\ HeadIsCurrent
<1>1. Init => Both
  BY InitIInv DEF Init, HeadIsCurrent, Popping, Threads
<1>2. ASSUME Both, [Next]_vars
      PROVE  Both'
  <2>1. TypeOK' /\ NothingLost' /\ HeadIsCurrent'
    BY <1>2, StepTypeOK, StepNothingLost, StepHeadIsCurrent DEF IInv
  <2>2. NoLap
    BY <1>2, CurrentIsNotLapped DEF IInv
  <2>3. NoLap'
    BY <2>1, CurrentIsNotLapped, PTL
  <2> QED
    BY <1>2, <2>1, <2>2, <2>3, StepLocalView DEF IInv
<1>3. Both => NoLap
  BY CurrentIsNotLapped DEF IInv
<1> QED
  BY <1>1, <1>2, <1>3, PTL DEF Spec

-----------------------------------------------------------------------------
(* The theorems. *)

\* The indices stay in the array and the program counters where they belong,
\* and only pushed items are handed out, whatever the length of the run.
THEOREM TypeCorrect ==
  ASSUME OneProducer
  PROVE  Spec /\ []NoLap => []TypeOK
<1>1. IInv => TypeOK
  BY DEF IInv
<1> QED
  BY <1>1, InvariantIInv, PTL

\* cmp_ring_buffer_t hands over every accepted item once and in order when one
\* thread pushes, however many pop, as long as it laps none of them.
THEOREM NothingIsLost ==
  ASSUME OneProducer
  PROVE  Spec /\ []NoLap => []NothingLost
<1>1. IInv => NothingLost
  BY DEF IInv
<1> QED
  BY <1>1, InvariantIInv, PTL

\* The plain accesses to the slots never race: the producer writes at tail, and
\* a consumer reads at the head it has loaded, which differs from it even when
\* others have moved head.
THEOREM SlotsDoNotRace ==
  ASSUME OneProducer
  PROVE  Spec /\ []NoLap => []NoSlotRace
<1>1. IInv => NoSlotRace
  BY DEF IInv, LocalView, ProducerView, ConsumerView, NoSlotRace
<1> QED
  BY <1>1, InvariantIInv, PTL

LEMMA StepPushedOnce ==
  ASSUME OneProducer, IInv, PushedOnce, [Next]_vars
  PROVE  PushedOnce'
<1> USE DEF IInv, TypeOK, PushedOnce, Goto, Return, PushPCs
<1>1. ASSUME NEW p \in Producers, NEW item \in Items, PushCall(p, item)
      PROVE  PushedOnce'
  <2>1. Producers = {p} /\ p \in Threads
    BY DEF OneProducer, Threads
  <2>2. /\ cur'[p].item = item /\ item \notin offered
        /\ offered' = offered \cup {item} /\ accepted' = accepted
    BY <1>1, <2>1 DEF PushCall
  <2> QED
    BY <2>1, <2>2
<1>2. ASSUME NEW p \in Producers, PushCAS(p), tail = cur[p].tail
      PROVE  PushedOnce'
  <2>1. Producers = {p} /\ p \in Threads /\ pc[p] = "push_cas" /\ pc'[p] = "idle"
    BY <1>2 DEF OneProducer, PushCAS, Threads
  <2>2. cur[p].item \in Items
    BY <2>1 DEF LocalView, ProducerView
  <2>3. /\ accepted' = Append(accepted, cur[p].item) /\ offered' = offered
        /\ Len(accepted) \in Nat /\ Len(accepted') = Len(accepted) + 1
        /\ \A i \in 1 .. Len(accepted) : accepted'[i] = accepted[i]
        /\ accepted'[Len(accepted) + 1] = cur[p].item
    <3>1. accepted' = Append(accepted, cur[p].item) /\ offered' = offered
      BY <1>2 DEF PushCAS
    <3>2. accepted \in Seq(Items)
      OBVIOUS
    <3> HIDE DEF IInv, TypeOK, PushedOnce
    <3> QED
      BY <2>2, <3>1, <3>2, AppendProperties, LenProperties
  <2>4. \A i \in 1 .. Len(accepted') : i \in 1 .. Len(accepted) \/ i = Len(accepted) + 1
    BY <2>3
  <2>5. \A i, j \in 1 .. Len(accepted') : accepted'[i] = accepted'[j] => i = j
    BY <2>1, <2>3, <2>4
  <2>6. \A i \in 1 .. Len(accepted') : accepted'[i] \in offered'
    BY <2>1, <2>3, <2>4
  <2> QED
    BY <2>1, <2>5, <2>6
<1>3. CASE /\ UNCHANGED <<accepted, offered>>
           /\ \A p \in Producers : pc'[p] \in PushPCs =>
                pc[p] \in PushPCs /\ cur'[p].item = cur[p].item
  BY <1>3
<1>4. ASSUME NEW p \in Producers,
             \/ PushLoadTail(p) \/ PushLoadHead(p) \/ PushWrite(p)
             \/ PushCAS(p) /\ tail # cur[p].tail
      PROVE  PushedOnce'
  <2>1. Producers = {p} /\ p \in Threads
    BY DEF OneProducer, Threads
  <2> QED
    BY <1>3, <1>4, <2>1 DEF PushLoadTail, PushLoadHead, PushWrite, PushCAS
<1>5. ASSUME NEW c \in Consumers, Pop(c) \/ PopCall(c)
      PROVE  PushedOnce'
  <2>1. \A p \in Producers : p \in Threads /\ p # c
    BY RolesAssumption DEF Threads
  <2>2. /\ UNCHANGED <<accepted, offered>>
        /\ \A p \in Producers : pc'[p] = pc[p] /\ cur'[p] = cur[p]
    BY <1>5, <2>1 DEF Pop, PopCall, PopLoadHead, PopLoadTail, PopRead, PopCAS
  <2> QED
    BY <1>3, <2>2
<1>6. CASE UNCHANGED vars
  BY <1>3, <1>6 DEF vars
<1> QED
  BY <1>1, <1>2, <1>4, <1>5, <1>6 DEF Next, Push

\* No item is handed out twice: what the runs with a second producer, and with
\* consumers that are lapped, refute.  The items taken are among those accepted,
\* in their order, and each of these is there once.
THEOREM NothingIsTakenTwice ==
  ASSUME OneProducer
  PROVE  Spec /\ []NoLap => []TakenOnce
<1>1. Init => PushedOnce
  BY DEF Init, PushedOnce, PushPCs, Threads
<1>2. IInv /\ PushedOnce /\ [Next]_vars => PushedOnce'
  BY StepPushedOnce
<1>3. IInv /\ PushedOnce => TakenOnce
  <2> SUFFICES ASSUME IInv, PushedOnce,
                      NEW i \in 1 .. Len(taken), NEW j \in 1 .. Len(taken),
                      taken[i] = taken[j]
               PROVE  i = j
    BY DEF TakenOnce
  <2>1. Count \in Nat /\ Len(taken) \in Nat /\ Len(accepted) = Len(taken) + Count
    BY Geometry, CapacityAssumption, LenProperties DEF IInv, TypeOK, NothingLost
  <2>2. i \in 1 .. Len(accepted) /\ j \in 1 .. Len(accepted)
    BY <2>1
  <2>3. accepted[i] = accepted[j]
    BY DEF IInv, NothingLost
  <2> QED
    BY <2>2, <2>3 DEF PushedOnce
<1> QED
  BY <1>1, <1>2, <1>3, InvariantIInv, PTL DEF Spec

-----------------------------------------------------------------------------
(* The buffer implements the bounded queue. *)

LEMMA LenContents ==
  ASSUME head \in Slots, tail \in Slots, NEW S,
         buffer \in [Slots -> S]
  PROVE  Contents \in Seq(S) /\ Len(Contents) = Count
<1>1. Count \in Nat /\ \A i \in 1 .. Count : SlotAt(i - 1) \in Slots
  BY Geometry, CapacityAssumption
<1>2. \A i \in 1 .. Count : buffer[SlotAt(i - 1)] \in S
  BY <1>1
<1> QED
  BY <1>1, <1>2, IsASeq DEF Contents

\* What the queue holds changes only at the two compare-and-swaps.
LEMMA ContentsUnchanged ==
  ASSUME UNCHANGED <<buffer, head, tail>>
  PROVE  UNCHANGED Contents
BY DEF Contents, Count, SlotAt

\* The write of a slot before the compare-and-swap is invisible to consumers.
LEMMA WriteIsInvisible ==
  ASSUME IInv, NEW p \in Producers, PushWrite(p)
  PROVE  UNCHANGED Contents
<1> USE DEF IInv, TypeOK
<1>1. cur[p].tail = tail
  BY DEF PushWrite, Goto, LocalView, ProducerView
<1>2. Count' = Count /\ \A i : SlotAt(i)' = SlotAt(i)
  BY DEF PushWrite, Count, SlotAt
<1>3. \A i \in 1 .. Count : buffer'[SlotAt(i - 1)] = buffer[SlotAt(i - 1)]
  BY <1>1, Geometry DEF PushWrite
<1> QED
  BY <1>2, <1>3 DEF Contents

LEMMA PushAppends ==
  ASSUME IInv, NEW p \in Producers, PushCAS(p)
  PROVE  /\ Contents' = Append(Contents, cur[p].item)
         /\ Len(Contents) < Capacity - 1
         /\ cur[p].item \in Items
         /\ ret' = [ret EXCEPT ![p] = "SUCCESS"]
<1> USE DEF IInv, TypeOK
<1>1. /\ cur[p].tail = tail /\ NextIndex(tail) # head
      /\ buffer[tail] = cur[p].item /\ cur[p].item \in Items
  BY DEF PushCAS, Goto, Return, PushPCs, LocalView, ProducerView
<1>2. /\ tail' = NextIndex(tail) /\ head' = head /\ buffer' = buffer
      /\ ret' = [ret EXCEPT ![p] = "SUCCESS"]
  BY <1>1 DEF PushCAS, Return
<1>3. /\ Count' = Count + 1 /\ tail' \in Slots
      /\ \A i \in 0 .. Count : SlotAt(i)' = SlotAt(i)
  BY <1>1, <1>2, TailAdvances
<1>4. Count \in Nat /\ SlotAt(Count) = tail
  BY Geometry, CapacityAssumption
<1>5. Contents \in Seq(Items \cup {NULL}) /\ Len(Contents) = Count
  BY LenContents
<1>6. Contents' \in Seq(Items \cup {NULL}) /\ Len(Contents') = Count + 1
  <2>1. \A i \in 1 .. Count + 1 : buffer[SlotAt(i - 1)] \in Items \cup {NULL}
    BY <1>4, Geometry
  <2>2. Contents' = [i \in 1 .. Count + 1 |-> buffer[SlotAt(i - 1)]]
    BY <1>2, <1>3, <1>4 DEF Contents
  <2> QED
    BY <1>4, <2>1, <2>2, IsASeq
<1>7. ASSUME NEW i \in 1 .. Count + 1
      PROVE  Contents'[i] = Append(Contents, cur[p].item)[i]
  <2>1. Contents'[i] = buffer[SlotAt(i - 1)]
    <3>1. Contents'[i] = buffer'[SlotAt(i - 1)']
      BY <1>3, <1>4 DEF Contents
    <3>2. i - 1 \in 0 .. Count
      BY <1>4
    <3> QED
      BY <1>2, <1>3, <3>1, <3>2
  <2>2. CASE i = Count + 1
    <3>1. Append(Contents, cur[p].item)[Count + 1] = cur[p].item
      BY <1>1, <1>5, AppendProperties
    <3>2. SlotAt(i - 1) = tail
      BY <1>4, <2>2
    <3> QED
      BY <1>1, <2>1, <2>2, <3>1, <3>2
  <2>3. CASE i \in 1 .. Count
    <3>1. Contents[i] = buffer[SlotAt(i - 1)]
      BY <2>3 DEF Contents
    <3> QED
      BY <1>1, <1>5, <2>1, <2>3, <3>1, AppendProperties
  <2>4. i = Count + 1 \/ i \in 1 .. Count
    BY <1>4
  <2> QED
    BY <2>2, <2>3, <2>4
<1>8. /\ Append(Contents, cur[p].item) \in Seq(Items \cup {NULL})
      /\ Len(Append(Contents, cur[p].item)) = Count + 1
  <2>1. cur[p].item \in Items \cup {NULL}
    BY <1>1
  <2> QED
    BY <1>5, <2>1, AppendProperties
<1>9. Count < Capacity - 1
  <2>1. Count \in 0 .. Capacity - 1 /\ Count # Capacity - 1
    BY <1>1, Geometry, FullBuffer
  <2> QED
    BY <2>1, CapacityAssumption
<1> QED
  BY <1>1, <1>2, <1>5, <1>6, <1>7, <1>8, <1>9, SeqEqual

LEMMA PopRemoves ==
  ASSUME IInv, NEW c \in Consumers, PopCAS(c), HeadUnchanged(c)
  PROVE  /\ Contents # << >>
         /\ Contents' = Tail(Contents)
         /\ ret' = [ret EXCEPT ![c] = "SUCCESS"]
<1> USE DEF IInv, TypeOK
<1>1. cur[c].head = head /\ head # tail
  BY DEF PopCAS, HeadUnchanged, Goto, Return, LocalView, ConsumerView
<1>2. /\ head' = NextIndex(head) /\ tail' = tail /\ buffer' = buffer
      /\ ret' = [ret EXCEPT ![c] = "SUCCESS"]
  BY <1>1 DEF PopCAS, HeadUnchanged, Return
<1>3. /\ Count' = Count - 1 /\ head' \in Slots
      /\ \A i \in 0 .. Count - 1 : SlotAt(i)' = SlotAt(i + 1)
  BY <1>1, <1>2, HeadAdvances
<1>4. Count \in Nat /\ Count > 0
  BY <1>1, Geometry, CapacityAssumption
<1>5. Contents \in Seq(Items \cup {NULL}) /\ Len(Contents) = Count
  BY LenContents
<1>6. Contents' \in Seq(Items \cup {NULL}) /\ Len(Contents') = Count - 1
  <2>1. \A i \in 1 .. Count - 1 : buffer[SlotAt(i)] \in Items \cup {NULL}
    BY <1>4, Geometry
  <2>2. Contents' = [i \in 1 .. Count - 1 |-> buffer'[SlotAt(i - 1)']]
    BY <1>3 DEF Contents
  <2>3. \A i \in 1 .. Count - 1 : SlotAt(i - 1)' = SlotAt(i)
    <3>1. SUFFICES ASSUME NEW i \in 1 .. Count - 1 PROVE SlotAt(i - 1)' = SlotAt(i)
      OBVIOUS
    <3>2. i - 1 \in 0 .. Count - 1 /\ (i - 1) + 1 = i
      BY <1>4
    <3> QED
      BY <1>3, <3>2
  <2>4. Contents' = [i \in 1 .. Count - 1 |-> buffer[SlotAt(i)]]
    BY <1>2, <2>2, <2>3
  <2> QED
    BY <1>4, <2>1, <2>4, IsASeq
<1>7. Contents # << >>
  BY <1>4, <1>5
<1>8. /\ Tail(Contents) \in Seq(Items \cup {NULL})
      /\ Len(Tail(Contents)) = Count - 1
      /\ \A i \in 1 .. Count - 1 : Tail(Contents)[i] = Contents[i + 1]
  BY <1>5, <1>7, HeadTailProperties
<1>9. ASSUME NEW i \in 1 .. Count - 1
      PROVE  Contents'[i] = Tail(Contents)[i]
  <2>1. i - 1 \in 0 .. Count - 1 /\ i + 1 \in 1 .. Count /\ (i - 1) + 1 = i
    BY <1>4
  <2>2. SlotAt(i - 1)' = SlotAt(i)
    BY <1>3, <2>1
  <2>3. Contents'[i] = buffer[SlotAt(i)]
    <3>1. Contents'[i] = buffer'[SlotAt(i - 1)']
      BY <1>3, <1>4 DEF Contents
    <3> QED
      BY <1>2, <2>2, <3>1
  <2>4. Contents[i + 1] = buffer[SlotAt(i)]
    BY <2>1 DEF Contents
  <2> QED
    BY <1>8, <2>3, <2>4
<1> QED
  BY <1>2, <1>6, <1>7, <1>8, <1>9, SeqEqual

LEMMA FullWhenRefused ==
  ASSUME IInv, NEW p \in Producers, PushLoadHead(p), Full(cur[p].tail, head)
  PROVE  Len(Contents) = Capacity - 1
<1> USE DEF IInv, TypeOK
<1>1. NextIndex(tail) = head
  BY DEF PushLoadHead, Goto, Return, LocalView, ProducerView, Full
<1> QED
  BY <1>1, FullBuffer, LenContents

LEMMA EmptyWhenNotFound ==
  ASSUME IInv, NEW c \in Consumers, PopLoadTail(c), Empty(cur[c].head, tail)
  PROVE  Contents = << >>
<1> USE DEF IInv, TypeOK
<1>1. head = tail
  <2>1. c \in Threads /\ ConsumerView(c) /\ Popping(c) /\ cur[c].head = tail
    BY DEF PopLoadTail, Goto, Return, LocalView, Threads, Empty, Popping
  <2>2. Distance(cur[c].head, tail) = 0 /\ Distance(cur[c].head, head) \in Nat
    BY <2>1, DistanceIsShort, CapacityAssumption
  <2>3. Len(accepted) <= Len(taken) /\ Len(taken) \in Nat /\ Len(accepted) \in Nat
    BY <2>1, <2>2, LenProperties DEF ConsumerView
  <2> QED
    BY <2>3, Geometry, CapacityAssumption DEF NothingLost
<1>2. Len(Contents) = 0 /\ Contents \in Seq(Items \cup {NULL})
  BY <1>1, LenContents, Geometry
<1> QED
  BY <1>2, EmptySeq

LEMMA StepImplements ==
  ASSUME IInv, [Next]_vars
  PROVE  [Abstract!Next]_(Abstract!qvars)
<1> USE DEF Abstract!Next, Abstract!qvars
<1>1. ASSUME NEW p \in Producers, NEW item \in Items, PushCall(p, item)
      PROVE  Abstract!Call(p)
  BY <1>1, ContentsUnchanged DEF PushCall, Abstract!Call
<1>2. ASSUME NEW p \in Producers, PushLoadHead(p)
      PROVE  Abstract!Refuse(p) \/ UNCHANGED Abstract!qvars
  BY <1>2, ContentsUnchanged, FullWhenRefused
     DEF PushLoadHead, Return, Abstract!Refuse
<1>3. ASSUME NEW p \in Producers, PushCAS(p)
      PROVE  \E item \in Items : Abstract!Push(p, item)
  BY <1>3, PushAppends DEF Abstract!Push
<1>4. ASSUME NEW c \in Consumers, PopCall(c)
      PROVE  Abstract!Call(c)
  BY <1>4, ContentsUnchanged DEF PopCall, Abstract!Call
<1>5. ASSUME NEW c \in Consumers, PopLoadTail(c)
      PROVE  Abstract!FindEmpty(c) \/ UNCHANGED Abstract!qvars
  BY <1>5, ContentsUnchanged, EmptyWhenNotFound
     DEF PopLoadTail, Return, Abstract!FindEmpty
<1>6. ASSUME NEW c \in Consumers, PopCAS(c)
      PROVE  Abstract!Pop(c) \/ UNCHANGED Abstract!qvars
  BY <1>6, PopRemoves, ContentsUnchanged DEF PopCAS, Abstract!Pop
<1>7. ASSUME NEW p \in Producers, PushLoadTail(p) \/ PushWrite(p)
      PROVE  UNCHANGED Abstract!qvars
  BY <1>7, ContentsUnchanged, WriteIsInvisible DEF PushLoadTail, PushWrite
<1>8. ASSUME NEW c \in Consumers, PopLoadHead(c) \/ PopRead(c)
      PROVE  UNCHANGED Abstract!qvars
  BY <1>8, ContentsUnchanged DEF PopLoadHead, PopRead
<1>9. CASE UNCHANGED vars
  BY <1>9, ContentsUnchanged DEF vars
<1> QED
  BY <1>1, <1>2, <1>3, <1>4, <1>5, <1>6, <1>7, <1>8, <1>9 DEF Next, Push, Pop

\* With one producer that laps no consumer the array and its two indices are a
\* bounded first-in first-out queue whose operations look atomic, and a call is
\* refused only when the queue really is full or empty: the queue that the
\* model of the worker pool has.
THEOREM Implementation ==
  ASSUME OneProducer
  PROVE  Spec /\ []NoLap => ImplementsQueue
<1>1. Init => Abstract!Init
  <2> SUFFICES ASSUME Init PROVE Abstract!Init
    OBVIOUS
  <2>1. Contents = << >>
    BY DEF Init, Contents, Count
  <2> QED
    BY <2>1 DEF Init, Abstract!Init, Threads
<1>2. IInv /\ [Next]_vars => [Abstract!Next]_(Abstract!qvars)
  BY StepImplements
<1> QED
  BY <1>1, <1>2, InvariantIInv, PTL DEF Spec, ImplementsQueue, Abstract!Spec
=============================================================================
