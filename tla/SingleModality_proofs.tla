------------------------ MODULE SingleModality_proofs ------------------------
(***************************************************************************)
(* Proofs about SingleModality for any tasks and any depth of nested runs. *)
(***************************************************************************)
EXTENDS SingleModality, Integers, TLAPS, SequenceTheorems, WellFoundedInduction

(* Induction without an operator: a non-empty set of numbers has a least one. *)

LEMMA LeastNumber ==
  ASSUME NEW T, T \subseteq Nat, T # {}
  PROVE  \E m \in T : \A n \in T : m <= n
<1> DEFINE Less == OpToRel(<, Nat)
<1>1. IsWellFoundedOn(Less, Nat)
  BY NatLessThanWellFounded
<1>2. \A x, y \in Nat : x < y => <<x, y>> \in Less
  BY DEF OpToRel
<1> HIDE DEF Less
<1>3. PICK x \in T : \A y \in T : <<y, x>> \notin Less
  BY <1>1, WFMin
<1>4. \A y \in T : ~(y < x)
  BY <1>2, <1>3
<1> QED
  BY <1>4

-----------------------------------------------------------------------------
Types ==
  /\ head \in Tasks \cup {NULL} /\ tail \in Tasks \cup {NULL}
  /\ next \in [Tasks -> Tasks \cup {NULL}]
  /\ node \in [Tasks -> {"none", "live", "freed"}]
  /\ running \in BOOLEAN
  /\ memory \in {"live", "freed"}
  /\ frames \in Seq(Tasks \cup {NULL})
  /\ accepted \in Seq(Tasks) /\ started \in Seq(Tasks)

\* The tasks begun are the first of those accepted; no node is accepted twice.
Histories ==
  /\ Len(started) <= Len(accepted)
  /\ \A i \in 1 .. Len(started) : started[i] = accepted[i]
  /\ \A i, j \in 1 .. Len(accepted) : accepted[i] = accepted[j] => i = j
  /\ \A i \in 1 .. Len(accepted) : node[accepted[i]] # "none"

\* The places in accepted of the tasks that have not begun.
Places == Len(started) + 1 .. Len(accepted)

\* The list links the nodes that have not begun, in the order of accepted.
Linked ==
  memory = "live" =>
    /\ Places = {} => head = NULL /\ tail = NULL
    /\ Places # {} => /\ head = accepted[Len(started) + 1]
                      /\ tail = accepted[Len(accepted)]
                      /\ next[accepted[Len(accepted)]] = NULL
    /\ \A i \in Places : node[accepted[i]] = "live"
    /\ \A i \in Places : i < Len(accepted) => next[accepted[i]] = accepted[i + 1]

\* Each activation of the loop holds the node of a task that it has begun, and
\* no two hold the same.
Held ==
  /\ \A k \in 1 .. Len(frames) : frames[k] # NULL =>
       /\ node[frames[k]] = "live"
       /\ \E i \in 1 .. Len(started) : accepted[i] = frames[k]
  /\ \A k, m \in 1 .. Len(frames) : frames[k] # NULL /\ frames[k] = frames[m] => k = m

\* A node that was not freed is in the list or held.
Accounted ==
  \A t \in Tasks : node[t] = "live" =>
    \/ \E k \in 1 .. Len(frames) : frames[k] = t
    \/ memory = "live" /\ \E i \in Places : accepted[i] = t

\* A state block that was freed is not looked at again.
StoppedWhenFreed == memory = "freed" => Len(frames) = 0 \/ ~running

ListInv == Types /\ Histories /\ Linked /\ Held /\ Accounted /\ StoppedWhenFreed

LEMMA ListInvInit == Init => ListInv
<1> SUFFICES ASSUME Init PROVE ListInv
  OBVIOUS
<1>1. Types
  <2>1. << >> \in Seq(Tasks) /\ << >> \in Seq(Tasks \cup {NULL})
    OBVIOUS
  <2> QED
    BY <2>1 DEF Init, Types
<1>2. Len(frames) = 0 /\ Len(started) = 0 /\ Len(accepted) = 0 /\ Places = {}
  BY DEF Init, Places
<1> QED
  BY <1>1, <1>2 DEF Init, ListInv, Histories, Linked, Held, Accounted, StoppedWhenFreed

-----------------------------------------------------------------------------
(* Each action. *)

LEMMA QueueTaskStep ==
  ASSUME ListInv, NEW t \in Tasks, QueueTask(t)
  PROVE  ListInv'
<1> DEFINE n == Len(accepted)
<1>0. /\ Types /\ Histories /\ Linked /\ Held /\ Accounted
      /\ memory = "live" /\ node[t] = "none" /\ node' = [node EXCEPT ![t] = "live"]
      /\ AppendNode(t) /\ accepted' = Append(accepted, t)
      /\ UNCHANGED <<running, memory, frames, started>>
  BY DEF ListInv, QueueTask
<1>1. /\ n \in Nat /\ Len(accepted') = n + 1 /\ accepted'[n + 1] = t
      /\ \A i \in 1 .. n : accepted'[i] = accepted[i] /\ accepted[i] \in Tasks
      /\ Len(started) \in Nat
  BY <1>0 DEF Types
<1>2. \A i \in 1 .. n : accepted[i] # t
  BY <1>0 DEF Histories
<1>3. Places' = Places \cup {n + 1} /\ Places \subseteq 1 .. n /\ Len(started) <= n
  BY <1>0, <1>1 DEF Places, Histories
<1>4. \A u \in Tasks : u # t => node'[u] = node[u]
  BY <1>0 DEF Types
<1>5. Types'
  BY <1>0, SMTT(60) DEF Types, AppendNode
<1>6. Histories'
  <2>1. Len(started') <= Len(accepted')
    BY <1>0, <1>1, <1>3
  <2>2. \A i \in 1 .. Len(started') : started'[i] = accepted'[i]
    <3> SUFFICES ASSUME NEW i \in 1 .. Len(started) PROVE started[i] = accepted'[i]
      BY <1>0
    <3>1. i \in 1 .. n
      BY <1>1, <1>3
    <3> QED
      BY <1>0, <1>1, <3>1 DEF Histories
  <2>3. \A i \in 1 .. n + 1 : i \in 1 .. n \/ i = n + 1
    BY <1>1
  <2>4. ASSUME NEW i \in 1 .. n + 1, NEW j \in 1 .. n + 1, accepted'[i] = accepted'[j]
        PROVE  i = j
    <3>1. CASE i \in 1 .. n /\ j \in 1 .. n
      BY <1>0, <1>1, <2>4, <3>1 DEF Histories
    <3>2. CASE i = n + 1 \/ j = n + 1
      BY <1>1, <1>2, <2>3, <2>4, <3>2
    <3> QED
      BY <2>3, <3>1, <3>2
  <2>5. ASSUME NEW i \in 1 .. n + 1 PROVE node'[accepted'[i]] # "none"
    <3>1. CASE i \in 1 .. n
      BY <1>0, <1>1, <1>2, <1>4, <3>1 DEF Histories
    <3>2. CASE i = n + 1
      BY <1>0, <1>1, <3>2 DEF Types
    <3> QED
      BY <2>3, <3>1, <3>2
  <2>6. Len(accepted') = n + 1
    BY <1>1
  <2> HIDE DEF n
  <2> QED
    BY <2>1, <2>2, <2>4, <2>5, <2>6 DEF Histories
<1>7. Held'
  <2>1. \A k \in 1 .. Len(frames) : frames[k] # NULL => frames[k] \in Tasks
    BY <1>0 DEF Types
  <2>2. \A k \in 1 .. Len(frames) : frames[k] # NULL => node'[frames[k]] = "live"
    BY <1>0, <1>4, <2>1 DEF Held
  <2> QED
    BY <1>0, <1>1, <1>3, <2>2 DEF Held
<1>8. Accounted'
  BY <1>0, <1>1, <1>3, <1>4 DEF Accounted
<1>9. Linked'
  <2>1. \A i \in Places' : node'[accepted'[i]] = "live"
    BY <1>0, <1>1, <1>2, <1>3, <1>4 DEF Linked, Types
  <2>2. CASE Places = {}
    <3>1. tail = NULL /\ head' = t /\ tail' = t /\ next' = [next EXCEPT ![t] = NULL]
      BY <1>0, <2>2 DEF Linked, AppendNode
    <3>2. Len(started) = n
      BY <1>1, <1>3, <2>2 DEF Places
    <3> QED
      BY <1>0, <1>1, <1>3, <2>1, <2>2, <3>1, <3>2 DEF Linked, Types
  <2>3. CASE Places # {}
    <3>1. /\ tail = accepted[n] /\ n \in Places /\ tail \in Tasks /\ tail # NULL /\ tail # t
      BY <1>0, <1>1, <1>2, <1>3, <2>3, NullAssumption DEF Linked, Places
    <3>2. head' = head /\ tail' = t /\ next' = [next EXCEPT ![t] = NULL, ![tail] = t]
      BY <1>0, <3>1 DEF AppendNode
    <3>3. next'[t] = NULL /\ next'[tail] = t /\ \A u \in Tasks \ {t, tail} : next'[u] = next[u]
      BY <1>0, <3>1, <3>2 DEF Types
    <3>4. \A i \in Places : i < n => next'[accepted[i]] = accepted[i + 1]
      <4> SUFFICES ASSUME NEW i \in Places, i < n PROVE next'[accepted[i]] = accepted[i + 1]
        OBVIOUS
      <4>1. accepted[i] \in Tasks \ {t, tail}
        BY <1>0, <1>1, <1>2, <1>3, <3>1 DEF Histories
      <4> QED
        BY <1>0, <3>3, <4>1 DEF Linked
    <3>5. \A i \in Places' : i < n + 1 => next'[accepted'[i]] = accepted'[i + 1]
      <4> SUFFICES ASSUME NEW i \in Places', i < n + 1
                   PROVE  next'[accepted'[i]] = accepted'[i + 1]
        OBVIOUS
      <4>1. i \in Places /\ i \in 1 .. n
        <5>1. i \in Places \cup {n + 1} /\ i # n + 1
          BY <1>1, <1>3
        <5> QED
          BY <1>3, <5>1
      <4>2. CASE i < n
        BY <1>1, <1>3, <3>4, <4>1, <4>2
      <4>3. CASE i = n
        BY <1>1, <3>1, <3>3, <4>1, <4>3
      <4> QED
        BY <1>1, <4>1, <4>2, <4>3
    <3>6. head' = accepted'[Len(started) + 1]
      BY <1>0, <1>1, <1>3, <2>3, <3>2 DEF Linked, Places
    <3> QED
      BY <1>0, <1>1, <1>3, <2>1, <3>2, <3>3, <3>5, <3>6 DEF Linked
  <2> QED
    BY <2>2, <2>3
<1> QED
  BY <1>0, <1>5, <1>6, <1>7, <1>8, <1>9 DEF ListInv, StoppedWhenFreed

LEMMA RunStopStep ==
  ASSUME ListInv, Run \/ Stop \/ UNCHANGED vars
  PROVE  ListInv'
<1>1. UNCHANGED <<head, tail, next, node, memory, accepted, started>>
  BY DEF Run, Stop, vars, lvars, hvars
<1>2. \/ memory = "live" /\ running' = TRUE /\ frames' = Append(frames, NULL)
      \/ frames' = frames /\ (running' = FALSE \/ running' = running)
  BY DEF Run, Stop, vars
<1>3. Types'
  <2>1. running' \in BOOLEAN
    BY <1>2 DEF ListInv, Types
  <2>2. frames' \in Seq(Tasks \cup {NULL})
    <3>1. frames \in Seq(Tasks \cup {NULL}) /\ NULL \in Tasks \cup {NULL}
      BY DEF ListInv, Types
    <3>2. Append(frames, NULL) \in Seq(Tasks \cup {NULL})
      BY <3>1, AppendProperties
    <3> QED
      BY <1>2, <3>1, <3>2
  <2> QED
    BY <1>1, <2>1, <2>2 DEF ListInv, Types
<1>4. Histories' /\ Linked'
  BY <1>1 DEF ListInv, Histories, Linked, Places
<1>5. Held' /\ Accounted' /\ StoppedWhenFreed'
  <2>1. CASE frames' = Append(frames, NULL) /\ memory = "live"
    <3>1. /\ Len(frames') = Len(frames) + 1 /\ frames'[Len(frames) + 1] = NULL
          /\ \A k \in 1 .. Len(frames) : frames'[k] = frames[k]
          /\ Len(frames) \in Nat
      BY <2>1 DEF ListInv, Types
    <3>2. Held'
      BY <1>1, <3>1, SMTT(30) DEF ListInv, Held
    <3>3. Accounted'
      BY <1>1, <3>1 DEF ListInv, Accounted, Places
    <3> QED
      BY <1>1, <2>1, <3>2, <3>3 DEF StoppedWhenFreed
  <2>2. CASE frames' = frames /\ (running' = FALSE \/ running' = running)
    <3>1. Held' /\ Accounted'
      BY <1>1, <2>2 DEF ListInv, Held, Accounted, Places
    <3>2. StoppedWhenFreed'
      BY <1>1, <2>2 DEF ListInv, StoppedWhenFreed
    <3> QED
      BY <3>1, <3>2
  <2> QED
    BY <1>2, <2>1, <2>2
<1> QED
  BY <1>3, <1>4, <1>5 DEF ListInv

LEMMA LoopTakeStep ==
  ASSUME ListInv, LoopTake
  PROVE  ListInv'
<1> DEFINE s == Len(started)
           n == Len(accepted)
           d == Len(frames)
<1>0. /\ Types /\ Histories /\ Linked /\ Held /\ Accounted /\ StoppedWhenFreed
      /\ d > 0 /\ frames[d] = NULL /\ running
      /\ head # NULL /\ head' = next[head]
      /\ tail' = IF next[head] = NULL THEN NULL ELSE tail
      /\ frames' = [frames EXCEPT ![d] = head]
      /\ started' = Append(started, head)
      /\ UNCHANGED <<next, node, running, memory, accepted>>
  BY DEF ListInv, LoopTake, InLoop, KeepsRunning, Depth, TailWhenTaken, NodesInCall
<1>1. s \in Nat /\ n \in Nat /\ d \in Nat /\ head \in Tasks
  BY <1>0 DEF Types
<1>2. memory = "live"
  BY <1>0, <1>1 DEF StoppedWhenFreed, Types
<1>3. s + 1 \in Places /\ head = accepted[s + 1] /\ s + 1 <= n /\ node[head] = "live"
  BY <1>0, <1>1, <1>2 DEF Linked, Places
<1>4. /\ Len(started') = s + 1 /\ started'[s + 1] = head
      /\ \A i \in 1 .. s : started'[i] = started[i]
  BY <1>0, <1>1 DEF Types
<1>5. Places' = Places \ {s + 1}
  BY <1>0, <1>1, <1>3, <1>4 DEF Places
<1>6. /\ Len(frames') = d /\ frames'[d] = head
      /\ \A k \in 1 .. d : k # d => frames'[k] = frames[k]
  BY <1>0, <1>1 DEF Types
<1>7. Types'
  BY <1>0, <1>1 DEF Types
<1>8. Histories'
  BY <1>0, <1>1, <1>3, <1>4 DEF Histories
<1>9. Linked'
  <2>1. CASE n = s + 1
    BY <1>0, <1>1, <1>3, <1>5, <2>1 DEF Linked, Places
  <2>2. CASE n # s + 1
    <3>1. n > s + 1 /\ s + 2 \in Places' /\ n \in Places'
      BY <1>0, <1>1, <1>3, <1>4, <2>2 DEF Places
    <3>2. head' = accepted[s + 2] /\ accepted[s + 2] \in Tasks
      BY <1>0, <1>1, <1>2, <1>3, <3>1 DEF Linked, Types
    <3>3. tail' = tail
      BY <1>0, <3>2, NullAssumption
    <3> QED
      BY <1>0, <1>1, <1>2, <1>3, <1>4, <1>5, <3>1, <3>2, <3>3 DEF Linked
  <2> QED
    BY <2>1, <2>2
<1>10. Held'
  <2>1. \A k \in 1 .. d : frames[k] # NULL => frames[k] # head
    BY <1>0, <1>1, <1>3 DEF Held, Histories
  <2>2. \A i \in 1 .. s + 1 : i \in 1 .. s \/ i = s + 1
    BY <1>1
  <2>3. \A k \in 1 .. d : frames'[k] # NULL =>
          node'[frames'[k]] = "live" /\ \E i \in 1 .. s + 1 : accepted[i] = frames'[k]
    <3> SUFFICES ASSUME NEW k \in 1 .. d, frames'[k] # NULL
                 PROVE  /\ node[frames'[k]] = "live"
                        /\ \E i \in 1 .. s + 1 : accepted[i] = frames'[k]
      BY <1>0
    <3>1. CASE k = d
      BY <1>1, <1>3, <1>6, <3>1
    <3>2. CASE k # d
      <4>1. /\ frames'[k] = frames[k] /\ node[frames[k]] = "live"
            /\ \E i \in 1 .. s : accepted[i] = frames[k]
        BY <1>0, <1>6, <3>2 DEF Held
      <4> QED
        BY <1>1, <4>1
    <3> QED
      BY <3>1, <3>2
  <2>4. ASSUME NEW k \in 1 .. d, NEW m \in 1 .. d, frames'[k] # NULL, frames'[k] = frames'[m]
        PROVE  k = m
    <3>1. CASE k # d /\ m # d
      BY <1>0, <1>6, <2>4, <3>1 DEF Held
    <3>2. CASE k = d /\ m # d
      BY <1>6, <2>1, <2>4, <3>2
    <3>3. CASE k # d /\ m = d
      BY <1>6, <2>1, <2>4, <3>3
    <3> QED
      BY <3>1, <3>2, <3>3
  <2> QED
    BY <1>0, <1>4, <1>6, <2>3, <2>4, ZenonT(60) DEF Held
<1>11. Accounted'
  <2> SUFFICES ASSUME NEW t \in Tasks, node[t] = "live"
               PROVE  \/ \E k \in 1 .. d : frames'[k] = t
                      \/ \E i \in Places' : accepted[i] = t
    BY <1>0, <1>2, <1>6 DEF Accounted
  <2>1. CASE t = head
    <3>1. d \in 1 .. d
      BY <1>0, <1>1
    <3> QED
      BY <1>6, <2>1, <3>1
  <2>2. ASSUME NEW k \in 1 .. d, frames[k] = t
        PROVE  frames'[k] = t
    BY <1>0, <1>6, <2>2, NullAssumption
  <2>3. ASSUME NEW i \in Places, accepted[i] = t, t # head
        PROVE  i \in Places'
    BY <1>3, <1>5, <2>3
  <2> QED
    BY <1>0, <2>1, <2>2, <2>3 DEF Accounted
<1> QED
  BY <1>0, <1>2, <1>7, <1>8, <1>9, <1>10, <1>11 DEF ListInv, StoppedWhenFreed

LEMMA TaskReturnStep ==
  ASSUME ListInv, TaskReturn
  PROVE  ListInv'
<1> DEFINE d == Len(frames)
           t == frames[d]
<1>0. /\ Types /\ Histories /\ Linked /\ Held /\ Accounted /\ StoppedWhenFreed
      /\ d > 0 /\ t # NULL
      /\ node' = [node EXCEPT ![t] = "freed"] /\ frames' = [frames EXCEPT ![d] = NULL]
      /\ UNCHANGED <<head, tail, next, running, memory, accepted, started>>
  BY DEF ListInv, TaskReturn, InTask, Depth, FreedByTask, lvars, hvars
<1>1. /\ d \in Nat /\ d \in 1 .. d /\ t \in Tasks
      /\ Len(frames') = d /\ frames'[d] = NULL
      /\ \A k \in 1 .. d : k # d => frames'[k] = frames[k]
      /\ \A k \in 1 .. d : frames[k] \in Tasks \cup {NULL}
  BY <1>0 DEF Types
<1>2. node'[t] = "freed" /\ \A u \in Tasks : u # t => node'[u] = node[u]
  BY <1>0, <1>1 DEF Types
<1>3. Types'
  <2>1. node' \in [Tasks -> {"none", "live", "freed"}]
    BY <1>0 DEF Types
  <2>2. frames' \in Seq(Tasks \cup {NULL})
    BY <1>0 DEF Types
  <2> QED
    BY <1>0, <2>1, <2>2 DEF Types
<1>x. /\ Len(started) \in Nat /\ Len(accepted) \in Nat /\ Len(started) <= Len(accepted)
      /\ \A i \in 1 .. Len(accepted) : accepted[i] \in Tasks
  BY <1>0 DEF Types, Histories
<1>4. Histories'
  BY <1>0, <1>1, <1>2, <1>x DEF Histories
<1>5. \A i \in Places : accepted[i] # t /\ accepted[i] \in Tasks
  <2>1. PICK j \in 1 .. Len(started) : accepted[j] = t
    BY <1>0, <1>1 DEF Held
  <2>2. \A i \in Places : i # j /\ i \in 1 .. Len(accepted) /\ j \in 1 .. Len(accepted)
    BY <1>x DEF Places
  <2>3. \A i \in 1 .. Len(accepted) : accepted[i] = accepted[j] => i = j
    BY <1>0, <1>x DEF Histories
  <2> QED
    BY <1>x, <2>1, <2>2, <2>3
<1>6. Linked'
  BY <1>0, <1>2, <1>5 DEF Linked, Places
<1>7. \A k \in 1 .. d : k # d /\ frames[k] # NULL => frames[k] # t /\ frames[k] \in Tasks
  <2>1. \A k, m \in 1 .. d : frames[k] # NULL /\ frames[k] = frames[m] => k = m
    BY <1>0 DEF Held
  <2> QED
    BY <1>1, <2>1
<1>8. Held'
  <2>1. \A k \in 1 .. d : frames'[k] # NULL => k # d /\ frames'[k] = frames[k]
    BY <1>1
  <2>2. ASSUME NEW k \in 1 .. d, frames'[k] # NULL
        PROVE  /\ node'[frames'[k]] = "live"
               /\ \E i \in 1 .. Len(started) : accepted[i] = frames'[k]
    <3>1. k # d /\ frames'[k] = frames[k] /\ frames[k] # t /\ frames[k] \in Tasks
      BY <1>7, <2>1, <2>2
    <3> QED
      BY <1>0, <1>2, <2>2, <3>1 DEF Held
  <2>3. ASSUME NEW k \in 1 .. d, NEW m \in 1 .. d, frames'[k] # NULL, frames'[k] = frames'[m]
        PROVE  k = m
    BY <1>0, <2>1, <2>3 DEF Held
  <2> QED
    BY <1>0, <1>1, <2>2, <2>3 DEF Held
<1>9. Accounted'
  <2> SUFFICES ASSUME NEW u \in Tasks, u # t, node[u] = "live"
               PROVE  \/ \E k \in 1 .. d : frames'[k] = u
                      \/ memory = "live" /\ \E i \in Places : accepted[i] = u
    BY <1>0, <1>1, <1>2, ZenonT(60) DEF Accounted, Places
  <2>1. ASSUME NEW k \in 1 .. d, frames[k] = u
        PROVE  frames'[k] = u
    BY <1>1, <2>1
  <2> QED
    BY <1>0, <2>1 DEF Accounted
<1> QED
  BY <1>0, <1>1, <1>3, <1>4, <1>6, <1>8, <1>9 DEF ListInv, StoppedWhenFreed

LEMMA LoopExitStep ==
  ASSUME ListInv, LoopExit
  PROVE  ListInv'
<1> DEFINE d == Len(frames)
<1>0. /\ Types /\ Histories /\ Linked /\ Held /\ Accounted
      /\ d > 0 /\ frames[d] = NULL /\ ~running
      /\ frames' = SubSeq(frames, 1, d - 1)
      /\ UNCHANGED <<head, tail, next, node, running, memory, accepted, started>>
  BY DEF ListInv, LoopExit, InLoop, KeepsRunning, Depth, lvars, hvars
<1>1. d \in Nat
  BY <1>0 DEF Types
<1>2. /\ Len(frames') = d - 1 /\ frames' \in Seq(Tasks \cup {NULL})
      /\ \A k \in 1 .. d - 1 : frames'[k] = frames[k]
  <2>1. \A k \in 1 .. d - 1 : frames[k] \in Tasks \cup {NULL}
    BY <1>0, <1>1 DEF Types
  <2>2. /\ frames' \in Seq(Tasks \cup {NULL})
        /\ Len(frames') = IF 1 <= d - 1 THEN d - 1 - 1 + 1 ELSE 0
        /\ \A k \in 1 .. d - 1 - 1 + 1 : frames'[k] = frames[1 + k - 1]
    BY <1>0, <1>1, <2>1, SubSeqProperties
  <2>3. d - 1 - 1 + 1 = d - 1 /\ (IF 1 <= d - 1 THEN d - 1 - 1 + 1 ELSE 0) = d - 1
    <3>1. \A x \in Nat : x > 0 => x - 1 - 1 + 1 = x - 1
      OBVIOUS
    <3>2. \A x \in Nat : x > 0 => (1 <= x - 1 \/ x - 1 = 0)
      OBVIOUS
    <3> HIDE DEF d
    <3>3. d \in Nat /\ d > 0
      BY <1>0, <1>1
    <3> QED
      BY <3>1, <3>2, <3>3
  <2>4. \A k \in 1 .. d - 1 : 1 + k - 1 = k
    BY <1>1
  <2> QED
    BY <2>2, <2>3, <2>4
<1>3. Types'
  BY <1>0, <1>2 DEF Types
<1>4. Histories' /\ Linked'
  BY <1>0 DEF Histories, Linked, Places
<1>5. Held'
  <2>1. \A k \in 1 .. d - 1 : k \in 1 .. d /\ frames'[k] = frames[k]
    BY <1>1, <1>2
  <2>2. ASSUME NEW k \in 1 .. d - 1, frames'[k] # NULL
        PROVE  /\ node'[frames'[k]] = "live"
               /\ \E i \in 1 .. Len(started') : accepted'[i] = frames'[k]
    BY <1>0, <2>1, <2>2 DEF Held
  <2>3. ASSUME NEW k \in 1 .. d - 1, NEW m \in 1 .. d - 1,
               frames'[k] # NULL, frames'[k] = frames'[m]
        PROVE  k = m
    BY <1>0, <2>1, <2>3 DEF Held
  <2>4. Len(frames') = d - 1
    BY <1>2
  <2> HIDE DEF d
  <2> QED
    BY <2>2, <2>3, <2>4 DEF Held
<1>6. Accounted'
  <2> SUFFICES ASSUME NEW t \in Tasks, NEW k \in 1 .. d, frames[k] = t
               PROVE  k \in 1 .. d - 1
    BY <1>0, <1>1, <1>2 DEF Accounted, Places
  <2> QED
    BY <1>0, <1>1, NullAssumption
<1> QED
  BY <1>0, <1>3, <1>4, <1>5, <1>6 DEF ListInv, StoppedWhenFreed

\* The walk that frees the list in cmp_modality_destroy comes to every node that
\* has not begun, and to no other.
LEMMA WalkIsList ==
  ASSUME ListInv, memory = "live"
  PROVE  \A t \in Tasks : InChain(t) <=> \E i \in Places : accepted[i] = t
<1> DEFINE s == Len(started)
           n == Len(accepted)
           L == {t \in Tasks : \E i \in Places : accepted[i] = t}
<1>0. /\ Types /\ Histories /\ Linked
      /\ s \in Nat /\ n \in Nat /\ s <= n
      /\ \A i \in 1 .. n : accepted[i] \in Tasks
  BY DEF ListInv, Types, Histories
<1>1. \A i \in Places : i \in 1 .. n /\ i \in Nat /\ i > s
  BY <1>0 DEF Places
<1>2. L \in SUBSET Tasks /\ head \in L \cup {NULL} /\ \A t \in L : next[t] \in L \cup {NULL}
  <2>1. head \in L \cup {NULL}
    <3>1. CASE Places = {}
      BY <1>0, <3>1 DEF Linked
    <3>2. CASE Places # {}
      <4>1. s + 1 \in Places
        BY <1>0, <3>2 DEF Places
      <4> QED
        BY <1>0, <1>1, <3>2, <4>1 DEF Linked
    <3> QED
      BY <3>1, <3>2
  <2>2. ASSUME NEW i \in Places
        PROVE  next[accepted[i]] \in L \cup {NULL}
    <3>1. CASE i = n
      BY <1>0, <3>1 DEF Linked
    <3>2. CASE i # n
      <4>1. i < n /\ i + 1 \in Places
        BY <1>0, <1>1, <3>2 DEF Places
      <4> QED
        BY <1>0, <1>1, <4>1 DEF Linked
    <3> QED
      BY <3>1, <3>2
  <2> QED
    BY <2>1, <2>2
<1>3. ASSUME NEW t \in Tasks, InChain(t)
      PROVE  \E i \in Places : accepted[i] = t
  BY <1>2, <1>3 DEF InChain
<1>4. ASSUME NEW S \in SUBSET Tasks, head \in S \cup {NULL},
             \A t \in S : next[t] \in S \cup {NULL}
      PROVE  \A i \in Places : accepted[i] \in S
  <2> DEFINE T == {i \in Places : accepted[i] \notin S}
  <2> SUFFICES ASSUME T # {} PROVE FALSE
    OBVIOUS
  <2>1. PICK m \in T : \A i \in T : m <= i
    BY <1>1, LeastNumber
  <2>2. m \in Places /\ accepted[m] \notin S
    OBVIOUS
  <2>3. CASE m = s + 1
    BY <1>0, <1>1, <1>4, <2>2, <2>3, NullAssumption DEF Linked
  <2>4. CASE m # s + 1
    <3>1. m - 1 \in Places /\ m - 1 < n /\ m - 1 + 1 = m
      BY <1>0, <1>1, <2>2, <2>4 DEF Places
    <3>2. accepted[m - 1] \in S
      BY <1>1, <2>1, <2>2, <3>1
    <3>3. next[accepted[m - 1]] = accepted[m]
      BY <1>0, <3>1 DEF Linked
    <3> QED
      BY <1>0, <1>1, <1>4, <2>2, <3>2, <3>3, NullAssumption
  <2> QED
    BY <2>3, <2>4
<1> QED
  BY <1>3, <1>4 DEF InChain

LEMMA DestroyStep ==
  ASSUME ListInv, Destroy
  PROVE  ListInv'
<1>0. /\ Types /\ Histories /\ Held /\ Accounted
      /\ memory = "live" /\ memory' = "freed" /\ (Len(frames) > 0 => ~running)
      /\ node' = [t \in Tasks |-> IF InChain(t) THEN "freed" ELSE node[t]]
      /\ UNCHANGED <<head, tail, next, running, frames, accepted, started>>
  BY DEF ListInv, Destroy, DestroyAllowed, Depth, lvars, hvars
<1>1. /\ Len(frames) \in Nat /\ Len(accepted) \in Nat /\ Len(started) \in Nat
      /\ \A k \in 1 .. Len(frames) : frames[k] \in Tasks \cup {NULL}
      /\ \A i \in 1 .. Len(accepted) : accepted[i] \in Tasks
  BY <1>0 DEF Types
<1>2. \A t \in Tasks : InChain(t) <=> \E i \in Places : accepted[i] = t
  BY <1>0, WalkIsList
<1>3. \A t \in Tasks : node'[t] = IF InChain(t) THEN "freed" ELSE node[t]
  BY <1>0
<1>4. Types'
  BY <1>0 DEF Types
<1>5. Histories'
  BY <1>0, <1>1, <1>3 DEF Histories
<1>6. Held'
  <2>1. ASSUME NEW k \in 1 .. Len(frames), frames[k] # NULL
        PROVE  node'[frames[k]] = "live"
    <3>1. frames[k] \in Tasks /\ node[frames[k]] = "live"
      BY <1>0, <1>1, <2>1 DEF Held
    <3>2. PICK j \in 1 .. Len(started) : accepted[j] = frames[k]
      BY <1>0, <2>1 DEF Held
    <3>3. \A i \in Places : accepted[i] # frames[k]
      BY <1>0, <1>1, <3>2 DEF Places, Histories
    <3> QED
      BY <1>2, <1>3, <3>1, <3>3
  <2> QED
    BY <1>0, <2>1 DEF Held
<1>7. Accounted'
  BY <1>0, <1>2, <1>3 DEF Accounted
<1> QED
  BY <1>0, <1>1, <1>4, <1>5, <1>6, <1>7 DEF ListInv, Linked, StoppedWhenFreed

LEMMA ListInvAlways == Spec => []ListInv
<1>1. ListInv /\ [Next]_vars => ListInv'
  BY QueueTaskStep, RunStopStep, LoopTakeStep, TaskReturnStep, LoopExitStep, DestroyStep
     DEF Next, Loop, LoopSleep
<1> QED
  BY <1>1, ListInvInit, PTL DEF Spec

-----------------------------------------------------------------------------
\* Tasks begin in the order in which they were queued, and the list holds those
\* that have not begun, in that order, however runs are nested and whatever is
\* queued while a task runs.
THEOREM TasksStartInOrder == Spec => []StartedInOrder
<1>1. ListInv => StartedInOrder
  <2> SUFFICES ASSUME ListInv, memory = "live"
               PROVE  accepted = started \o Waiting /\ ListIs(Waiting)
    BY DEF StartedInOrder
  <2> DEFINE s == Len(started)
             n == Len(accepted)
  <2>0. /\ accepted \in Seq(Tasks) /\ started \in Seq(Tasks)
        /\ s \in Nat /\ n \in Nat /\ s <= n
        /\ \A i \in 1 .. s : started[i] = accepted[i]
    BY DEF ListInv, Types, Histories
  <2>1. /\ Waiting \in Seq(Tasks) /\ Len(Waiting) = n - s
        /\ \A i \in 1 .. n - s : Waiting[i] = accepted[s + i]
    BY <2>0 DEF Waiting
  <2>2. accepted = started \o Waiting
    <3>1. /\ started \o Waiting \in Seq(Tasks) /\ Len(started \o Waiting) = n
          /\ \A i \in 1 .. n : (started \o Waiting)[i] = accepted[i]
      BY <2>0, <2>1
    <3> QED
      BY <2>0, <3>1, SeqEqual
  <2>3. CASE s = n
    <3>1. Places = {} /\ Waiting = << >>
      BY <2>0, <2>1, <2>3 DEF Places
    <3> QED
      BY <2>2, <3>1 DEF ListInv, Linked, ListIs
  <2>4. CASE s # n
    <3>1. s + 1 \in Places /\ n \in Places /\ Waiting # << >>
      BY <2>0, <2>1, <2>4 DEF Places
    <3>2. head = Waiting[1] /\ tail = Waiting[Len(Waiting)] /\ next[tail] = NULL
      <4>1. Waiting[1] = accepted[s + 1] /\ Waiting[Len(Waiting)] = accepted[n]
        <5>1. 1 \in 1 .. n - s /\ n - s \in 1 .. n - s /\ s + (n - s) = n
          BY <2>0, <2>4
        <5> QED
          BY <2>1, <5>1
      <4> QED
        BY <3>1, <4>1 DEF ListInv, Linked
    <3>3. \A i \in 1 .. Len(Waiting) - 1 : next[Waiting[i]] = Waiting[i + 1]
      <4> SUFFICES ASSUME NEW i \in 1 .. Len(Waiting) - 1
                   PROVE  next[Waiting[i]] = Waiting[i + 1]
        OBVIOUS
      <4>1. s + i \in Places /\ s + i < n
        BY <2>0, <2>1 DEF Places
      <4>2. next[accepted[s + i]] = accepted[s + i + 1]
        BY <4>1 DEF ListInv, Linked
      <4> QED
        BY <2>0, <2>1, <4>2
    <3> QED
      BY <2>2, <3>1, <3>2, <3>3 DEF ListIs
  <2> QED
    BY <2>3, <2>4
<1> QED
  BY <1>1, ListInvAlways, PTL

\* No activation of the loop looks at a state block that a task has destroyed,
\* and the node of every task that has begun lives until it returns.
THEOREM LoopIsSafe == Spec => []NoUseAfterFree
<1>1. ListInv => NoUseAfterFree
  BY DEF ListInv, Types, StoppedWhenFreed, Held, NoUseAfterFree, InLoop, Depth
<1> QED
  BY <1>1, ListInvAlways, PTL

\* A destroyed modality that no task runs in has freed all its nodes, those of
\* the tasks that never ran too.
THEOREM ListIsFreed == Spec => []NoNodeLeaks
<1>1. ListInv => NoNodeLeaks
  <2> SUFFICES ASSUME ListInv, memory = "freed", Len(frames) = 0,
                      NEW t \in Tasks, node[t] = "live"
               PROVE  FALSE
    BY DEF NoNodeLeaks, Depth
  <2>1. \E k \in 1 .. Len(frames) : frames[k] = t
    BY DEF ListInv, Accounted
  <2> QED
    BY <2>1
<1> QED
  BY <1>1, ListInvAlways, PTL

-----------------------------------------------------------------------------
(* The loop implements TaskQueue. *)

\* The end of a sequence behind its first m elements.
LEMMA SuffixIs ==
  ASSUME NEW S, NEW q \in Seq(S), NEW m \in Nat, m <= Len(q)
  PROVE  /\ SubSeq(q, m + 1, Len(q)) \in Seq(S)
         /\ Len(SubSeq(q, m + 1, Len(q))) = Len(q) - m
         /\ \A i \in 1 .. Len(q) - m : SubSeq(q, m + 1, Len(q))[i] = q[m + i]
<1>1. Len(q) \in Nat /\ \A i \in 1 .. Len(q) : q[i] \in S
  BY LenProperties, ElementOfSeq
<1> DEFINE n == Len(q)
           k == m + 1
<1>2. /\ k \in Int /\ n \in Int /\ \A i \in k .. n : i \in 1 .. n
      /\ n - k + 1 = n - m /\ (k <= n \/ n - m = 0)
      /\ \A i \in 1 .. n - m : k + i - 1 = m + i
  BY <1>1
<1>3. \A i \in k .. n : q[i] \in S
  BY <1>1, <1>2
<1>4. /\ SubSeq(q, k, n) \in Seq(S)
      /\ Len(SubSeq(q, k, n)) = IF k <= n THEN n - k + 1 ELSE 0
      /\ \A i \in 1 .. n - k + 1 : SubSeq(q, k, n)[i] = q[k + i - 1]
  <2> HIDE DEF n, k
  <2> QED
    BY <1>2, <1>3, SubSeqProperties
<1> QED
  BY <1>2, <1>4

LEMMA WaitingIs ==
  ASSUME ListInv
  PROVE  /\ Waiting \in Seq(Tasks) /\ Len(Waiting) = Len(accepted) - Len(started)
         /\ \A i \in 1 .. Len(accepted) - Len(started) :
              Waiting[i] = accepted[Len(started) + i]
         /\ Len(accepted) \in Nat /\ Len(started) \in Nat
         /\ Len(started) <= Len(accepted)
         /\ \A i \in 1 .. Len(accepted) : accepted[i] \in Tasks
<1>1. /\ accepted \in Seq(Tasks) /\ started \in Seq(Tasks)
      /\ Len(started) <= Len(accepted)
  BY DEF ListInv, Types, Histories
<1>2. /\ Len(accepted) \in Nat /\ Len(started) \in Nat
      /\ \A i \in 1 .. Len(accepted) : accepted[i] \in Tasks
  BY <1>1, LenProperties, ElementOfSeq
<1> QED
  BY <1>1, <1>2, SuffixIs DEF Waiting

\* What has begun is not in the list any more.
LEMMA BegunIsPassed ==
  ASSUME ListInv
  PROVE  /\ \A t \in Tasks : Begun(t) => node[t] # "none"
         /\ \A t \in Tasks, i \in Places : accepted[i] = t => ~Begun(t)
<1>1. \A i \in 1 .. Len(started) : i \in 1 .. Len(accepted) /\ started[i] = accepted[i]
  BY WaitingIs DEF ListInv, Histories
<1>2. \A i \in Places : i \in 1 .. Len(accepted) /\ i \notin 1 .. Len(started)
  BY WaitingIs DEF Places
<1> QED
  BY <1>1, <1>2 DEF ListInv, Histories, Begun

LEMMA SameStage ==
  ASSUME NEW t \in Tasks, node'[t] = node[t], Begun(t)' <=> Begun(t)
  PROVE  Stage(t)' = Stage(t)
BY DEF Stage

LEMMA OneStage ==
  ASSUME NEW t \in Tasks, NEW s, Stage(t)' = s,
         \A u \in Tasks \ {t} : Stage(u)' = Stage(u)
  PROVE  Stages' = [Stages EXCEPT ![t] = s]
BY DEF Stages

LEMMA QueueTaskPromise ==
  ASSUME ListInv, NEW t \in Tasks, QueueTask(t)
  PROVE  Promise!Accept(t)
<1>0. /\ memory = "live" /\ memory' = memory /\ node[t] = "none"
      /\ node' = [node EXCEPT ![t] = "live"] /\ node \in [Tasks -> {"none", "live", "freed"}]
      /\ accepted' = Append(accepted, t) /\ started' = started
      /\ accepted \in Seq(Tasks) /\ started \in Seq(Tasks)
  BY DEF QueueTask, ListInv, Types
<1>1. ~Begun(t) /\ \A u : Begun(u)' <=> Begun(u)
  BY <1>0, BegunIsPassed DEF Begun
<1>2. Stage(t) = "new" /\ Stage(t)' = "waiting"
  BY <1>0, <1>1 DEF Stage
<1>3. \A u \in Tasks \ {t} : Stage(u)' = Stage(u)
  BY <1>0, <1>1, SameStage
<1>4. Stages' = [Stages EXCEPT ![t] = "waiting"]
  BY <1>2, <1>3, OneStage
<1>5. Waiting' = Append(Waiting, t)
  <2> DEFINE s == Len(started)
             n == Len(accepted)
  <2>1. /\ s \in Nat /\ n \in Nat /\ s <= n
        /\ Len(accepted') = n + 1 /\ accepted'[n + 1] = t
        /\ \A i \in 1 .. n : accepted'[i] = accepted[i]
        /\ accepted' \in Seq(Tasks) /\ s' = s
    BY <1>0, WaitingIs, AppendProperties
  <2>2. /\ Waiting' \in Seq(Tasks) /\ Len(Waiting') = n + 1 - s
        /\ \A i \in 1 .. n + 1 - s : Waiting'[i] = accepted'[s + i]
    <3>1. Waiting' = SubSeq(accepted', s + 1, Len(accepted'))
      BY <1>0 DEF Waiting
    <3>2. s <= Len(accepted')
      BY <2>1
    <3> HIDE DEF s, n
    <3> QED
      BY <2>1, <3>1, <3>2, SuffixIs
  <2>3. /\ Append(Waiting, t) \in Seq(Tasks) /\ Len(Append(Waiting, t)) = n - s + 1
        /\ \A i \in 1 .. n - s : Append(Waiting, t)[i] = accepted[s + i]
        /\ Append(Waiting, t)[n - s + 1] = t
    BY WaitingIs, AppendProperties
  <2>4. ASSUME NEW i \in 1 .. n + 1 - s PROVE Waiting'[i] = Append(Waiting, t)[i]
    <3>1. CASE i = n - s + 1
      <4>1. s + i = n + 1
        BY <2>1, <3>1
      <4>2. Waiting'[i] = t
        BY <2>1, <2>2, <4>1
      <4> QED
        BY <2>3, <3>1, <4>2
    <3>2. CASE i # n - s + 1
      <4>1. i \in 1 .. n - s /\ s + i \in 1 .. n
        BY <2>1, <3>2
      <4> QED
        BY <2>1, <2>2, <2>3, <4>1
    <3> QED
      BY <3>1, <3>2
  <2>5. Len(Waiting') = Len(Append(Waiting, t))
    BY <2>1, <2>2, <2>3
  <2> QED
    BY <2>2, <2>3, <2>4, <2>5, SeqEqual
<1>6. Unbegun' = Append(Unbegun, t) /\ ~Closed /\ Closed' = Closed
  BY <1>0, <1>5 DEF Unbegun, Closed
<1> QED
  BY <1>2, <1>4, <1>6 DEF Promise!Accept, Stages

LEMMA LoopTakePromise ==
  ASSUME ListInv, LoopTake
  PROVE  Promise!Begin
<1> DEFINE s == Len(started)
           n == Len(accepted)
<1>0. /\ head # NULL /\ head \in Tasks \cup {NULL} /\ Len(frames) > 0 /\ running
      /\ started' = Append(started, head)
      /\ UNCHANGED <<node, memory, accepted>>
      /\ accepted \in Seq(Tasks) /\ started \in Seq(Tasks)
  BY DEF LoopTake, InLoop, KeepsRunning, Depth, NodesInCall, ListInv, Types
<1>1. memory = "live"
  BY <1>0 DEF ListInv, Types, StoppedWhenFreed
<1>h. PICK h \in Tasks : h = head
  BY <1>0
<1>2. s \in Nat /\ n \in Nat /\ s <= n
  BY WaitingIs
<1>3. s + 1 \in Places /\ h = accepted[s + 1] /\ s + 1 <= n /\ node[h] = "live"
  BY <1>0, <1>1, <1>2, <1>h DEF ListInv, Linked, Places
<1>4. /\ Len(started') = s + 1 /\ started'[s + 1] = h
      /\ \A i \in 1 .. s : started'[i] = started[i]
  BY <1>0, <1>h, AppendProperties
<1>5. \A u : Begun(u)' <=> Begun(u) \/ u = h
  <2>1. \A i \in 1 .. s + 1 : i \in 1 .. s \/ i = s + 1
    BY <1>2
  <2>2. \A i \in 1 .. s : i \in 1 .. s + 1
    BY <1>2
  <2>3. s + 1 \in 1 .. s + 1
    BY <1>2
  <2> QED
    BY <1>4, <2>1, <2>2, <2>3 DEF Begun
<1>6. Stage(h)' = "begun"
  BY <1>0, <1>3, <1>5 DEF Stage
<1>7. \A u \in Tasks \ {h} : Stage(u)' = Stage(u)
  BY <1>0, <1>5, SameStage
<1>8. Stages' = [Stages EXCEPT ![h] = "begun"]
  BY <1>6, <1>7, OneStage
<1>9. Waiting # << >> /\ Head(Waiting) = h /\ Waiting' = Tail(Waiting)
  <2>1. Waiting \in Seq(Tasks) /\ Len(Waiting) = n - s /\ n - s > 0
    BY <1>2, <1>3, WaitingIs
  <2>2. Waiting # << >> /\ Waiting[1] = h
    <3>1. 1 \in 1 .. n - s
      BY <1>2, <2>1
    <3> QED
      BY <1>3, <2>1, <3>1, WaitingIs
  <2>3. /\ Head(Waiting) = h /\ Tail(Waiting) \in Seq(Tasks)
        /\ Len(Tail(Waiting)) = n - s - 1
        /\ \A i \in 1 .. n - s - 1 : Tail(Waiting)[i] = Waiting[i + 1]
    BY <2>1, <2>2, HeadTailProperties
  <2>4. /\ Waiting' \in Seq(Tasks) /\ Len(Waiting') = n - (s + 1)
        /\ \A i \in 1 .. n - (s + 1) : Waiting'[i] = accepted[(s + 1) + i]
    BY <1>0, <1>2, <1>3, <1>4 DEF Waiting
  <2>5. ASSUME NEW i \in 1 .. n - (s + 1) PROVE Waiting'[i] = Tail(Waiting)[i]
    <3>1. i + 1 \in 1 .. n - s /\ (s + 1) + i = s + (i + 1) /\ i \in 1 .. n - s - 1
      BY <1>2
    <3> QED
      BY <2>3, <2>4, <3>1, WaitingIs
  <2>6. Len(Waiting') = Len(Tail(Waiting))
    BY <1>2, <2>3, <2>4
  <2> QED
    BY <2>2, <2>3, <2>4, <2>5, <2>6, SeqEqual
<1>10. Unbegun = Waiting /\ Unbegun' = Waiting' /\ ~Closed /\ Closed' = Closed
  BY <1>0, <1>1 DEF Unbegun, Closed
<1> QED
  BY <1>8, <1>9, <1>10 DEF Promise!Begin

LEMMA TaskReturnPromise ==
  ASSUME ListInv, TaskReturn
  PROVE  \E t \in Tasks : Promise!End(t)
<1> DEFINE d == Len(frames)
<1>0. /\ d > 0 /\ frames[d] # NULL /\ frames \in Seq(Tasks \cup {NULL})
      /\ node' = [node EXCEPT ![frames[d]] = "freed"]
      /\ node \in [Tasks -> {"none", "live", "freed"}]
      /\ UNCHANGED <<memory, accepted, started>>
  BY DEF TaskReturn, InTask, Depth, FreedByTask, hvars, ListInv, Types
<1>1. d \in Nat /\ d \in 1 .. d
  BY <1>0
<1>t. PICK t \in Tasks : t = frames[d]
  BY <1>0, <1>1
<1>2. node[t] = "live" /\ Begun(t)
  <2>1. /\ node[t] = "live" /\ t # NULL
        /\ \E i \in 1 .. Len(started) : accepted[i] = t
    BY <1>0, <1>1, <1>t DEF ListInv, Held
  <2> QED
    BY <2>1 DEF ListInv, Histories, Begun
<1>3. \A u : Begun(u)' <=> Begun(u)
  BY <1>0 DEF Begun
<1>4. Stage(t) = "begun" /\ Stage(t)' = "ended"
  BY <1>0, <1>t, <1>2, <1>3 DEF Stage
<1>5. \A u \in Tasks \ {t} : Stage(u)' = Stage(u)
  BY <1>0, <1>t, <1>3, SameStage
<1>6. Stages' = [Stages EXCEPT ![t] = "ended"]
  BY <1>4, <1>5, OneStage
<1>7. Unbegun' = Unbegun /\ Closed' = Closed
  BY <1>0 DEF Unbegun, Waiting, Closed
<1> QED
  BY <1>4, <1>6, <1>7 DEF Promise!End, Stages

LEMMA DestroyPromise ==
  ASSUME ListInv, Destroy
  PROVE  \E n \in 0 .. Len(Unbegun) : Promise!Discard(n)
<1> DEFINE s == Len(started)
           m == Len(Waiting)
<1>0. /\ memory = "live" /\ memory' = "freed"
      /\ node' = [t \in Tasks |-> IF InChain(t) THEN "freed" ELSE node[t]]
      /\ UNCHANGED <<accepted, started>>
  BY DEF Destroy, lvars, hvars
<1>1. Unbegun = Waiting /\ Unbegun' = << >> /\ Closed' = TRUE
  BY <1>0 DEF Unbegun, Closed
<1>2. /\ s \in Nat /\ m \in Nat /\ m = Len(accepted) - s /\ Len(accepted) \in Nat
      /\ Waiting \in Seq(Tasks)
  BY WaitingIs
<1>3. ASSUME NEW t \in Tasks
      PROVE  (\E i \in 1 .. m : Waiting[i] = t) <=> InChain(t)
  <2>1. ASSUME NEW i \in 1 .. m PROVE s + i \in Places /\ Waiting[i] = accepted[s + i]
    BY <1>2, WaitingIs DEF Places
  <2>2. ASSUME NEW i \in Places PROVE i - s \in 1 .. m /\ Waiting[i - s] = accepted[i]
    <3>1. i - s \in 1 .. m /\ s + (i - s) = i
      BY <1>2 DEF Places
    <3> QED
      BY <1>2, <3>1, WaitingIs
  <2> QED
    BY <1>0, <2>1, <2>2, WalkIsList
<1>4. ASSUME NEW t \in Tasks
      PROVE  Stage(t)' = IF InChain(t) THEN "unrun" ELSE Stage(t)
  <2>1. Begun(t)' <=> Begun(t)
    BY <1>0 DEF Begun
  <2>2. CASE InChain(t)
    <3>1. ~Begun(t)
      BY <1>0, <2>2, WalkIsList, BegunIsPassed
    <3> QED
      BY <1>0, <2>1, <2>2, <3>1 DEF Stage
  <2>3. CASE ~InChain(t)
    BY <1>0, <2>1, <2>3, SameStage
  <2> QED
    BY <2>2, <2>3
<1>5. Stages' = [t \in Tasks |->
                   IF \E i \in 1 .. m : Waiting[i] = t THEN "unrun" ELSE Stages[t]]
  BY <1>3, <1>4 DEF Stages
<1>6. SubSeq(Waiting, m + 1, m) = << >>
  BY <1>2, SubSeqEmpty
<1>7. m \in 0 .. m
  BY <1>2
<1> QED
  BY <1>1, <1>5, <1>6, <1>7 DEF Promise!Discard

\* The loop keeps the promise of a modality that a pool of workers keeps
\* (WorkersKeepThePromise), however runs are nested, and if a task destroys it:
\* tasks begin in the order in which they were accepted and none is skipped, and
\* those that the destruction finds in the list never begin.
THEOREM LoopKeepsThePromise == Spec => ImplementsTaskQueue
<1>1. Init => Promise!Init
  <2> SUFFICES ASSUME Init PROVE Promise!Init
    OBVIOUS
  <2>1. Unbegun = << >> /\ Closed = FALSE
    BY DEF Init, Unbegun, Waiting, Closed
  <2>2. \A t \in Tasks : Stage(t) = "new"
    BY DEF Init, Stage
  <2> QED
    BY <2>1, <2>2 DEF Promise!Init, Stages
<1>2. ListInv /\ [Next]_vars => [Promise!Next]_(Promise!tqvars)
  <2> SUFFICES ASSUME ListInv, [Next]_vars
               PROVE  Promise!Next \/ UNCHANGED Promise!tqvars
    OBVIOUS
  <2>1. CASE UNCHANGED vars \/ Run \/ Stop \/ LoopSleep \/ LoopExit
    <3>1. UNCHANGED <<node, memory, accepted, started>>
      BY <2>1 DEF vars, hvars, Run, Stop, LoopSleep, LoopExit
    <3>2. \A t \in Tasks : Stage(t)' = Stage(t)
      BY <3>1, SameStage DEF Begun
    <3> QED
      BY <3>1, <3>2 DEF Promise!tqvars, Stages, Closed, Unbegun, Waiting
  <2>2. CASE LoopTake
    BY <2>2, LoopTakePromise DEF Promise!Next
  <2>3. CASE TaskReturn
    BY <2>3, TaskReturnPromise DEF Promise!Next
  <2>4. CASE Destroy
    BY <2>4, DestroyPromise DEF Promise!Next
  <2>5. ASSUME NEW t \in Tasks, QueueTask(t)
        PROVE  Promise!Next
    BY <2>5, QueueTaskPromise DEF Promise!Next
  <2> QED
    BY <2>1, <2>2, <2>3, <2>4, <2>5 DEF Next, Loop
<1> QED
  BY <1>1, <1>2, ListInvAlways, PTL DEF Spec, ImplementsTaskQueue, Promise!Spec
=============================================================================
