-------------------------- MODULE Condition_proofs --------------------------
(***************************************************************************)
(* Proofs about Condition: mutual exclusion for any threads, and, for a    *)
(* single waiter and any number of notifiers, that no wake-up is lost.     *)
(***************************************************************************)
EXTENDS Condition, TLAPS

WaiterPCs   == {"out", "in", "unlock", "block", "leave", "reset", "relock"}
NotifierPCs == {"out", "in", "notify", "signal", "broadcast"}

PCTypes ==
  /\ pc \in [Threads -> WaiterPCs \cup NotifierPCs]
  /\ \A w \in Waiters : pc[w] \in WaiterPCs
  /\ \A n \in Notifiers : pc[n] \in NotifierPCs

LEMMA GotoMoves ==
  ASSUME NEW t \in Threads, NEW from, NEW to, PCTypes, Goto(t, from, to)
  PROVE  /\ pc[t] = from /\ pc'[t] = to
         /\ \A u \in Threads : u # t => pc'[u] = pc[u]
BY DEF Goto, PCTypes

LEMMA WaitersAreThreads ==
  /\ \A w \in Waiters : w \in Threads /\ w \notin Notifiers /\ w # Nobody
  /\ \A n \in Notifiers : n \in Threads /\ n \notin Waiters /\ n # Nobody
BY ThreadsAssumption DEF Threads

\* Each step moves one thread, and what it may move it to.
LEMMA PCTypesStep == ASSUME PCTypes, [Next]_vars PROVE PCTypes'
<1>1. CASE UNCHANGED vars
  BY <1>1 DEF vars, PCTypes
<1>2. ASSUME NEW w \in Waiters, NEW from, NEW to, Goto(w, from, to), to \in WaiterPCs
      PROVE  PCTypes'
  BY <1>2, WaitersAreThreads DEF Goto, PCTypes
<1>3. ASSUME NEW n \in Notifiers, NEW from, NEW to, Goto(n, from, to), to \in NotifierPCs
      PROVE  PCTypes'
  BY <1>3, WaitersAreThreads DEF Goto, PCTypes
<1>4. ASSUME NEW w \in Waiters, Lock(w, "out") \/ Waiting(w)
      PROVE  PCTypes'
  <2>1. CASE Lock(w, "out") \/ Lock(w, "relock")
    BY <1>2, <2>1 DEF Lock, WaiterPCs
  <2>2. CASE Take(w) \/ Register(w) \/ Unlock(w) \/ Wake(w)
    BY <1>2, <2>2 DEF Take, Register, Unlock, Wake, WaiterPCs
  <2>3. CASE Leave(w) \/ Reset(w)
    BY <1>2, <2>3 DEF Leave, Reset, Returns, WaiterPCs
  <2> QED
    BY <1>4, <2>1, <2>2, <2>3 DEF Waiting
<1>5. ASSUME NEW n \in Notifiers, Lock(n, "out") \/ Notifying(n)
      PROVE  PCTypes'
  <2>1. CASE Lock(n, "out")
    BY <1>3, <2>1 DEF Lock, NotifierPCs
  <2>2. CASE Add(n) \/ SetSignal(n) \/ SetBroadcast(n)
    BY <1>3, <2>2 DEF Add, SetSignal, SetBroadcast, NotifierPCs
  <2>3. CASE Notify(n)
    BY <1>3, <2>3 DEF Notify, NotifierPCs
  <2> QED
    BY <1>5, <2>1, <2>2, <2>3 DEF Notifying
<1> QED
  BY <1>1, <1>4, <1>5 DEF Next

-----------------------------------------------------------------------------
Exclusion == PCTypes /\ MonitorIsExclusive

\* Whoever leaves the monitor had its mutex, so nobody else was inside.
LEMMA ExclusionStep == ASSUME Exclusion, [Next]_vars PROVE Exclusion'
<1> USE DEF Exclusion
<1>0. PCTypes'
  BY PCTypesStep
<1>1. CASE UNCHANGED vars
  BY <1>1, <1>0 DEF vars, MonitorIsExclusive, Threads
<1>2. ASSUME NEW t \in Threads, NEW from, Lock(t, from)
      PROVE  MonitorIsExclusive'
  <2>1. mutex = Nobody /\ mutex' = t /\ Goto(t, from, "in")
    BY <1>2 DEF Lock
  <2>2. \A u \in Threads : pc[u] \notin {"in", "unlock"}
    BY <2>1, ThreadsAssumption DEF MonitorIsExclusive, Threads
  <2> QED
    BY <2>1, <2>2, GotoMoves DEF MonitorIsExclusive
<1>3. ASSUME NEW t \in Threads, NEW from \in {"in", "unlock"}, NEW to,
             Goto(t, from, to), to \notin {"in", "unlock"}, mutex' = Nobody
      PROVE  MonitorIsExclusive'
  <2>1. \A u \in Threads : u # t => pc[u] \notin {"in", "unlock"}
    BY <1>3, GotoMoves DEF MonitorIsExclusive
  <2> QED
    BY <1>3, <2>1, GotoMoves DEF MonitorIsExclusive
<1>4. ASSUME NEW t \in Threads, NEW from, NEW to, Goto(t, from, to),
             to \in {"in", "unlock"} => from \in {"in", "unlock"}, mutex' = mutex
      PROVE  MonitorIsExclusive'
  BY <1>4, GotoMoves DEF MonitorIsExclusive
<1>5. ASSUME NEW w \in Waiters, Lock(w, "out") \/ Waiting(w)
      PROVE  MonitorIsExclusive'
  <2>0. w \in Threads
    BY WaitersAreThreads
  <2>1. CASE Lock(w, "out") \/ Lock(w, "relock")
    BY <2>0, <2>1, <1>2
  <2>2. CASE Take(w)
    BY <2>0, <2>2, <1>3 DEF Take
  <2>3. CASE Unlock(w)
    BY <2>0, <2>3, <1>3 DEF Unlock
  <2>4. CASE Register(w)
    BY <2>0, <2>4, <1>4 DEF Register
  <2>5. CASE Wake(w) \/ Leave(w) \/ Reset(w)
    BY <2>0, <2>5, <1>4 DEF Wake, Leave, Reset, Returns
  <2> QED
    BY <1>5, <2>1, <2>2, <2>3, <2>4, <2>5 DEF Waiting
<1>6. ASSUME NEW n \in Notifiers, Lock(n, "out") \/ Notifying(n)
      PROVE  MonitorIsExclusive'
  <2>0. n \in Threads
    BY WaitersAreThreads
  <2>1. CASE Lock(n, "out")
    BY <2>0, <2>1, <1>2
  <2>2. CASE Add(n)
    BY <2>0, <2>2, <1>3 DEF Add
  <2>3. CASE Notify(n)
    BY <2>0, <2>3, <1>4 DEF Notify
  <2>4. CASE SetSignal(n) \/ SetBroadcast(n)
    BY <2>0, <2>4, <1>4 DEF SetSignal, SetBroadcast
  <2> QED
    BY <1>6, <2>1, <2>2, <2>3, <2>4 DEF Notifying
<1> QED
  BY <1>0, <1>1, <1>5, <1>6 DEF Next

\* The user's mutex is held by whoever is inside the monitor, also after a wait.
THEOREM MutualExclusion == Spec => []MonitorIsExclusive
<1>1. Init => Exclusion
  BY DEF Init, Exclusion, PCTypes, MonitorIsExclusive, Threads, WaiterPCs, NotifierPCs
<1>2. Exclusion /\ [Next]_vars => Exclusion'
  BY ExclusionStep
<1> QED
  BY <1>1, <1>2, PTL DEF Spec, Exclusion

-----------------------------------------------------------------------------
\* With the waiter w alone, the count says whether it is waiting.
Counted(w) ==
  waiters_count = IF pc[w] \in {"unlock", "block", "leave"} THEN 1 ELSE 0

\* As long as it waits, an item that was added is announced.
Announced(w) ==
  pc[w] \in {"unlock", "block"} /\ items > 0 => signaled \/ broadcast \/ Notified # {}

OneInv(w) == PCTypes /\ Counted(w) /\ Announced(w)

LEMMA OneWaiterStep ==
  ASSUME NEW w, Waiters = {w}, OneInv(w), [Next]_vars
  PROVE  OneInv(w)'
<1> USE DEF OneInv
<1>0. PCTypes' /\ w \in Waiters /\ w \in Threads
  BY PCTypesStep, WaitersAreThreads
<1>1. CASE UNCHANGED vars
  BY <1>0, <1>1 DEF vars, data, events, Counted, Announced, Notified
<1>2. CASE Lock(w, "out") \/ Waiting(w)
  <2>1. ASSUME NEW from, NEW to, Goto(w, from, to)
        PROVE  pc[w] = from /\ pc'[w] = to
    BY <1>0, <2>1, GotoMoves
  <2>2. CASE Lock(w, "out") \/ Lock(w, "relock")
    BY <1>0, <2>1, <2>2 DEF Lock, Counted, Announced
  <2>3. CASE Take(w)
    BY <1>0, <2>1, <2>3 DEF Take, Counted, Announced
  <2>4. CASE Register(w)
    BY <1>0, <2>1, <2>4 DEF Register, Counted, Announced, data
  <2>5. CASE Unlock(w)
    <3>1. pc[w] = "unlock" /\ pc'[w] = "block"
      BY <2>1, <2>5 DEF Unlock
    <3>2. Notified' = Notified
      BY <1>0, <2>5, GotoMoves, WaitersAreThreads DEF Unlock, Notified
    <3> QED
      BY <1>0, <2>5, <3>1, <3>2 DEF Unlock, Counted, Announced, data, events
  <2>6. CASE Wake(w)
    BY <1>0, <2>1, <2>6 DEF Wake, Counted, Announced
  <2>7. CASE Leave(w)
    BY <1>0, <2>1, <2>7 DEF Leave, CountWithout, Returns, Counted, Announced
  <2>8. CASE Reset(w)
    BY <1>0, <2>1, <2>8 DEF Reset, Returns, Counted, Announced
  <2> QED
    BY <1>2, <2>2, <2>3, <2>4, <2>5, <2>6, <2>7, <2>8 DEF Waiting
<1>3. ASSUME NEW n \in Notifiers, Lock(n, "out") \/ Notifying(n)
      PROVE  OneInv(w)'
  <2>0. n \in Threads /\ n # w
    BY <1>0, WaitersAreThreads
  <2>1. ASSUME NEW from, NEW to, Goto(n, from, to)
        PROVE  /\ pc[n] = from /\ pc'[n] = to /\ pc'[w] = pc[w]
               /\ \A m \in Notifiers : m # n => pc'[m] = pc[m]
    BY <1>0, <2>0, <2>1, GotoMoves, WaitersAreThreads
  <2>2. CASE Lock(n, "out")
    <3>1. pc[n] = "out" /\ pc'[n] = "in" /\ pc'[w] = pc[w] /\ Notified' = Notified
      BY <2>1, <2>2 DEF Lock, Notified
    <3> QED
      BY <1>0, <2>2, <3>1 DEF Lock, Counted, Announced, data, events
  <2>3. CASE Add(n)
    <3>1. pc'[w] = pc[w] /\ n \in Notified'
      BY <2>1, <2>3 DEF Add, Notified
    <3> QED
      BY <1>0, <2>3, <3>1 DEF Add, Counted, Announced
  <2>4. CASE Notify(n)
    <3>1. PICK call \in {"signal", "broadcast"} :
            Goto(n, "notify", IF HaveWaiters THEN call ELSE "out")
      BY <2>4 DEF Notify
    <3>2. pc'[w] = pc[w] /\ (HaveWaiters => n \in Notified')
      BY <2>1, <3>1 DEF Notified
    <3>3. pc[w] \in {"unlock", "block"} => HaveWaiters
      BY DEF HaveWaiters, Counted
    <3> QED
      BY <1>0, <2>4, <3>2, <3>3 DEF Notify, Counted, Announced
  <2>5. CASE SetSignal(n)
    BY <1>0, <2>1, <2>5 DEF SetSignal, Counted, Announced
  <2>6. CASE SetBroadcast(n)
    BY <1>0, <2>1, <2>6 DEF SetBroadcast, Counted, Announced
  <2> QED
    BY <1>3, <2>2, <2>3, <2>4, <2>5, <2>6 DEF Notifying
<1> QED
  BY <1>0, <1>1, <1>2, <1>3 DEF Next

\* One waiter and any number of notifiers, that signal or broadcast as they
\* like: the waiter never sleeps next to an item unless it is about to be woken.
THEOREM OneWaiterIsWoken ==
  ASSUME NEW w, Waiters = {w}
  PROVE  Spec => []NobodySleepsOnItems
<1>1. Init => OneInv(w)
  BY DEF Init, OneInv, PCTypes, Counted, Announced, Threads, WaiterPCs, NotifierPCs
<1>2. OneInv(w) /\ [Next]_vars => OneInv(w)'
  BY OneWaiterStep
<1>3. OneInv(w) => NobodySleepsOnItems
  BY DEF OneInv, Announced, NobodySleepsOnItems, Sleeping
<1> QED
  BY <1>1, <1>2, <1>3, PTL DEF Spec

-----------------------------------------------------------------------------
\* The event of the broadcasts has not been answered yet: once the waiter has
\* woken by it, it will reset it, whoever sets it again in between.
Unanswered(w) ==
  broadcast /\ pc[w] # "reset" /\ ~(pc[w] = "leave" /\ result[w])

\* Each wake-up used up one setting of an event, and each event that is still
\* to be answered is one setting more.
Backed(w) ==
  /\ sets \in Nat /\ wakes \in Nat
  /\ signaled \in BOOLEAN /\ broadcast \in BOOLEAN /\ result \in [Waiters -> BOOLEAN]
  /\ wakes <= sets
  /\ signaled \/ Unanswered(w) => wakes + 1 <= sets
  /\ signaled /\ Unanswered(w) => wakes + 2 <= sets

LEMMA BackedStep ==
  ASSUME NEW w, Waiters = {w}, OneInv(w), Backed(w), [Next]_vars
  PROVE  Backed(w)'
<1> USE DEF Backed
<1>0. PCTypes /\ w \in Waiters /\ w \in Threads
  BY WaitersAreThreads DEF OneInv
<1>1. ASSUME UNCHANGED <<events, history, result>>, Unanswered(w)' => Unanswered(w)
      PROVE  Backed(w)'
  BY <1>1 DEF events, history
<1>2. CASE UNCHANGED vars
  BY <1>1, <1>2 DEF vars, events, Unanswered
<1>3. CASE Lock(w, "out") \/ Waiting(w)
  <2>1. ASSUME NEW from, NEW to, Goto(w, from, to)
        PROVE  pc[w] = from /\ pc'[w] = to
    BY <1>0, <2>1, GotoMoves
  <2>2. CASE Lock(w, "out") \/ Lock(w, "relock") \/ Take(w) \/ Register(w) \/ Unlock(w)
    <3>1. UNCHANGED <<events, history, result>> /\ pc[w] \notin {"leave", "reset"}
      BY <2>1, <2>2 DEF Lock, Take, Register, Unlock
    <3> QED
      BY <1>1, <3>1 DEF Unanswered, events
  <2>3. CASE Wake(w)
    <3>1. /\ pc[w] = "block" /\ pc'[w] = "leave" /\ (signaled \/ broadcast)
          /\ result' = [result EXCEPT ![w] = ~signaled] /\ signaled' = FALSE
          /\ wakes' \in {wakes, wakes + 1} /\ broadcast' = broadcast /\ sets' = sets
      BY <2>1, <2>3 DEF Wake
    <3>counts. (wakes' = wakes \/ wakes' = wakes + 1) /\ sets' = sets
      BY <3>1
    <3>places. pc[w] = "block" /\ pc'[w] = "leave" /\ broadcast' = broadcast
      <4>1. pc[w] = "block" /\ pc'[w] = "leave"
        BY <2>1, <2>3 DEF Wake
      <4>2. broadcast' = broadcast
        BY <2>3 DEF Wake
      <4> QED
        BY <4>1, <4>2
    <3>2. /\ result'[w] = ~signaled /\ result' \in [Waiters -> BOOLEAN]
          /\ signaled' \in BOOLEAN /\ ~signaled' /\ broadcast' \in BOOLEAN
      BY <1>0, <3>1
    <3>3. CASE signaled
      <4>1. wakes + 1 <= sets /\ (Unanswered(w) => wakes + 2 <= sets)
        BY <3>3
      <4>2. Unanswered(w)' => Unanswered(w)
        BY <3>places DEF Unanswered
      <4>3. wakes' \in Nat /\ sets' \in Nat /\ wakes' <= sets'
        BY <3>counts, <4>1
      <4>4. ASSUME wakes + 2 <= sets
            PROVE  wakes' + 1 <= sets'
        <5>1. wakes \in Nat /\ sets \in Nat
          OBVIOUS
        <5> HIDE DEF Backed
        <5> QED
          BY <3>counts, <4>4, <5>1
      <4> QED
        BY <3>2, <4>1, <4>2, <4>3, <4>4
    <3>4. CASE ~signaled
      <4>1. broadcast /\ result'[w]
        BY <3>1, <3>2, <3>4
      <4>2. Unanswered(w) /\ ~Unanswered(w)'
        BY <3>places, <4>1 DEF Unanswered
      <4>3. wakes' \in Nat /\ sets' \in Nat /\ wakes' <= sets'
        BY <3>counts, <4>2
      <4> QED
        BY <3>2, <4>2, <4>3
    <3> QED
      BY <3>3, <3>4
  <2>4. CASE Leave(w)
    <3>1. UNCHANGED <<events, history, result>> /\ pc[w] = "leave"
      BY <2>1, <2>4 DEF Leave
    <3>2. LastWaiter(w) <=> result[w]
      BY <3>1 DEF LastWaiter, OneInv, Counted
    <3>3. result[w] => pc'[w] = "reset"
      BY <2>1, <2>4, <3>2 DEF Leave
    <3> QED
      BY <1>1, <3>1, <3>3 DEF Unanswered, events
  <2>5. CASE Reset(w)
    BY <2>5 DEF Reset, Unanswered, history
  <2> QED
    BY <1>3, <2>2, <2>3, <2>4, <2>5 DEF Waiting
<1>4. ASSUME NEW n \in Notifiers, Lock(n, "out") \/ Notifying(n)
      PROVE  Backed(w)'
  <2>0. n \in Threads /\ n # w
    BY <1>0, WaitersAreThreads
  <2>1. ASSUME NEW from, NEW to, Goto(n, from, to)
        PROVE  pc'[w] = pc[w]
    BY <1>0, <2>0, <2>1, GotoMoves
  <2>2. CASE Lock(n, "out") \/ Add(n) \/ Notify(n)
    <3>1. UNCHANGED <<events, history, result>> /\ pc'[w] = pc[w]
      BY <2>1, <2>2 DEF Lock, Add, Notify
    <3> QED
      BY <1>1, <3>1 DEF Unanswered, events
  <2>3. CASE SetSignal(n) \/ SetBroadcast(n)
    <3>1. /\ sets' = sets + 1 /\ UNCHANGED <<result, wakes>> /\ pc'[w] = pc[w]
          /\ \/ signaled' = TRUE /\ broadcast' = broadcast
             \/ broadcast' = TRUE /\ signaled' = signaled
      BY <2>1, <2>3 DEF SetSignal, SetBroadcast
    <3>2. /\ wakes' \in Nat /\ sets' \in Nat /\ result' \in [Waiters -> BOOLEAN]
          /\ signaled' \in BOOLEAN /\ broadcast' \in BOOLEAN
      <4>1. wakes' \in Nat /\ sets' \in Nat
        BY <3>1
      <4>2. signaled' \in BOOLEAN /\ broadcast' \in BOOLEAN
        BY <3>1
      <4>3. result' \in [Waiters -> BOOLEAN]
        BY <3>1
      <4> QED
        BY <4>1, <4>2, <4>3
    <3>4. CASE signaled' = TRUE /\ broadcast' = broadcast
      <4>1. Unanswered(w)' => Unanswered(w)
        BY <3>1, <3>4 DEF Unanswered
      <4> QED
        BY <3>1, <3>2, <4>1
    <3>5. CASE broadcast' = TRUE /\ signaled' = signaled
      <4>1. signaled' => signaled
        BY <3>5
      <4> QED
        BY <3>1, <3>2, <4>1
    <3> QED
      BY <3>1, <3>4, <3>5
  <2> QED
    BY <1>4, <2>2, <2>3 DEF Notifying
<1> QED
  BY <1>2, <1>3, <1>4 DEF Next

\* With one waiter, which is how the library waits, it resets the event of the
\* broadcasts each time it was woken by it, and so never spins on an event that
\* nobody has set again.
THEOREM WakesUseUpSets ==
  ASSUME NEW w, Waiters = {w}
  PROVE  Spec => []WakesAreBacked
<1>1. Init => OneInv(w) /\ Backed(w)
  <2> SUFFICES ASSUME Init PROVE OneInv(w) /\ Backed(w)
    OBVIOUS
  <2>1. OneInv(w)
    BY DEF Init, OneInv, PCTypes, Counted, Announced, Threads, WaiterPCs, NotifierPCs
  <2>2. /\ sets = 0 /\ wakes = 0 /\ ~signaled /\ ~broadcast
        /\ signaled \in BOOLEAN /\ broadcast \in BOOLEAN /\ result \in [Waiters -> BOOLEAN]
    BY DEF Init
  <2> QED
    BY <2>1, <2>2 DEF Backed, Unanswered
<1>2. OneInv(w) /\ Backed(w) /\ [Next]_vars => (OneInv(w) /\ Backed(w))'
  BY OneWaiterStep, BackedStep
<1>3. Backed(w) => WakesAreBacked
  BY DEF Backed, WakesAreBacked
<1> QED
  BY <1>1, <1>2, <1>3, PTL DEF Spec
=============================================================================
