------------------------------ MODULE Condition ------------------------------
(***************************************************************************)
(* src/src/cmp_sync.c, the condition variable of the Windows build: a      *)
(* count of waiters, an auto-reset event for signals and a manual-reset    *)
(* event for broadcasts.  On the other systems it is that of pthreads.     *)
(*                                                                         *)
(* It is used as condition variables are: under a mutex, waiters take      *)
(* items and wait while there are none; notifiers add an item, unlock, and *)
(* signal or broadcast.  A waiter need not come back once it has its item. *)
(***************************************************************************)
EXTENDS Naturals, FiniteSets

CONSTANTS
  Waiters, Notifiers,   \* threads
  Nobody,               \* holds the mutex that is free
  MaxAdded              \* bound: how many items are added in all

ASSUME ThreadsAssumption ==
  Waiters \cap Notifiers = {} /\ Nobody \notin Waiters \cup Notifiers
ASSUME MaxAddedAssumption == MaxAdded \in Nat

VARIABLES
  items, added,     \* what the waiters wait for, and how many there have been
  mutex,            \* the thread that holds the mutex
  waiters_count,
  signaled, broadcast,   \* events[0] and events[1] are set
  result,           \* whether WaitForMultipleObjects answered 1
  pc,
  sets, wakes       \* history: how often an event was set, and a waiter woken,
                    \* the latter counted up to one more than the former can be

Threads == Waiters \cup Notifiers
data    == <<items, added>>
events  == <<signaled, broadcast>>
history == <<sets, wakes>>
vars    == <<data, mutex, waiters_count, events, result, pc, history>>

Init ==
  /\ items = 0 /\ added = 0
  /\ mutex = Nobody
  /\ waiters_count = 0
  /\ signaled = FALSE /\ broadcast = FALSE
  /\ result = [w \in Waiters |-> FALSE]
  /\ pc = [t \in Threads |-> "out"]
  /\ sets = 0 /\ wakes = 0

Goto(t, from, to) == pc[t] = from /\ pc' = [pc EXCEPT ![t] = to]

Lock(t, from) ==
  /\ mutex = Nobody /\ mutex' = t
  /\ Goto(t, from, "in")
  /\ UNCHANGED <<data, waiters_count, events, result, history>>

-----------------------------------------------------------------------------
(* A waiter: while (items == 0) cmp_cond_wait(...). *)

Take(w) ==
  /\ Goto(w, "in", "out")
  /\ items > 0 /\ items' = items - 1
  /\ mutex' = Nobody
  /\ UNCHANGED <<added, waiters_count, events, result, history>>

Register(w) ==
  /\ Goto(w, "in", "unlock")
  /\ items = 0
  /\ waiters_count' = waiters_count + 1
  /\ UNCHANGED <<data, mutex, events, result, history>>

Unlock(w) ==
  /\ Goto(w, "unlock", "block")
  /\ mutex' = Nobody
  /\ UNCHANGED <<data, waiters_count, events, result, history>>

\* WaitForMultipleObjects answers the first event that is set, and resets it
\* if it is the one for signals.
Wake(w) ==
  /\ Goto(w, "block", "leave")
  /\ signaled \/ broadcast
  /\ result' = [result EXCEPT ![w] = ~signaled]
  /\ signaled' = FALSE
  /\ wakes' = IF wakes > MaxAdded THEN wakes ELSE wakes + 1
  /\ UNCHANGED <<data, mutex, waiters_count, broadcast, sets>>

\* A plausible bug: the count is looked at before this waiter has left it.
LastWaiterTooEarly(w) == result[w] /\ waiters_count = 0
LastWaiter(w) == result[w] /\ waiters_count = 1

CountWithout(w) == waiters_count - 1

\* A plausible bug: the wait returns without the mutex.
ReturnsUnlocked == "in"
Returns == "relock"

Leave(w) ==
  /\ Goto(w, "leave", IF LastWaiter(w) THEN "reset" ELSE Returns)
  /\ waiters_count' = CountWithout(w)
  /\ UNCHANGED <<data, mutex, events, result, history>>

Reset(w) ==
  /\ Goto(w, "reset", Returns)
  /\ broadcast' = FALSE
  /\ UNCHANGED <<data, mutex, waiters_count, signaled, result, history>>

Waiting(w) ==
  \/ Take(w) \/ Register(w) \/ Unlock(w) \/ Wake(w)
  \/ Leave(w) \/ Reset(w) \/ Lock(w, "relock")

-----------------------------------------------------------------------------
(* A notifier. *)

Add(n) ==
  /\ Goto(n, "in", "notify")
  /\ added < MaxAdded
  /\ items' = items + 1 /\ added' = added + 1
  /\ mutex' = Nobody
  /\ UNCHANGED <<waiters_count, events, result, history>>

\* A plausible bug: off by one.
HaveWaitersMany == waiters_count > 1
HaveWaiters == waiters_count > 0

\* cmp_cond_signal or cmp_cond_broadcast up to the release of the inner lock.
Notify(n) ==
  /\ \E call \in {"signal", "broadcast"} :
       Goto(n, "notify", IF HaveWaiters THEN call ELSE "out")
  /\ UNCHANGED <<data, mutex, waiters_count, events, result, history>>

SetSignal(n) ==
  /\ Goto(n, "signal", "out")
  /\ signaled' = TRUE
  /\ sets' = sets + 1
  /\ UNCHANGED <<data, mutex, waiters_count, broadcast, result, wakes>>

SetBroadcast(n) ==
  /\ Goto(n, "broadcast", "out")
  /\ broadcast' = TRUE
  /\ sets' = sets + 1
  /\ UNCHANGED <<data, mutex, waiters_count, signaled, result, wakes>>

Notifying(n) == Add(n) \/ Notify(n) \/ SetSignal(n) \/ SetBroadcast(n)

-----------------------------------------------------------------------------
Next ==
  \/ \E w \in Waiters : Lock(w, "out") \/ Waiting(w)
  \/ \E n \in Notifiers : (added < MaxAdded /\ Lock(n, "out")) \/ Notifying(n)

Spec == Init /\ [][Next]_vars

\* Threads are scheduled and the mutex is not held for ever; whether a thread
\* comes back for another item, or adds one, is its own affair.
FairSpec ==
  /\ Spec
  /\ \A w \in Waiters : WF_vars(Waiting(w))
  /\ \A n \in Notifiers : WF_vars(Notifying(n))

-----------------------------------------------------------------------------
Sleeping(w) == pc[w] = "block"
Notified == {n \in Notifiers : pc[n] \in {"notify", "signal", "broadcast"}}

TypeOK ==
  /\ items \in 0 .. added /\ added \in 0 .. MaxAdded
  /\ mutex \in Threads \cup {Nobody}
  /\ waiters_count = Cardinality({w \in Waiters : pc[w] \in {"unlock", "block", "leave"}})
  /\ signaled \in BOOLEAN /\ broadcast \in BOOLEAN
  /\ result \in [Waiters -> BOOLEAN]
  /\ \A w \in Waiters :
       pc[w] \in {"out", "in", "unlock", "block", "leave", "reset", "relock"}
  /\ \A n \in Notifiers : pc[n] \in {"out", "in", "notify", "signal", "broadcast"}
  /\ sets \in 0 .. added /\ wakes \in 0 .. MaxAdded + 1

\* Whoever is inside has the mutex, a waiter that came out of cmp_cond_wait
\* too (line 296), so no two threads are inside together.
MonitorIsExclusive == \A t \in Threads : pc[t] \in {"in", "unlock"} => mutex = t

\* No wake-up is lost (lines 285, 318 and 323): a waiter sleeps next to an item
\* only while a notifier is on its way, an event is set, or another waiter is
\* on its way out.
NobodySleepsOnItems ==
  items > 0 /\ (\E w \in Waiters : Sleeping(w)) =>
    \/ signaled \/ broadcast \/ Notified # {}
    \/ \E w \in Waiters : pc[w] \in {"unlock", "leave", "reset", "relock", "in"}

\* A waiter wakes at most once for each time an event was set: the event of the
\* broadcasts does not stay set for it to spin on (lines 289 and 292).
WakesAreBacked == wakes <= sets

\* A waiter that sleeps next to an item is woken.
SleeperIsWoken ==
  \A w \in Waiters : (Sleeping(w) /\ items > 0) ~> ~Sleeping(w)
=============================================================================
