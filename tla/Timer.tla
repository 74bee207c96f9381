-------------------------------- MODULE Timer --------------------------------
(***************************************************************************)
(* src/src/cmp_timer.c: each timer is a thread that sleeps, looks whether  *)
(* it is still wanted, and calls the callback.  cmp_timer_stop joins that  *)
(* thread and frees the timer; it is called by the owner of the timers or  *)
(* by a callback, on the thread of its timer, as MayStop says.             *)
(*                                                                         *)
(* Time is counted in steps of the unit that usleep takes.  The width of   *)
(* unsigned int and the number of those units in a millisecond are         *)
(* parameters, so that TLC reaches the wrap-around with small numbers.     *)
(***************************************************************************)
EXTENDS Naturals, FiniteSets

CONSTANTS
  Timers,         \* the timers that may be started, each once
  Owner,          \* the thread that starts and stops timers
  None,
  Intervals,      \* values of interval_ms; never 0 (line 83)
  UnitsPerMs,     \* 1000 in the code
  UIntValues,     \* 2^32 in the code: how many values unsigned int has
  CallbackStops   \* the pairs <<s, t>> such that the callback of timer s may
                  \* stop timer t

ASSUME IntervalsAssumption == Intervals \subseteq Nat \ {0}
ASSUME ModulusAssumption == UIntValues \in Nat \ {0} /\ UnitsPerMs \in Nat \ {0}
ASSUME CallbackStopsAssumption == CallbackStops \subseteq Timers \X Timers
ASSUME OwnerAssumption == Owner \notin Timers /\ None \notin Timers

VARIABLES
  initialized,     \* g_timer_system_initialized
  memory,          \* each timer block: "none", "live" or "freed"
  running,         \* timer->is_running
  repeat, interval,
  tpc,             \* where each timer thread is
  remaining,       \* what is left of its sleep
  slept,           \* how long it has slept, counted up to what was asked for
  calls, lateCalls,  \* callbacks begun in all, and since the timer was asked
                     \* to stop, counted up to 2
  asked,           \* whether cmp_timer_stop has been called
  joining          \* the timer that each thread waits for in cmp_timer_stop

Threads == Timers \cup {Owner}
fixed   == <<repeat, interval>>
counts  == <<calls, lateCalls>>
sleeps  == <<remaining, slept>>
vars == <<initialized, memory, running, fixed, tpc, sleeps, counts, asked, joining>>

CountCap == 2
Capped(n) == IF n < CountCap THEN n ELSE CountCap

Init ==
  /\ initialized = FALSE
  /\ memory = [t \in Timers |-> "none"]
  /\ running = [t \in Timers |-> FALSE]
  /\ repeat = [t \in Timers |-> FALSE]
  /\ interval = [t \in Timers |-> 0]
  /\ tpc = [t \in Timers |-> "none"]
  /\ remaining = [t \in Timers |-> 0]
  /\ slept = [t \in Timers |-> 0]
  /\ calls = [t \in Timers |-> 0]
  /\ lateCalls = [t \in Timers |-> 0]
  /\ asked = [t \in Timers |-> FALSE]
  /\ joining = [s \in Threads |-> None]

-----------------------------------------------------------------------------
(* The callers. *)

SystemInit ==
  /\ initialized' = TRUE
  /\ UNCHANGED <<memory, running, fixed, tpc, sleeps, counts, asked, joining>>

\* The timers that run are left running.
SystemShutdown ==
  /\ initialized' = FALSE
  /\ UNCHANGED <<memory, running, fixed, tpc, sleeps, counts, asked, joining>>

\* A plausible bug: the thread is started before is_running is set.
RunningFromStartUnset(t) == running

RunningFromStart(t) == [running EXCEPT ![t] = TRUE]

\* cmp_timer_start; a failed allocation or thread creation changes nothing.
Start(t) ==
  /\ initialized /\ joining[Owner] = None
  /\ memory[t] = "none"
  /\ memory' = [memory EXCEPT ![t] = "live"]
  /\ running' = RunningFromStart(t)
  /\ \E r \in BOOLEAN : repeat' = [repeat EXCEPT ![t] = r]
  /\ \E i \in Intervals : interval' = [interval EXCEPT ![t] = i]
  /\ tpc' = [tpc EXCEPT ![t] = "check"]
  /\ UNCHANGED <<initialized, sleeps, counts, asked, joining>>

\* Who may call cmp_timer_stop for t: a timer is stopped once.
MayStop(s, t) ==
  /\ memory[t] = "live" /\ ~asked[t] /\ joining[s] = None
  /\ \/ s = Owner
     \/ <<s, t>> \in CallbackStops /\ tpc[s] = "callback"

StopBegin(s, t) ==
  /\ MayStop(s, t)
  /\ asked' = [asked EXCEPT ![t] = TRUE]
  /\ running' = [running EXCEPT ![t] = FALSE]
  /\ joining' = [joining EXCEPT ![s] = t]
  /\ UNCHANGED <<initialized, memory, fixed, tpc, sleeps, counts>>

\* A plausible bug: stop does not wait for the thread.
JoinReturnsAtOnce(s, t) == TRUE

\* pthread_join: a thread that joins itself is told EDEADLK, which nobody reads.
JoinReturns(s, t) == tpc[t] = "exited" \/ s = t

StopEnd(s) ==
  LET t == joining[s] IN
  /\ t # None
  /\ JoinReturns(s, t)
  /\ memory' = [memory EXCEPT ![t] = "freed"]
  /\ joining' = [joining EXCEPT ![s] = None]
  /\ UNCHANGED <<initialized, running, fixed, tpc, sleeps, counts, asked>>

-----------------------------------------------------------------------------
(* A timer thread: cmp_timer_thread_func.  is_running is a plain int that two *)
(* threads use; each look at it follows a call that the compiler cannot see    *)
(* through (usleep, fn), so a build reads memory at each look, and a look is   *)
(* one step here.                                                              *)

\* A plausible bug: seconds are taken for milliseconds.
SleepUnitsShort(ms) == ms

\* timer->interval_ms * 1000, in unsigned int.
SleepUnits(ms) == (ms * UnitsPerMs) % UIntValues

\* A plausible bug: is_running is not looked at.
StillRunningAlways(t) == TRUE
StillRunning(t) == running[t]

LoopCheck(t) ==
  /\ tpc[t] = "check"
  /\ IF StillRunning(t)
       THEN /\ tpc' = [tpc EXCEPT ![t] = "sleep"]
            /\ remaining' = [remaining EXCEPT ![t] = SleepUnits(interval[t])]
            /\ slept' = [slept EXCEPT ![t] = 0]
       ELSE /\ tpc' = [tpc EXCEPT ![t] = "exited"]
            /\ UNCHANGED sleeps
  /\ UNCHANGED <<initialized, memory, running, fixed, counts, asked, joining>>

\* The end of the sleep and the second look at is_running; the stop may still
\* come between that look and the call.
Wake(t) ==
  /\ tpc[t] = "sleep" /\ remaining[t] = 0
  /\ tpc' = [tpc EXCEPT ![t] = IF StillRunning(t) THEN "due" ELSE "exited"]
  /\ UNCHANGED <<initialized, memory, running, fixed, sleeps, counts, asked, joining>>

CallbackBegin(t) ==
  /\ tpc[t] = "due"
  /\ tpc' = [tpc EXCEPT ![t] = "callback"]
  /\ calls' = [calls EXCEPT ![t] = Capped(@ + 1)]
  /\ lateCalls' = [lateCalls EXCEPT ![t] = IF asked[t] THEN Capped(@ + 1) ELSE @]
  /\ UNCHANGED <<initialized, memory, running, fixed, sleeps, asked, joining>>

\* A plausible bug: a one-shot timer goes round the loop again.
GoesOnAlways(t) == TRUE
GoesOn(t) == repeat[t]

RunningAfterOneShot(t) == [running EXCEPT ![t] = FALSE]

CallbackReturn(t) ==
  /\ tpc[t] = "callback" /\ joining[t] = None
  /\ IF GoesOn(t)
       THEN tpc' = [tpc EXCEPT ![t] = "check"] /\ UNCHANGED running
       ELSE /\ tpc' = [tpc EXCEPT ![t] = "exited"]
            /\ running' = RunningAfterOneShot(t)
  /\ UNCHANGED <<initialized, memory, fixed, sleeps, counts, asked, joining>>

Asleep == {t \in Timers : tpc[t] = "sleep" /\ remaining[t] > 0}

\* One unit of time passes for every thread that sleeps.
Tick ==
  /\ Asleep # {}
  /\ remaining' = [t \in Timers |-> IF t \in Asleep THEN remaining[t] - 1 ELSE remaining[t]]
  /\ slept' = [t \in Timers |-> IF t \in Asleep THEN slept[t] + 1 ELSE slept[t]]
  /\ UNCHANGED <<initialized, memory, running, fixed, tpc, counts, asked, joining>>

-----------------------------------------------------------------------------
TimerThread(t) == LoopCheck(t) \/ Wake(t) \/ CallbackBegin(t) \/ CallbackReturn(t)

Next ==
  \/ SystemInit \/ SystemShutdown \/ Tick
  \/ \E t \in Timers : Start(t) \/ TimerThread(t)
  \/ \E s \in Threads : StopEnd(s) \/ \E t \in Timers : StopBegin(s, t)

Spec == Init /\ [][Next]_vars

\* Threads are scheduled, time passes, callbacks return, and a call of stop
\* goes on; starting and stopping timers is the application's choice.
FairSpec ==
  /\ Spec
  /\ WF_vars(Tick)
  /\ \A t \in Timers : WF_vars(TimerThread(t))
  /\ \A s \in Threads : WF_vars(StopEnd(s))

-----------------------------------------------------------------------------
\* A timer block outlives its thread: the thread reads it in the loop (line 49),
\* after the sleep (56) and after the callback (62), and stop frees it only
\* behind the join (128 to 130).
NoUseAfterFree ==
  \A t \in Timers : tpc[t] \notin {"none", "exited"} => memory[t] = "live"

\* The callback may still be called once after cmp_timer_stop has begun, when
\* the thread had looked at is_running just before; it is not called again.  A
\* one-shot timer calls its function once, whatever is stopped when.
OneLateCallAtMost ==
  \A t \in Timers : lateCalls[t] <= 1 /\ (~repeat[t] => calls[t] <= 1)

\* No callback begins before the interval asked for has passed since the last
\* round of the loop ("Timer interval in milliseconds", src/include/cmp.h:711).
NotEarly ==
  \A t \in Timers : tpc[t] = "due" => slept[t] >= interval[t] * UnitsPerMs

\* cmp_timer_stop returns, whatever its timer was doing, if no circle of
\* callbacks stop each other.
StopReturns == \A s \in Threads : (joining[s] # None) ~> (joining[s] = None)

\* A timer that is not stopped calls its function.
StartedIsCalled ==
  \A t \in Timers : (memory[t] = "live") ~> (calls[t] > 0 \/ asked[t])
=============================================================================
