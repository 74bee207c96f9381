---------------------------- MODULE Timer_proofs ----------------------------
(***************************************************************************)
(* Proofs about Timer for any timers, intervals and callbacks.  Each layer *)
(* of the invariant is proved to be kept by every step on top of those     *)
(* before it.                                                              *)
(***************************************************************************)
EXTENDS Timer, TLAPS

TimerPCs == {"none", "check", "sleep", "due", "callback", "exited"}

TimerTypes ==
  /\ memory \in [Timers -> {"none", "live", "freed"}]
  /\ running \in [Timers -> BOOLEAN]
  /\ repeat \in [Timers -> BOOLEAN]
  /\ interval \in [Timers -> Nat]
  /\ tpc \in [Timers -> TimerPCs]
  /\ remaining \in [Timers -> Nat]
  /\ slept \in [Timers -> Nat]
  /\ calls \in [Timers -> 0 .. CountCap]
  /\ lateCalls \in [Timers -> 0 .. CountCap]
  /\ asked \in [Timers -> BOOLEAN]
  /\ joining \in [Threads -> Timers \cup {None}]

LEMMA SleepUnitsType == \A ms \in Nat : SleepUnits(ms) \in Nat
BY ModulusAssumption DEF SleepUnits

LEMMA CappedType == \A n \in 0 .. CountCap : Capped(n + 1) \in 0 .. CountCap
BY DEF Capped, CountCap

LEMMA TypesInit == Init => TimerTypes
BY DEF Init, TimerTypes, TimerPCs, CountCap

LEMMA TypesStep == ASSUME TimerTypes, [Next]_vars PROVE TimerTypes'
<1> USE DEF TimerTypes, TimerPCs
<1>1. CASE SystemInit \/ SystemShutdown \/ UNCHANGED vars
  BY <1>1 DEF SystemInit, SystemShutdown, vars, fixed, sleeps, counts
<1>2. CASE Tick
  BY <1>2 DEF Tick, Asleep, fixed, counts
<1>3. ASSUME NEW t \in Timers, Start(t)
      PROVE  TimerTypes'
  BY <1>3, IntervalsAssumption DEF Start, RunningFromStart, sleeps, counts
<1>4. ASSUME NEW t \in Timers, LoopCheck(t)
      PROVE  TimerTypes'
  BY <1>4, SleepUnitsType DEF LoopCheck, fixed, sleeps, counts
<1>5. ASSUME NEW t \in Timers, Wake(t)
      PROVE  TimerTypes'
  BY <1>5 DEF Wake, fixed, sleeps, counts
<1>6. ASSUME NEW t \in Timers, CallbackBegin(t)
      PROVE  TimerTypes'
  BY <1>6, CappedType DEF CallbackBegin, fixed, sleeps
<1>7. ASSUME NEW t \in Timers, CallbackReturn(t)
      PROVE  TimerTypes'
  BY <1>7 DEF CallbackReturn, RunningAfterOneShot, fixed, sleeps, counts
<1>8. ASSUME NEW s \in Threads, StopEnd(s)
      PROVE  TimerTypes'
  BY <1>8 DEF StopEnd, fixed, sleeps, counts
<1>9. ASSUME NEW s \in Threads, NEW t \in Timers, StopBegin(s, t)
      PROVE  TimerTypes'
  BY <1>9 DEF StopBegin, fixed, sleeps, counts
<1> QED
  BY <1>1, <1>2, <1>3, <1>4, <1>5, <1>6, <1>7, <1>8, <1>9 DEF Next, TimerThread

-----------------------------------------------------------------------------
\* A timer that was not started has no history, and one that was asked to stop
\* does not run again; while a thread waits in cmp_timer_stop for it the block
\* is there, and no other thread waits for it.
Stopping ==
  /\ \A t \in Timers : memory[t] = "none" =>
       tpc[t] = "none" /\ ~asked[t] /\ calls[t] = 0 /\ lateCalls[t] = 0
  /\ \A t \in Timers : asked[t] => ~running[t]
  /\ \A s \in Threads : joining[s] # None =>
       asked[joining[s]] /\ memory[joining[s]] = "live"
  /\ \A r, s \in Threads : joining[r] # None /\ joining[r] = joining[s] => r = s

LEMMA StoppingInit == Init => Stopping
BY OwnerAssumption DEF Init, Stopping

LEMMA StoppingStep ==
  ASSUME TimerTypes, Stopping, [Next]_vars
  PROVE  Stopping'
<1> USE OwnerAssumption DEF TimerTypes, Stopping
<1>1. CASE SystemInit \/ SystemShutdown \/ UNCHANGED vars
  BY <1>1 DEF SystemInit, SystemShutdown, vars, fixed, sleeps, counts
<1>2. CASE Tick
  BY <1>2 DEF Tick, fixed, counts
<1>3. ASSUME NEW t \in Timers, Start(t)
      PROVE  Stopping'
  BY <1>3 DEF Start, RunningFromStart, sleeps, counts
<1>4. ASSUME NEW t \in Timers, LoopCheck(t)
      PROVE  Stopping'
  BY <1>4 DEF LoopCheck, fixed, sleeps, counts
<1>5. ASSUME NEW t \in Timers, Wake(t)
      PROVE  Stopping'
  BY <1>5 DEF Wake, fixed, sleeps, counts
<1>6. ASSUME NEW t \in Timers, CallbackBegin(t)
      PROVE  Stopping'
  BY <1>6 DEF CallbackBegin, fixed, sleeps
<1>7. ASSUME NEW t \in Timers, CallbackReturn(t)
      PROVE  Stopping'
  BY <1>7 DEF CallbackReturn, RunningAfterOneShot, fixed, sleeps, counts
<1>8. ASSUME NEW s \in Threads, StopEnd(s)
      PROVE  Stopping'
  BY <1>8 DEF StopEnd, fixed, sleeps, counts
<1>9. ASSUME NEW s \in Threads, NEW t \in Timers, StopBegin(s, t)
      PROVE  Stopping'
  BY <1>9 DEF StopBegin, MayStop, fixed, sleeps, counts
<1> QED
  BY <1>1, <1>2, <1>3, <1>4, <1>5, <1>6, <1>7, <1>8, <1>9 DEF Next, TimerThread

LEMMA StoppingAlways == Spec => [](TimerTypes /\ Stopping)
BY TypesInit, TypesStep, StoppingInit, StoppingStep, PTL DEF Spec

-----------------------------------------------------------------------------
\* What is true of the timers whose callbacks do not stop their own timer: no
\* such timer waits for itself, so the join has seen its thread exit before the
\* block is freed.
Selfless == {t \in Timers : <<t, t>> \notin CallbackStops}

BlockOutlivesThread ==
  \A t \in Selfless :
    /\ t \in Threads /\ joining[t] # t
    /\ tpc[t] \notin {"none", "exited"} => memory[t] = "live"

LEMMA BlockStep ==
  ASSUME TimerTypes, Stopping, BlockOutlivesThread, [Next]_vars
  PROVE  BlockOutlivesThread'
<1> USE OwnerAssumption DEF TimerTypes, BlockOutlivesThread, Selfless
<1>1. CASE SystemInit \/ SystemShutdown \/ Tick \/ UNCHANGED vars
  BY <1>1 DEF SystemInit, SystemShutdown, Tick, vars
<1>2. ASSUME NEW t \in Timers, Start(t)
      PROVE  BlockOutlivesThread'
  BY <1>2 DEF Start
<1>3. ASSUME NEW t \in Timers, TimerThread(t)
      PROVE  BlockOutlivesThread'
  <2>1. memory' = memory /\ joining' = joining
    BY <1>3 DEF TimerThread, LoopCheck, Wake, CallbackBegin, CallbackReturn
  <2>2. \A u \in Timers : u # t => tpc'[u] = tpc[u]
    BY <1>3 DEF TimerThread, LoopCheck, Wake, CallbackBegin, CallbackReturn
  <2>3. tpc[t] \notin {"none", "exited"}
    BY <1>3 DEF TimerThread, LoopCheck, Wake, CallbackBegin, CallbackReturn
  <2> QED
    BY <2>1, <2>2, <2>3
<1>4. ASSUME NEW s \in Threads, StopEnd(s)
      PROVE  BlockOutlivesThread'
  <2>1. /\ joining[s] \in Timers /\ (tpc[joining[s]] = "exited" \/ s = joining[s])
        /\ memory' = [memory EXCEPT ![joining[s]] = "freed"] /\ tpc' = tpc
        /\ joining' = [joining EXCEPT ![s] = None]
    BY <1>4 DEF StopEnd, JoinReturns
  <2>2. s = joining[s] => s \notin Selfless
    OBVIOUS
  <2> QED
    BY <2>1, <2>2
<1>5. ASSUME NEW s \in Threads, NEW t \in Timers, StopBegin(s, t)
      PROVE  BlockOutlivesThread'
  BY <1>5 DEF StopBegin, MayStop
<1> QED
  BY <1>1, <1>2, <1>3, <1>4, <1>5 DEF Next

\* A timer block outlives its thread, whoever stops it, as long as no callback
\* stops its own timer; one that does is joined by nobody (run timer_selfstop).
THEOREM BlocksOutliveThreads ==
  ASSUME \A t \in Timers : <<t, t>> \notin CallbackStops
  PROVE  Spec => []NoUseAfterFree
<1>1. Init => BlockOutlivesThread
  BY OwnerAssumption DEF Init, BlockOutlivesThread, Selfless, Threads
<1>2. TimerTypes /\ Stopping /\ BlockOutlivesThread /\ [Next]_vars => BlockOutlivesThread'
  BY BlockStep
<1>3. BlockOutlivesThread => NoUseAfterFree
  BY DEF BlockOutlivesThread, Selfless, NoUseAfterFree
<1> QED
  BY <1>1, <1>2, <1>3, StoppingAlways, PTL DEF Spec

-----------------------------------------------------------------------------
\* Once a timer has made its late call the stop has been asked for, so that its
\* thread leaves at its next look; once a one-shot timer has made its call, its
\* thread leaves when the callback returns.
CallsSoFar ==
  \A t \in Timers :
    /\ lateCalls[t] > 0 => /\ lateCalls[t] = 1 /\ asked[t]
                           /\ tpc[t] \in {"callback", "check", "exited"}
    /\ ~repeat[t] /\ calls[t] > 0 => calls[t] = 1 /\ tpc[t] \in {"callback", "exited"}

LEMMA CallsStep ==
  ASSUME TimerTypes, Stopping, CallsSoFar, [Next]_vars
  PROVE  CallsSoFar'
<1> USE DEF TimerTypes, CallsSoFar, CountCap
<1>1. CASE SystemInit \/ SystemShutdown \/ Tick \/ UNCHANGED vars
  BY <1>1 DEF SystemInit, SystemShutdown, Tick, vars, fixed, counts
<1>2. ASSUME NEW t \in Timers, Start(t)
      PROVE  CallsSoFar'
  BY <1>2 DEF Start, Stopping, counts
<1>3. ASSUME NEW t \in Timers, LoopCheck(t)
      PROVE  CallsSoFar'
  BY <1>3 DEF LoopCheck, StillRunning, Stopping, fixed, counts
<1>4. ASSUME NEW t \in Timers, Wake(t)
      PROVE  CallsSoFar'
  BY <1>4 DEF Wake, fixed, counts
<1>5. ASSUME NEW t \in Timers, CallbackBegin(t)
      PROVE  CallsSoFar'
  BY <1>5 DEF CallbackBegin, Capped, fixed
<1>6. ASSUME NEW t \in Timers, CallbackReturn(t)
      PROVE  CallsSoFar'
  BY <1>6 DEF CallbackReturn, GoesOn, fixed, counts
<1>7. ASSUME NEW s \in Threads, StopEnd(s)
      PROVE  CallsSoFar'
  BY <1>7 DEF StopEnd, fixed, counts
<1>8. ASSUME NEW s \in Threads, NEW t \in Timers, StopBegin(s, t)
      PROVE  CallsSoFar'
  BY <1>8 DEF StopBegin, fixed, counts
<1> QED
  BY <1>1, <1>2, <1>3, <1>4, <1>5, <1>6, <1>7, <1>8 DEF Next, TimerThread

\* At most one callback begins after cmp_timer_stop was called, and a one-shot
\* timer calls once in all, whichever threads stop which timers and when.
THEOREM AtMostOneLateCall == Spec => []OneLateCallAtMost
<1>1. Init => CallsSoFar
  BY DEF Init, CallsSoFar
<1>2. TimerTypes /\ Stopping /\ CallsSoFar /\ [Next]_vars => CallsSoFar'
  BY CallsStep
<1>3. TimerTypes /\ CallsSoFar => OneLateCallAtMost
  BY DEF TimerTypes, CallsSoFar, OneLateCallAtMost, CountCap
<1> QED
  BY <1>1, <1>2, <1>3, StoppingAlways, PTL DEF Spec

-----------------------------------------------------------------------------
\* What a sleeping thread has slept and what it has still to sleep make up the
\* interval, and one that is due has slept it all.
SleepsItsInterval ==
  \A t \in Timers :
    /\ memory[t] # "none" => interval[t] \in Intervals
    /\ tpc[t] = "sleep" => slept[t] + remaining[t] = SleepUnits(interval[t])
    /\ tpc[t] = "due" => slept[t] = SleepUnits(interval[t])

LEMMA SleepStep ==
  ASSUME TimerTypes, Stopping, SleepsItsInterval, [Next]_vars
  PROVE  SleepsItsInterval'
<1> USE DEF TimerTypes, SleepsItsInterval
<1>1. CASE SystemInit \/ SystemShutdown \/ UNCHANGED vars
  BY <1>1 DEF SystemInit, SystemShutdown, vars, fixed, sleeps
<1>2. CASE Tick
  <2>1. /\ UNCHANGED <<memory, interval, tpc>>
        /\ \A t \in Timers : \/ remaining'[t] = remaining[t] /\ slept'[t] = slept[t]
                             \/ /\ tpc[t] = "sleep" /\ remaining[t] > 0
                                /\ remaining'[t] = remaining[t] - 1
                                /\ slept'[t] = slept[t] + 1
    BY <1>2 DEF Tick, Asleep, fixed
  <2>2. \A t \in Timers : slept'[t] + remaining'[t] = slept[t] + remaining[t]
    BY <2>1
  <2> QED
    BY <2>1, <2>2
<1>3. ASSUME NEW t \in Timers, Start(t)
      PROVE  SleepsItsInterval'
  BY <1>3 DEF Start, Stopping, sleeps
<1>4. ASSUME NEW t \in Timers, LoopCheck(t)
      PROVE  SleepsItsInterval'
  BY <1>4, SleepUnitsType DEF LoopCheck, fixed, sleeps
<1>5. ASSUME NEW t \in Timers, Wake(t)
      PROVE  SleepsItsInterval'
  BY <1>5 DEF Wake, fixed, sleeps
<1>6. ASSUME NEW t \in Timers, CallbackBegin(t) \/ CallbackReturn(t)
      PROVE  SleepsItsInterval'
  BY <1>6 DEF CallbackBegin, CallbackReturn, fixed, sleeps
<1>7. ASSUME NEW s \in Threads, StopEnd(s)
      PROVE  SleepsItsInterval'
  BY <1>7 DEF StopEnd, Stopping, fixed, sleeps
<1>8. ASSUME NEW s \in Threads, NEW t \in Timers, StopBegin(s, t)
      PROVE  SleepsItsInterval'
  BY <1>8 DEF StopBegin, fixed, sleeps
<1> QED
  BY <1>1, <1>2, <1>3, <1>4, <1>5, <1>6, <1>7, <1>8 DEF Next, TimerThread

\* No callback begins early, for intervals whose microseconds fit an unsigned
\* int; longer ones are cut off by the multiplication (line 53).
THEOREM IntervalsAreSlept ==
  ASSUME \A ms \in Intervals : ms * UnitsPerMs < UIntValues
  PROVE  Spec => []NotEarly
<1>1. \A ms \in Intervals : SleepUnits(ms) = ms * UnitsPerMs
  BY IntervalsAssumption, ModulusAssumption DEF SleepUnits
<1>2. Init => SleepsItsInterval
  BY DEF Init, SleepsItsInterval
<1>3. TimerTypes /\ Stopping /\ SleepsItsInterval /\ [Next]_vars => SleepsItsInterval'
  BY SleepStep
<1>4. TimerTypes /\ Stopping /\ SleepsItsInterval => NotEarly
  <2> SUFFICES ASSUME TimerTypes, Stopping, SleepsItsInterval,
                      NEW t \in Timers, tpc[t] = "due"
               PROVE  slept[t] >= interval[t] * UnitsPerMs
    BY DEF NotEarly
  <2>1. memory[t] # "none"
    BY DEF Stopping
  <2>2. slept[t] = interval[t] * UnitsPerMs
    BY <1>1, <2>1 DEF SleepsItsInterval
  <2> QED
    BY <2>2 DEF TimerTypes
<1> QED
  BY <1>2, <1>3, <1>4, StoppingAlways, PTL DEF Spec
=============================================================================
