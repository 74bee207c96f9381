------------------------------ MODULE Coroutines ------------------------------
(***************************************************************************)
(* src/src/cmp_coroutine.c: coroutines of one thread, which resume one     *)
(* another and yield.  Which coroutine runs is kept twice: by the system,  *)
(* which switches contexts, and in the thread's local storage.  The two    *)
(* builds, on fibers and on ucontext, do the same.                         *)
(***************************************************************************)
EXTENDS Naturals, FiniteSets

CONSTANTS
  Cos,    \* the coroutines, each created at most once
  Main    \* the thread itself

ASSUME MainAssumption == Main \notin Cos

VARIABLES
  state,      \* co->state, or "none" and "gone"
  caller,     \* co->caller, Main being the main_co of a resume of the thread
  key,        \* the thread's local storage, Main being NULL
  running,    \* whose context runs
  resuming,   \* the coroutine that each has resumed, itself if none
  kept        \* current_co in that call of resume

coVars == <<state, caller, key, running, resuming, kept>>

Contexts == Cos \cup {Main}

CosInit ==
  /\ state = [c \in Cos |-> "none"]
  /\ caller = [c \in Cos |-> c]
  /\ key = Main /\ running = Main
  /\ resuming = [c \in Contexts |-> c]
  /\ kept = [c \in Contexts |-> Main]

CreateCo(c) ==
  /\ state[c] = "none"
  /\ state' = [state EXCEPT ![c] = "ready"]
  /\ UNCHANGED <<caller, key, running, resuming, kept>>

\* What the callers of resume and destroy must keep to: the coroutine is there,
\* and is not one of those that wait for the one that runs.
Resting(c) == state[c] \notin {"none", "gone"} /\ c # running /\ resuming[c] = c

\* A plausible bug: the caller is the coroutine that resumed it the first time.
CallerOfFirst(c) == [caller EXCEPT ![c] = IF @ = c THEN key ELSE @]

CallerOf(c) == [caller EXCEPT ![c] = key]

\* A context that is switched to for the first time begins at the entry.
Resume(c) ==
  /\ Resting(c) /\ state[c] # "finished"
  /\ caller' = CallerOf(c)
  /\ kept' = [kept EXCEPT ![running] = key]
  /\ resuming' = [resuming EXCEPT ![running] = c]
  /\ key' = c /\ running' = c
  /\ state' = [state EXCEPT ![c] = IF @ = "ready" THEN "running" ELSE @]

\* The context of to goes on in the call of resume that it is in.
SwitchBack(to) ==
  /\ running' = to
  /\ key' = kept[to]
  /\ resuming' = [resuming EXCEPT ![to] = to]
  /\ UNCHANGED <<caller, kept>>

\* cmp_coroutine_yield, by the coroutine that runs.
Yield ==
  /\ running # Main
  /\ state' = [state EXCEPT ![running] = "suspended"]
  /\ SwitchBack(caller[running])

\* The function of the coroutine returns to the entry.
Finish ==
  /\ running # Main
  /\ state' = [state EXCEPT ![running] = "finished"]
  /\ SwitchBack(caller[running])

DestroyCo(c) ==
  /\ Resting(c)
  /\ state' = [state EXCEPT ![c] = "gone"]
  /\ UNCHANGED <<caller, key, running, resuming, kept>>

CosNext ==
  \/ \E c \in Cos : CreateCo(c) \/ Resume(c) \/ DestroyCo(c)
  \/ Yield \/ Finish

CosSpec == CosInit /\ [][CosNext]_coVars

-----------------------------------------------------------------------------
(* A coroutine that yields or finishes gives control to the one whose call   *)
(* of resume started it last, and that call is still waiting for it; and the *)
(* local storage names the coroutine that runs.  Coroutines may resume each  *)
(* other in any order, and one that another suspended before.                *)
ResumersWait ==
  /\ key = running
  /\ running # Main => resuming[caller[running]] = running
  /\ \A c \in Contexts : resuming[c] # c => caller[resuming[c]] = c
=============================================================================
