-------------------------------- MODULE Watch --------------------------------
(***************************************************************************)
(* The watches of src/src/core/cmp_vfs.c as built for Linux: the thread of *)
(* a watch waits on the notifications of the system and on a pipe, and     *)
(* calls the application for each change.  cmp_vfs_unwatch writes to the   *)
(* pipe, joins the thread and frees the watch.  It is called by the owner, *)
(* or on the thread of another watch, from its callback.                   *)
(***************************************************************************)
EXTENDS Naturals, FiniteSets

CONSTANTS
  Watches,      \* each is made once
  WatchOwner,   \* the thread that makes them
  Unwatched,    \* the pairs <<v, w>> such that the callback of v may unwatch w;
                \* one that unwatches its own watch joins its own thread
  MaxChanges    \* how many changes the system tells of at most: a bound

ASSUME WatchesAssumption ==
  /\ WatchOwner \notin Watches
  /\ Unwatched \subseteq {p \in Watches \X Watches : p[1] # p[2]}
  /\ MaxChanges \in Nat

VARIABLES
  block,      \* each watch: "none", "live" or "freed"
  wanted,     \* watch->running
  pipe,       \* whether its pipe has been written to
  changes,    \* the changes that its inotify_fd has to tell
  buffered,   \* those in the buffer of its thread
  wpc,        \* where its thread is
  waiting,    \* the watch that each thread is unwatching, itself if none
  told        \* whether it has written to the pipe of that watch

watchVars == <<block, wanted, pipe, changes, buffered, wpc, waiting, told>>

Callers == Watches \cup {WatchOwner}

WatchInit ==
  /\ block = [w \in Watches |-> "none"]
  /\ wanted = [w \in Watches |-> FALSE]
  /\ pipe = [w \in Watches |-> FALSE]
  /\ changes = [w \in Watches |-> 0]
  /\ buffered = [w \in Watches |-> 0]
  /\ wpc = [w \in Watches |-> "none"]
  /\ waiting = [c \in Callers |-> c]
  /\ told = [c \in Callers |-> FALSE]

\* cmp_vfs_watch_path; one that fails leaves nothing behind.
WatchPath(w) ==
  /\ block[w] = "none" /\ waiting[WatchOwner] = WatchOwner
  /\ block' = [block EXCEPT ![w] = "live"]
  /\ wanted' = [wanted EXCEPT ![w] = TRUE]
  /\ wpc' = [wpc EXCEPT ![w] = "loop"]
  /\ UNCHANGED <<pipe, changes, buffered, waiting, told>>

\* Something changes under the path.
Change(w) ==
  /\ block[w] = "live" /\ changes[w] + buffered[w] < MaxChanges
  /\ changes' = [changes EXCEPT ![w] = @ + 1]
  /\ UNCHANGED <<block, wanted, pipe, buffered, wpc, waiting, told>>

\* Each watch is unwatched once.
MayUnwatch(c, w) ==
  /\ block[w] = "live" /\ wanted[w] /\ waiting[c] = c
  /\ \/ c = WatchOwner
     \/ <<c, w>> \in Unwatched /\ wpc[c] = "callback"

UnwatchBegin(c, w) ==
  /\ MayUnwatch(c, w)
  /\ wanted' = [wanted EXCEPT ![w] = FALSE]
  /\ waiting' = [waiting EXCEPT ![c] = w]
  /\ UNCHANGED <<block, pipe, changes, buffered, wpc, told>>

\* A plausible bug: the pipe is taken to be unnecessary once running is cleared.
PipeAfterUnwatchSilent(w) == pipe

PipeAfterUnwatch(w) == [pipe EXCEPT ![w] = TRUE]

UnwatchSignal(c) ==
  /\ waiting[c] # c /\ ~told[c]
  /\ told' = [told EXCEPT ![c] = TRUE]
  /\ pipe' = PipeAfterUnwatch(waiting[c])
  /\ UNCHANGED <<block, wanted, changes, buffered, wpc, waiting>>

\* A plausible bug: the thread is not joined when it has been told to stop.
JoinedAtOnce(w) == TRUE

Joined(w) == wpc[w] = "exited"

UnwatchEnd(c) ==
  /\ waiting[c] # c /\ told[c] /\ Joined(waiting[c])
  /\ block' = [block EXCEPT ![waiting[c]] = "freed"]
  /\ waiting' = [waiting EXCEPT ![c] = c]
  /\ told' = [told EXCEPT ![c] = FALSE]
  /\ UNCHANGED <<wanted, pipe, changes, buffered, wpc>>

-----------------------------------------------------------------------------
(* cmp_vfs_watch_worker *)

WatchGoto(w, pc) == wpc' = [wpc EXCEPT ![w] = pc]

WhileWanted(w) ==
  /\ wpc[w] = "loop"
  /\ WatchGoto(w, IF wanted[w] THEN "select" ELSE "exited")
  /\ UNCHANGED <<block, wanted, pipe, changes, buffered, waiting, told>>

\* The pipe is looked at first; otherwise all there is to tell is read at once.
SelectReturns(w) ==
  /\ wpc[w] = "select"
  /\ \/ /\ pipe[w]
        /\ WatchGoto(w, "exited")
        /\ UNCHANGED <<changes, buffered>>
     \/ /\ ~pipe[w] /\ changes[w] > 0
        /\ WatchGoto(w, "events")
        /\ changes' = [changes EXCEPT ![w] = 0]
        /\ buffered' = [buffered EXCEPT ![w] = changes[w]]
  /\ UNCHANGED <<block, wanted, pipe, waiting, told>>

\* Every change in the buffer is told, however long ago unwatch was called.
NextEvent(w) ==
  /\ wpc[w] = "events"
  /\ IF buffered[w] = 0 THEN WatchGoto(w, "loop") ELSE WatchGoto(w, "callback")
  /\ UNCHANGED <<block, wanted, pipe, changes, buffered, waiting, told>>

WatchCallbackReturns(w) ==
  /\ wpc[w] = "callback" /\ waiting[w] = w
  /\ WatchGoto(w, "events")
  /\ buffered' = [buffered EXCEPT ![w] = @ - 1]
  /\ UNCHANGED <<block, wanted, pipe, changes, waiting, told>>

WatchThread(w) ==
  WhileWanted(w) \/ SelectReturns(w) \/ NextEvent(w) \/ WatchCallbackReturns(w)

WatchNext ==
  \/ \E w \in Watches : WatchPath(w) \/ Change(w) \/ WatchThread(w)
  \/ \E c \in Callers : UnwatchSignal(c) \/ UnwatchEnd(c) \/ \E w \in Watches : UnwatchBegin(c, w)

WatchSpec == WatchInit /\ [][WatchNext]_watchVars

\* Threads that can run do, callbacks return, and a join whose thread has
\* exited returns.
WatchFairness ==
  /\ \A w \in Watches : WF_watchVars(WatchThread(w))
  /\ \A c \in Callers : WF_watchVars(UnwatchSignal(c) \/ UnwatchEnd(c))

-----------------------------------------------------------------------------
(* A thread that goes on has its watch, and the watch its pipe, however the  *)
(* changes, the callbacks and the calls of unwatch interleave.               *)
WatchOutlivesThread ==
  \A w \in Watches : wpc[w] \notin {"none", "exited"} => block[w] = "live"

(* cmp_vfs_unwatch returns, from the callback of another watch too: the pipe *)
(* wakes the thread wherever it waits, and what is left in its buffer ends.  *)
UnwatchReturns == \A c \in Callers : waiting[c] # c ~> waiting[c] = c
=============================================================================
