--------------------------- MODULE SingleModality ---------------------------
(***************************************************************************)
(* The CMP_MODALITY_SINGLE half of src/src/cmp_modality.c: a loop on one   *)
(* thread that takes task nodes from a linked list with a head and a tail. *)
(*                                                                         *)
(* All interleaving comes from re-entrancy: a task may queue tasks, stop   *)
(* the loop, run it again inside itself, and destroy a modality it has     *)
(* stopped.  frames is the stack of the activations of cmp_modality_run.   *)
(***************************************************************************)
EXTENDS Naturals, Sequences

CONSTANTS
  Tasks,     \* the task nodes that may be allocated, each once
  NULL,
  MaxDepth   \* how deep runs are nested

ASSUME NullAssumption == NULL \notin Tasks

VARIABLES
  head, tail, next,   \* the list: its ends, and the next field of each node
  node,               \* each node: "none", "live" or "freed"
  running,            \* mod->is_running
  memory,             \* the state block: "live" or "freed"
  frames,             \* for each activation of run, outermost first, the node
                      \* whose task it is in, or NULL when it is in the loop
  accepted, started   \* history: the tasks queued, and those begun, in order

lvars == <<head, tail, next>>
hvars == <<accepted, started>>
vars == <<lvars, node, running, memory, frames, hvars>>

\* cmp_modality_single_init.
Init ==
  /\ head = NULL
  /\ tail = NULL
  /\ next = [t \in Tasks |-> NULL]
  /\ node = [t \in Tasks |-> "none"]
  /\ running = FALSE
  /\ memory = "live"
  /\ frames = << >>
  /\ accepted = << >>
  /\ started = << >>

Depth == Len(frames)
InLoop == Depth > 0 /\ frames[Depth] = NULL
InTask == Depth > 0 /\ frames[Depth] # NULL

\* The application runs outside the loop, or in the innermost task.
AppCanCall == Depth = 0 \/ InTask

-----------------------------------------------------------------------------
TailWhenTaken(h) == IF h = NULL THEN NULL ELSE tail

\* Plausible bugs: the new node is put first; the old tail is not linked to it.
AppendNodeFirst(t) ==
  /\ head' = t
  /\ tail' = IF tail = NULL THEN t ELSE tail
  /\ next' = [next EXCEPT ![t] = head]
AppendNodeUnlinked(t) ==
  /\ head' = IF tail = NULL THEN t ELSE head
  /\ tail' = t
  /\ next' = [next EXCEPT ![t] = NULL]

AppendNode(t) ==
  /\ head' = IF tail = NULL THEN t ELSE head
  /\ tail' = t
  /\ next' = IF tail = NULL
               THEN [next EXCEPT ![t] = NULL]
               ELSE [next EXCEPT ![t] = NULL, ![tail] = t]

QueueTask(t) ==
  /\ AppCanCall /\ memory = "live"
  /\ node[t] = "none"
  /\ node' = [node EXCEPT ![t] = "live"]
  /\ AppendNode(t)
  /\ accepted' = Append(accepted, t)
  /\ UNCHANGED <<running, memory, frames, started>>

Run ==
  /\ AppCanCall /\ memory = "live"
  /\ Depth < MaxDepth
  /\ running' = TRUE
  /\ frames' = Append(frames, NULL)
  /\ UNCHANGED <<lvars, node, memory, hvars>>

\* Called by a task, between runs, or by another thread while the loop sleeps.
Stop ==
  /\ running' = FALSE
  /\ UNCHANGED <<lvars, node, memory, frames, hvars>>

\* A plausible bug: the loop does not look at is_running.
KeepsRunningAlways == TRUE
KeepsRunning == running

\* A plausible bug: the node is freed before its function is called.
NodesInCallFreed(t) == [node EXCEPT ![t] = "freed"]

NodesInCall(t) == node

\* One round of the loop that finds a task and calls it.
LoopTake ==
  /\ InLoop /\ KeepsRunning
  /\ head # NULL
  /\ head' = next[head]
  /\ tail' = TailWhenTaken(next[head])
  /\ frames' = [frames EXCEPT ![Depth] = head]
  /\ node' = NodesInCall(head)
  /\ started' = Append(started, head)
  /\ UNCHANGED <<next, running, memory, accepted>>

\* One that finds none, and sleeps.
LoopSleep ==
  /\ InLoop /\ KeepsRunning
  /\ head = NULL
  /\ UNCHANGED vars

\* A plausible bug: the node is not freed when its task has returned.
FreedByTaskNone(t) == node
FreedByTask(t) == [node EXCEPT ![t] = "freed"]

\* The task returns, its node is freed, and the loop goes on.
TaskReturn ==
  /\ InTask
  /\ node' = FreedByTask(frames[Depth])
  /\ frames' = [frames EXCEPT ![Depth] = NULL]
  /\ UNCHANGED <<lvars, running, memory, hvars>>

LoopExit ==
  /\ InLoop /\ ~KeepsRunning
  /\ frames' = SubSeq(frames, 1, Depth - 1)
  /\ UNCHANGED <<lvars, node, running, memory, hvars>>

-----------------------------------------------------------------------------
(* The list. *)

\* A walk from head along next comes to t: t is in every set that has head and,
\* with a node, the next one.
InChain(t) ==
  \A S \in SUBSET Tasks :
    (head \in S \cup {NULL} /\ \A n \in S : next[n] \in S \cup {NULL}) => t \in S

\* What the callers must do: run tests is_running before it looks at the state
\* again, so a task destroys the modality only after it has stopped it.
DestroyAllowed == Depth > 0 => ~running

\* The nodes still queued are freed without being run, then the state.
Destroy ==
  /\ AppCanCall /\ memory = "live"
  /\ DestroyAllowed
  /\ node' = [t \in Tasks |-> IF InChain(t) THEN "freed" ELSE node[t]]
  /\ memory' = "freed"
  /\ UNCHANGED <<lvars, running, frames, hvars>>

-----------------------------------------------------------------------------
Loop == LoopTake \/ LoopSleep \/ LoopExit
Next ==
  \/ Run \/ Stop \/ Destroy \/ Loop \/ TaskReturn
  \/ \E t \in Tasks : QueueTask(t)

Spec == Init /\ [][Next]_vars

\* The loop goes on and every task returns.  Nothing makes the application call.
FairSpec == Spec /\ WF_vars(Loop) /\ WF_vars(TaskReturn)

-----------------------------------------------------------------------------
\* The tasks that were accepted after those that have begun.
Waiting == SubSeq(accepted, Len(started) + 1, Len(accepted))

\* The list from head to tail is s.
ListIs(s) ==
  IF s = << >> THEN head = NULL /\ tail = NULL
  ELSE /\ head = s[1]
       /\ \A i \in 1 .. Len(s) - 1 : next[s[i]] = s[i + 1]
       /\ tail = s[Len(s)] /\ next[tail] = NULL

\* Tasks begin in the order in which they were queued and none is skipped,
\* however runs are nested: those begun and those in the list are those accepted.
StartedInOrder ==
  memory = "live" => accepted = started \o Waiting /\ ListIs(Waiting)

Begun(t) == \E i \in 1 .. Len(started) : started[i] = t

\* The tasks that can still begin, and what the application sees of a task.
Unbegun == IF memory = "live" THEN Waiting ELSE << >>
Stage(t) ==
  CASE node[t] = "none" -> "new"
    [] node[t] = "live" -> IF Begun(t) THEN "begun" ELSE "waiting"
    [] node[t] = "freed" -> IF Begun(t) THEN "ended" ELSE "unrun"
Stages == [t \in Tasks |-> Stage(t)]
Closed == memory = "freed"

Promise ==
  INSTANCE TaskQueue WITH waiting <- Unbegun, stage <- Stages, closed <- Closed

\* The loop keeps the promise of a modality, however runs are nested and whoever
\* destroys it: tasks begin in the order in which they were accepted, none is
\* skipped, and those that are still in the list then never begin.
ImplementsTaskQueue == Promise!Spec

\* The loop never looks at a state block that a task has destroyed, and a node
\* lives until the task it carries has returned.
NoUseAfterFree ==
  /\ InLoop /\ running => memory = "live"
  /\ \A i \in 1 .. Depth : frames[i] # NULL => node[frames[i]] = "live"

\* Once the modality is destroyed and no run is active, no node is left.
NoNodeLeaks ==
  memory = "freed" /\ Depth = 0 => \A t \in Tasks : node[t] # "live"

\* A stopped loop returns, and with it every run around it, unless the
\* application starts the loop again.
StopEndsRuns == ~running ~> (Depth = 0 \/ running)

\* While a loop runs, an accepted task is begun sooner or later.
AcceptedIsStarted ==
  \A t \in Tasks :
    (running /\ Depth > 0 /\ node[t] = "live")
      ~> (~running \/ \E i \in 1 .. Len(started) : started[i] = t)
=============================================================================
