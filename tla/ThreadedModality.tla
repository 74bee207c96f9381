-------------------------- MODULE ThreadedModality --------------------------
(***************************************************************************)
(* The CMP_MODALITY_THREADED half of src/src/cmp_modality.c: a pool of     *)
(* worker threads that take task nodes from one queue, and the owner (the  *)
(* thread that creates, feeds, stops and destroys the modality).           *)
(*                                                                         *)
(* The queue is the BoundedQueue that RingBuffer implements.  The owner is *)
(* the only thread that pushes.                                            *)
(***************************************************************************)
EXTENDS Integers, Sequences

CONSTANTS
  NumWorkers,  \* the argument of cmp_modality_threaded_init
  Tasks,       \* the task nodes that cmp_modality_queue_task may allocate
  Owner,       \* the owning thread
  Limit,       \* how many nodes the queue holds
  MaxInits,    \* how often the modality is initialised in one behaviour
  NoTask       \* what a worker that has popped nothing holds

ASSUME NumWorkersAssumption == NumWorkers \in Nat \ {0}
ASSUME OwnerAssumption == Owner \notin 1 .. NumWorkers
ASSUME NoTaskAssumption == NoTask \notin Tasks

Workers == 1 .. NumWorkers

VARIABLES
  queue, ret,     \* the queue, and the result of each thread's last call on it
  running,        \* mod->is_running
  internal,       \* mod->internal_state: NULL or not, as "NULL" and "set"
  memory,         \* the block it points to: "none", "live" or "freed"
  node,           \* each task node: "none", "live" or "freed"
  ran,            \* how often the function of each task was called
  wpc, held,      \* each worker: where it is, and the node it popped
  opc, joined,    \* the owner: where it is, and how many threads it has
                  \* created or joined
  inits           \* how often cmp_modality_threaded_init was called

qvars == <<queue, ret>>
mvars == <<running, internal, memory>>
tvars == <<node, ran>>
wvars == <<wpc, held>>
ovars == <<opc, joined, inits>>
vars  == <<qvars, mvars, tvars, wvars, ovars>>

Queue == INSTANCE BoundedQueue
           WITH Producers <- {Owner}, Consumers <- Workers \cup {Owner}, Items <- Tasks

Init ==
  /\ Queue!Init
  /\ running = FALSE
  /\ internal = "NULL"
  /\ memory = "none"
  /\ node = [t \in Tasks |-> "none"]
  /\ ran = [t \in Tasks |-> 0]
  /\ wpc = [w \in Workers |-> "absent"]
  /\ held = [w \in Workers |-> NoTask]
  /\ opc = "idle"
  /\ joined = 0
  /\ inits = 0

-----------------------------------------------------------------------------
(* The owner. *)

FirstIndex == 0

\* cmp_modality_threaded_init up to its loop; a failed allocation changes nothing.
InitModality ==
  /\ opc = "idle" /\ internal = "NULL" /\ inits < MaxInits
  /\ queue' = << >>
  /\ running' = TRUE
  /\ internal' = "set"
  /\ memory' = "live"
  /\ wpc' = [w \in Workers |-> "absent"]
  /\ opc' = "spawn"
  /\ joined' = FirstIndex
  /\ inits' = inits + 1
  /\ UNCHANGED <<ret, tvars, held>>

\* One round of the loop: the new thread runs at once, while the owner goes on.
SpawnWorker ==
  /\ opc = "spawn"
  /\ joined' = joined + 1
  /\ wpc' = [wpc EXCEPT ![joined + 1] = "check"]
  /\ opc' = IF joined + 1 = NumWorkers THEN "idle" ELSE "spawn"
  /\ UNCHANGED <<qvars, mvars, tvars, held, inits>>

\* A plausible bug: the node of a refused task is not freed.
RefuseTaskLeaks(t) ==
  /\ Queue!Refuse(Owner)
  /\ node' = [node EXCEPT ![t] = "live"]

RefuseTask(t) ==
  /\ Queue!Refuse(Owner)
  /\ node' = [node EXCEPT ![t] = "freed"]

AcceptTask(t) ==
  /\ Queue!Push(Owner, t)
  /\ node' = [node EXCEPT ![t] = "live"]

\* cmp_modality_queue_task: the queue takes the node, or it is freed again.
QueueTask(t) ==
  /\ opc = "idle" /\ internal = "set"
  /\ node[t] = "none"
  /\ AcceptTask(t) \/ RefuseTask(t)
  /\ UNCHANGED <<mvars, ran, wvars, ovars>>

\* cmp_modality_stop called by the owner, before or after the destruction too.
Stop ==
  /\ opc = "idle"
  /\ running' = FALSE
  /\ UNCHANGED <<qvars, internal, memory, tvars, wvars, ovars>>

DestroyBegin ==
  /\ opc = "idle" /\ internal = "set"
  /\ running' = FALSE
  /\ opc' = "join"
  /\ joined' = FirstIndex
  /\ UNCHANGED <<qvars, internal, memory, tvars, wvars, inits>>

\* A plausible bug: the last worker is not waited for.
LastToJoinOffByOne == NumWorkers - 1

LastToJoin == NumWorkers

\* The loop over pthread_join.
Join ==
  /\ opc = "join"
  /\ IF joined < LastToJoin
       THEN /\ wpc[joined + 1] = "exited"
            /\ joined' = joined + 1
            /\ opc' = opc
       ELSE opc' = "drain" /\ UNCHANGED joined
  /\ UNCHANGED <<qvars, mvars, tvars, wvars, inits>>

\* The loop that pops the nodes nobody ran and frees them.
DrainOne ==
  /\ opc = "drain"
  /\ Queue!Pop(Owner)
  /\ node' = [node EXCEPT ![Head(queue)] = "freed"]
  /\ UNCHANGED <<mvars, ran, wvars, ovars>>

\* The pop that ends the loop.
Drained == Queue!FindEmpty(Owner)

\* The ring buffer, the array of threads and the state are freed.
DestroyEnd ==
  /\ opc = "drain"
  /\ Drained
  /\ memory' = "freed"
  /\ internal' = "NULL"
  /\ opc' = "idle"
  /\ UNCHANGED <<running, tvars, wvars, joined, inits>>

-----------------------------------------------------------------------------
(* A worker: cmp_worker_thread_func. *)

\* A plausible bug: the loop does not look at is_running.
KeepsRunningAlways == TRUE
KeepsRunning == running

WorkerCheck(w) ==
  /\ wpc[w] = "check"
  /\ wpc' = [wpc EXCEPT ![w] = IF KeepsRunning THEN "pop" ELSE "exited"]
  /\ UNCHANGED <<qvars, mvars, tvars, held, ovars>>

WorkerPop(w) ==
  /\ wpc[w] = "pop"
  /\ \/ /\ Queue!Pop(w)
        /\ held' = [held EXCEPT ![w] = Head(queue)]
        /\ wpc' = [wpc EXCEPT ![w] = "run"]
     \/ /\ Queue!FindEmpty(w)     \* and sleep
        /\ wpc' = [wpc EXCEPT ![w] = "check"]
        /\ UNCHANGED held
  /\ UNCHANGED <<mvars, tvars, ovars>>

\* A plausible bug: the worker is finished with its first task.
AfterTaskExits == "exited"
AfterTask == "free"

\* node->fn(node->arg), which may call cmp_modality_stop.
WorkerRun(w) ==
  /\ wpc[w] = "run"
  /\ ran' = [ran EXCEPT ![held[w]] = @ + 1]
  /\ running' \in {running, FALSE}
  /\ wpc' = [wpc EXCEPT ![w] = AfterTask]
  /\ UNCHANGED <<qvars, internal, memory, node, held, ovars>>

WorkerFree(w) ==
  /\ wpc[w] = "free"
  /\ node' = [node EXCEPT ![held[w]] = "freed"]
  /\ held' = [held EXCEPT ![w] = NoTask]
  /\ wpc' = [wpc EXCEPT ![w] = "check"]
  /\ UNCHANGED <<qvars, mvars, ran, ovars>>

-----------------------------------------------------------------------------
Worker(w) == WorkerCheck(w) \/ WorkerPop(w) \/ WorkerRun(w) \/ WorkerFree(w)
Finish    == Join \/ DrainOne \/ DestroyEnd

Next ==
  \/ InitModality \/ SpawnWorker \/ Stop \/ DestroyBegin \/ Finish
  \/ \E t \in Tasks : QueueTask(t)
  \/ \E w \in Workers : Worker(w)

Spec == Init /\ [][Next]_vars

\* Threads are scheduled, tasks return, and a loop that creates or joins
\* threads goes on; whether the owner queues, stops or destroys is its choice.
FairSpec ==
  /\ Spec
  /\ \A w \in Workers : WF_vars(Worker(w))
  /\ WF_vars(SpawnWorker \/ Finish)

-----------------------------------------------------------------------------
TypeOK ==
  /\ queue \in Seq(Tasks)
  /\ ret \in [Workers \cup {Owner} -> {"none", "SUCCESS", "BOUNDS", "NOT_FOUND"}]
  /\ running \in BOOLEAN
  /\ internal \in {"NULL", "set"}
  /\ memory \in {"none", "live", "freed"}
  /\ node \in [Tasks -> {"none", "live", "freed"}]
  /\ ran \in [Tasks -> Nat]
  /\ wpc \in [Workers -> {"absent", "check", "pop", "run", "free", "exited"}]
  /\ held \in [Workers -> Tasks \cup {NoTask}]
  /\ opc \in {"idle", "spawn", "join", "drain"}
  /\ joined \in 0 .. NumWorkers
  /\ inits \in Nat

Alive(w)     == wpc[w] \in {"check", "pop", "run", "free"}
Holds(w, t)  == wpc[w] \in {"run", "free"} /\ held[w] = t
Among(t, s)  == \E i \in 1 .. Len(s) : s[i] = t
Distinct(s)  == \A i, j \in 1 .. Len(s) : s[i] = s[j] => i = j

\* Every access a worker makes is to memory that is still allocated: the state
\* block is not freed before the last worker has left its loop (the joins of
\* lines 279 to 288 come before the frees of 294 to 296), and a node a worker
\* holds is not freed by the drain or by another worker.
NoUseAfterFree ==
  \A w \in Workers :
    /\ Alive(w) => memory = "live"
    /\ \A t \in Tasks : Holds(w, t) => node[t] = "live"

\* A node is allocated as long as it is in the queue or a worker holds it, and
\* it is in one place only: no double free, no task handed to two workers.
NodeHasOneHolder ==
  /\ \A t \in Tasks :
       Among(t, queue) \/ (\E w \in Workers : Holds(w, t)) => node[t] = "live"
  /\ Distinct(queue)
  /\ \A w \in Workers, t \in Tasks :
       Holds(w, t) => ~Among(t, queue) /\ \A v \in Workers : Holds(v, t) => v = w

\* No task runs a second time, and one whose call of cmp_modality_queue_task
\* was refused, or which was still queued when the modality was destroyed,
\* does not run at all.
RunsAtMostOnce ==
  \A t \in Tasks :
    /\ ran[t] <= 1
    /\ node[t] = "none" \/ Among(t, queue) => ran[t] = 0

\* When cmp_modality_destroy has returned every node has been freed, whether
\* its task ran, was refused or was still in the queue.
NoNodeLeaks ==
  internal = "NULL" => \A t \in Tasks : node[t] # "live"

\* What the application sees of a task: nobody but a worker runs it, and its
\* node is freed when it has been run or given up.
Stage(t) ==
  CASE node[t] = "none" -> "new"
    [] node[t] # "none" /\ Among(t, queue) -> "waiting"
    [] node[t] = "live" /\ ~Among(t, queue) -> "begun"
    [] node[t] = "freed" /\ ~Among(t, queue) ->
         IF ran[t] = 0 THEN "unrun" ELSE IF ran[t] = 1 THEN "ended" ELSE "run again"
Stages == [t \in Tasks |-> Stage(t)]

\* Nothing begins once the workers are gone (line 291), or before there are any.
Closed == opc = "drain" \/ internal = "NULL"

Promise ==
  INSTANCE TaskQueue WITH waiting <- queue, stage <- Stages, closed <- Closed

\* Whatever the workers do at the same time, tasks begin in the order in which
\* they were accepted, and those that the destruction finds in the queue never do.
ImplementsTaskQueue == Promise!Spec

\* Unless the modality is stopped or destroyed, an accepted task is run.
AcceptedIsRun ==
  \A t \in Tasks : (node[t] = "live") ~> (ran[t] = 1 \/ ~running)

\* cmp_modality_destroy returns: no worker keeps it waiting for ever.
DestroyReturns == (opc = "join") ~> (internal = "NULL")
=============================================================================
