--------------------------------- MODULE Vfs ---------------------------------
(***************************************************************************)
(* src/src/core/cmp_vfs.c: the list of mounts, and asynchronous reads that *)
(* run as tasks of a threaded modality.  The module extends the one of the *)
(* modality: a read is a task, and every step here is a step of the        *)
(* modality or one that it does not see.                                   *)
(*                                                                         *)
(* The owner initialises and shuts down the file system, mounts, queues    *)
(* reads and destroys the modality; a worker that runs a read walks the    *)
(* list of mounts, reads the file and calls the callback.  Paths and files *)
(* are abstracted to which mounts match which reads, and to how a read     *)
(* ends.                                                                   *)
(***************************************************************************)
EXTENDS ThreadedModality

CONSTANTS
  Entries,    \* the mount entries that cmp_vfs_mount may allocate
  Matches,    \* the pairs <<e, r>> such that the mount point of e is a prefix of
              \* the path of r
  Silent,     \* the reads whose callback is NULL
  NULL

ASSUME NullAssumption == NULL \notin Entries
ASSUME MatchesAssumption == Matches \subseteq Entries \X Tasks /\ Silent \subseteq Tasks

VARIABLES
  initialized,    \* g_vfs_initialized
  g_mounts,       \* the first entry of the list
  next,           \* the next field of each entry
  entry,          \* each entry: "none", "live" or "freed"
  ctx,            \* the context of each read: "none", "live" or "freed"
  buffer,         \* its buffer: "none", "live", "given" to the callback or "freed"
  calls,          \* how often its callback was called
  result,         \* how its read ended
  job,            \* where each worker is in cmp_vfs_read_async_worker
  curr,           \* the entry it looks at
  found,          \* the entry each read has resolved to, NULL for none
  order, start    \* history: the entries in the order they were mounted, and how
                  \* many there were when each read began to look

lvars   == <<initialized, g_mounts, next, entry, order>>
rvars   == <<ctx, buffer, calls, result, found, start>>
jvars   == <<job, curr>>
vfsvars == <<vars, lvars, rvars, jvars>>

VfsStart ==
  /\ Init
  /\ initialized = FALSE
  /\ g_mounts = NULL
  /\ next = [e \in Entries |-> NULL]
  /\ entry = [e \in Entries |-> "none"]
  /\ order = << >>
  /\ ctx = [r \in Tasks |-> "none"]
  /\ buffer = [r \in Tasks |-> "none"]
  /\ calls = [r \in Tasks |-> 0]
  /\ result = [r \in Tasks |-> "none"]
  /\ found = [r \in Tasks |-> NULL]
  /\ start = [r \in Tasks |-> 0]
  /\ job = [w \in Workers |-> "idle"]
  /\ curr = [w \in Workers |-> NULL]

-----------------------------------------------------------------------------
(* The owner. *)

VfsInit ==
  /\ opc = "idle" /\ ~initialized
  /\ initialized' = TRUE
  /\ g_mounts' = NULL
  /\ UNCHANGED <<vars, next, entry, order, rvars, jvars>>

\* Nothing in the code waits for the reads: the owner shuts the file system
\* down when it has destroyed the modality, as the test does
\* (src/tests/core/test_cmp_vfs.c:107).
Shutdown ==
  /\ opc = "idle" /\ initialized
  /\ internal = "NULL"
  /\ entry' = [e \in Entries |-> IF entry[e] = "live" THEN "freed" ELSE entry[e]]
  /\ g_mounts' = NULL
  /\ order' = << >>
  /\ initialized' = FALSE
  /\ UNCHANGED <<vars, next, rvars, jvars>>

\* A plausible bug: the rest of the list is cut off.
LinkedFirstAlone(e) == [next EXCEPT ![e] = NULL]
LinkedFirst(e) == [next EXCEPT ![e] = g_mounts]

\* cmp_vfs_mount; when an allocation fails all is freed and nothing changes.
Mount(e) ==
  /\ opc = "idle" /\ initialized
  /\ entry[e] = "none"
  /\ entry' = [entry EXCEPT ![e] = "live"]
  /\ next' = LinkedFirst(e)
  /\ g_mounts' = e
  /\ order' = Append(order, e)
  /\ UNCHANGED <<vars, initialized, rvars, jvars>>

\* A plausible bug: the context is freed whatever the modality has answered.
AfterQueueingFreed(answer) == "freed"

AfterQueueing(answer) == IF answer = "SUCCESS" THEN "live" ELSE "freed"

\* cmp_vfs_read_file_async on a modality that has not been destroyed.
ReadAsync(r) ==
  /\ initialized
  /\ QueueTask(r)
  /\ ctx' = [ctx EXCEPT ![r] = AfterQueueing(ret'[Owner])]
  /\ UNCHANGED <<lvars, buffer, calls, result, found, start, jvars>>

\* What the owner does with the modality itself.
OwnModality ==
  /\ InitModality \/ SpawnWorker \/ Stop \/ DestroyBegin \/ Finish
  /\ UNCHANGED <<lvars, rvars, jvars>>

-----------------------------------------------------------------------------
(* A worker, in the loop of the modality and in cmp_vfs_read_async_worker. *)

WorkerLoop(w) ==
  /\ job[w] = "idle"
  /\ WorkerCheck(w) \/ WorkerPop(w) \/ WorkerFree(w)
  /\ UNCHANGED <<lvars, rvars, jvars>>

JobStart(w) ==
  LET r == held[w] IN
  /\ wpc[w] = "run" /\ job[w] = "idle"
  /\ IF initialized
       THEN /\ job' = [job EXCEPT ![w] = "walk"]
            /\ curr' = [curr EXCEPT ![w] = g_mounts]
            /\ start' = [start EXCEPT ![r] = Len(order)]
            /\ UNCHANGED result
       ELSE /\ job' = [job EXCEPT ![w] = "call"]
            /\ result' = [result EXCEPT ![r] = "INVALID_ARG"]
            /\ UNCHANGED <<curr, start>>
  /\ UNCHANGED <<vars, lvars, ctx, buffer, calls, found>>

\* A plausible bug: the walk does not go on to the next entry.
AfterEntryStays(e) == e
AfterEntry(e) == next[e]

\* One round of the loop of cmp_vfs_resolve_path.
JobWalk(w) ==
  LET r == held[w]  e == curr[w] IN
  /\ job[w] = "walk"
  /\ IF e = NULL \/ <<e, r>> \in Matches
       THEN /\ found' = [found EXCEPT ![r] = e]
            /\ job' = [job EXCEPT ![w] = "read"]
            /\ curr' = [curr EXCEPT ![w] = NULL]
       ELSE /\ curr' = [curr EXCEPT ![w] = AfterEntry(e)]
            /\ UNCHANGED <<found, job>>
  /\ UNCHANGED <<vars, lvars, ctx, buffer, calls, result, start>>

\* The rest of cmp_vfs_read_file_sync: only a success leaves a buffer.
JobRead(w) ==
  LET r == held[w] IN
  /\ job[w] = "read"
  /\ \/ /\ result' = [result EXCEPT ![r] = "SUCCESS"]
        /\ buffer' = [buffer EXCEPT ![r] = "live"]
     \/ /\ result' = [result EXCEPT ![r] = "NOT_FOUND"]   \* or out of memory
        /\ UNCHANGED buffer
  /\ job' = [job EXCEPT ![w] = "call"]
  /\ UNCHANGED <<vars, lvars, ctx, calls, found, start, curr>>

\* A plausible bug: without a callback the buffer is forgotten.
BufferOfSilentKept(r) == buffer[r]
BufferOfSilent(r) == IF result[r] = "SUCCESS" THEN "freed" ELSE buffer[r]

\* The callback, which owns the buffer and may stop the modality; without one
\* the worker frees the buffer.
JobCall(w) ==
  LET r == held[w] IN
  /\ job[w] = "call"
  /\ WorkerRun(w)
  /\ IF r \in Silent
       THEN /\ running' = running
            /\ buffer' = [buffer EXCEPT ![r] = BufferOfSilent(r)]
            /\ UNCHANGED calls
       ELSE /\ calls' = [calls EXCEPT ![r] = @ + 1]
            /\ buffer' = [buffer EXCEPT ![r] = IF @ = "live" THEN "given" ELSE @]
  /\ job' = [job EXCEPT ![w] = "free"]
  /\ UNCHANGED <<lvars, ctx, result, found, start, curr>>

JobFree(w) ==
  /\ job[w] = "free"
  /\ ctx' = [ctx EXCEPT ![held[w]] = "freed"]
  /\ job' = [job EXCEPT ![w] = "idle"]
  /\ UNCHANGED <<vars, lvars, buffer, calls, result, found, start, curr>>

-----------------------------------------------------------------------------
VfsWorker(w) ==
  WorkerLoop(w) \/ JobStart(w) \/ JobWalk(w) \/ JobRead(w) \/ JobCall(w) \/ JobFree(w)

VfsNext ==
  \/ VfsInit \/ Shutdown \/ OwnModality
  \/ \E e \in Entries : Mount(e)
  \/ \E r \in Tasks : ReadAsync(r)
  \/ \E w \in Workers : VfsWorker(w)

VfsSpec == VfsStart /\ [][VfsNext]_vfsvars

\* As for the modality: threads are scheduled, files are read, callbacks return.
FairVfsSpec ==
  /\ VfsSpec
  /\ \A w \in Workers : WF_vfsvars(VfsWorker(w))
  /\ WF_vfsvars(OwnModality /\ opc # "idle")

-----------------------------------------------------------------------------
\* What a reader of the modality's promises may use here: reads, mounts and
\* shutdowns only ever take the steps of a modality, and a worker that runs a
\* read always comes back to its loop (lines 133 to 161 end).
IsModality == FairSpec

\* A read that was queued while the file system was up never meets one that is
\* down, nor an entry that Shutdown has freed (lines 65 to 71): Shutdown comes
\* after cmp_modality_destroy, which joins every worker.
ReadsMeetTheMounts ==
  /\ \A w \in Workers : curr[w] # NULL => entry[curr[w]] = "live"
  /\ \A r \in Tasks : result[r] # "INVALID_ARG"

\* Mounting goes on while reads run: each is resolved by the newest of the
\* matching mounts that there were when it began, or by none of them if none
\* matches (lines 117 and 136).
NewestMountWins ==
  \A w \in Workers : job[w] = "read" =>
    LET r == held[w]
        Matching == {i \in 1 .. start[r] : <<order[i], r>> \in Matches}
    IN IF Matching = {} THEN found[r] = NULL
       ELSE \E i \in Matching : found[r] = order[i] /\ \A j \in Matching : j <= i

\* The context of a read lives from the call until its worker has used it for
\* the last time, and is then freed; so is a buffer nobody was given.
ContextOutlivesJob ==
  \A r \in Tasks :
    /\ (\E w \in Workers : Holds(w, r) /\ (wpc[w] = "run" \/ job[w] # "idle"))
         => ctx[r] = "live"
    /\ ran[r] > 0 /\ node[r] = "freed" => ctx[r] = "freed" /\ buffer[r] # "live"

\* An accepted read is answered, unless the modality is stopped.
AcceptedIsAnswered ==
  \A r \in Tasks \ Silent : (ctx[r] = "live") ~> (calls[r] = 1 \/ ~running)

\* After cmp_modality_destroy no context is left ("All memory allocations in
\* LibCMPC are routed through custom allocators to ensure zero leaks",
\* src/ARCHITECTURE.md:10).
NoContextLeaks == internal = "NULL" => \A r \in Tasks : ctx[r] # "live"
=============================================================================
