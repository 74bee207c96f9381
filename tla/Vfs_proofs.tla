----------------------------- MODULE Vfs_proofs -----------------------------
(***************************************************************************)
(* Proofs about Vfs for any number of workers, reads and mounts.  Vfs only *)
(* takes steps of the modality, so what ThreadedModality_proofs shows of   *)
(* the modality holds here too; the rest is built on it.                   *)
(***************************************************************************)
EXTENDS Vfs, ThreadedModality_proofs

\* Every step of the file system is a step of the modality, or one it does not
\* see: the theorems about the modality hold of a modality that runs reads.
THEOREM ReadsAreTasks == VfsSpec => Spec
<1>1. VfsStart => Init
  BY DEF VfsStart
<1>2. [VfsNext]_vfsvars => [Next]_vars
  <2> SUFFICES ASSUME [VfsNext]_vfsvars PROVE Next \/ UNCHANGED vars
    OBVIOUS
  <2>1. CASE VfsInit \/ Shutdown \/ UNCHANGED vfsvars
    BY <2>1 DEF VfsInit, Shutdown, vfsvars
  <2>2. CASE OwnModality
    BY <2>2 DEF OwnModality, Next
  <2>3. ASSUME NEW e \in Entries, Mount(e)
        PROVE  UNCHANGED vars
    BY <2>3 DEF Mount
  <2>4. ASSUME NEW r \in Tasks, ReadAsync(r)
        PROVE  Next
    BY <2>4 DEF ReadAsync, Next
  <2>5. ASSUME NEW w \in Workers, VfsWorker(w)
        PROVE  Next \/ UNCHANGED vars
    <3>1. CASE WorkerLoop(w)
      BY <3>1 DEF WorkerLoop, Next, Worker
    <3>2. CASE JobCall(w)
      BY <3>2 DEF JobCall, Next, Worker
    <3>3. CASE JobStart(w) \/ JobWalk(w) \/ JobRead(w) \/ JobFree(w)
      BY <3>3 DEF JobStart, JobWalk, JobRead, JobFree
    <3> QED
      BY <2>5, <3>1, <3>2, <3>3 DEF VfsWorker
  <2> QED
    BY <2>1, <2>2, <2>3, <2>4, <2>5 DEF VfsNext
<1> QED
  BY <1>1, <1>2, PTL DEF VfsSpec, Spec

LEMMA ModalityInv == VfsSpec => []Inv
BY ReadsAreTasks, InvariantInv, PTL

-----------------------------------------------------------------------------
VfsTypes ==
  /\ initialized \in BOOLEAN
  /\ g_mounts \in Entries \cup {NULL}
  /\ next \in [Entries -> Entries \cup {NULL}]
  /\ entry \in [Entries -> {"none", "live", "freed"}]
  /\ result \in [Tasks -> {"none", "SUCCESS", "NOT_FOUND", "INVALID_ARG"}]
  /\ job \in [Workers -> {"idle", "walk", "read", "call", "free"}]
  /\ curr \in [Workers -> Entries \cup {NULL}]

\* Where a worker is in a read agrees with where it is in the modality.
JobView ==
  \A w \in Workers :
    /\ job[w] \in {"walk", "read", "call"} => wpc[w] = "run"
    /\ job[w] = "free" => wpc[w] = "free"
    /\ curr[w] # NULL => job[w] = "walk"

\* As long as a read is queued or runs, the file system is up.
UpForReads ==
  /\ queue # << >> => initialized
  /\ \A w \in Workers : wpc[w] = "run" => initialized

\* The list of mounts, and what a worker has seen of it, is not freed.
ListIsLive ==
  /\ g_mounts # NULL => entry[g_mounts] = "live"
  /\ \A e \in Entries :
       entry[e] = "live" /\ next[e] # NULL => entry[next[e]] = "live"
  /\ \A w \in Workers : curr[w] # NULL => entry[curr[w]] = "live"

NoneInvalid == \A r \in Tasks : result[r] # "INVALID_ARG"

VfsInv == VfsTypes /\ JobView /\ UpForReads /\ ListIsLive /\ NoneInvalid

LEMMA VfsInitInv == VfsStart => VfsInv
<1> SUFFICES ASSUME VfsStart PROVE VfsInv
  OBVIOUS
<1>1. /\ queue = << >> /\ \A w \in Workers : wpc[w] = "absent"
      /\ g_mounts = NULL /\ initialized = FALSE
      /\ next = [e \in Entries |-> NULL] /\ entry = [e \in Entries |-> "none"]
      /\ result = [r \in Tasks |-> "none"]
      /\ job = [w \in Workers |-> "idle"] /\ curr = [w \in Workers |-> NULL]
  BY DEF VfsStart, Init, Queue!Init
<1>2. VfsTypes
  BY <1>1 DEF VfsTypes
<1>3. JobView /\ UpForReads
  BY <1>1 DEF JobView, UpForReads
<1>4. ListIsLive /\ NoneInvalid
  BY <1>1 DEF ListIsLive, NoneInvalid
<1> QED
  BY <1>2, <1>3, <1>4 DEF VfsInv

\* What a step of the owner that leaves the workers alone has to keep.
LEMMA OwnerStep ==
  ASSUME Inv, VfsInv, [VfsNext]_vfsvars,
         VfsInit \/ Shutdown \/ (\E e \in Entries : Mount(e))
  PROVE  VfsInv'
<1>0. UNCHANGED vars /\ UNCHANGED <<result, job, curr>>
  BY DEF VfsInit, Shutdown, Mount, rvars, jvars
<1>1. UNCHANGED <<queue, wpc, internal>>
  BY <1>0 DEF vars, qvars, mvars, wvars
<1>2. JobView' /\ NoneInvalid'
  BY <1>0, <1>1 DEF VfsInv, JobView, NoneInvalid
<1>3. CASE VfsInit
  <2>1. initialized' = TRUE /\ g_mounts' = NULL /\ UNCHANGED <<next, entry>>
    BY <1>3 DEF VfsInit
  <2> QED
    BY <1>0, <1>1, <1>2, <2>1 DEF VfsInv, VfsTypes, UpForReads, ListIsLive
<1>4. CASE Shutdown
  <2>1. /\ internal = "NULL" /\ initialized' = FALSE /\ g_mounts' = NULL
        /\ entry' = [e \in Entries |-> IF entry[e] = "live" THEN "freed" ELSE entry[e]]
        /\ UNCHANGED next
    BY <1>4 DEF Shutdown
  <2>2. queue = << >> /\ \A w \in Workers : ~Alive(w)
    BY <2>1 DEF Inv, LifeCycle
  <2>3. \A w \in Workers : wpc[w] # "run" /\ curr[w] = NULL
    BY <2>2 DEF Alive, VfsInv, JobView
  <2>4. VfsTypes'
    BY <1>0, <2>1 DEF VfsInv, VfsTypes
  <2>5. UpForReads'
    BY <1>1, <2>2, <2>3 DEF UpForReads
  <2>6. \A e \in Entries : entry'[e] # "live"
    BY <2>1 DEF VfsInv, VfsTypes
  <2>7. ListIsLive'
    BY <1>0, <2>1, <2>3, <2>6 DEF ListIsLive
  <2> QED
    BY <1>2, <2>4, <2>5, <2>7 DEF VfsInv
<1>5. ASSUME NEW e \in Entries, Mount(e)
      PROVE  VfsInv'
  <2>1. /\ initialized /\ initialized' = initialized
        /\ entry[e] = "none" /\ entry' = [entry EXCEPT ![e] = "live"]
        /\ next' = [next EXCEPT ![e] = g_mounts] /\ g_mounts' = e
    BY <1>5 DEF Mount, LinkedFirst
  <2>2. VfsTypes'
    BY <1>0, <2>1 DEF VfsInv, VfsTypes
  <2>3. UpForReads'
    BY <1>1, <2>1 DEF VfsInv, UpForReads
  <2>4. \A f \in Entries : entry[f] = "live" => entry'[f] = "live"
    BY <2>1 DEF VfsInv, VfsTypes
  <2>5. g_mounts # NULL => g_mounts \in Entries /\ entry'[g_mounts] = "live"
    BY <2>4 DEF VfsInv, VfsTypes, ListIsLive
  <2>6. ASSUME NEW f \in Entries, entry'[f] = "live", next'[f] # NULL
        PROVE  entry'[next'[f]] = "live"
    <3>1. CASE f = e
      BY <2>1, <2>5, <2>6, <3>1 DEF VfsInv, VfsTypes
    <3>2. CASE f # e
      <4>1. next'[f] = next[f] /\ entry[f] = "live" /\ next[f] \in Entries
        BY <2>1, <2>6, <3>2 DEF VfsInv, VfsTypes
      <4> QED
        BY <2>4, <2>6, <4>1 DEF VfsInv, ListIsLive
    <3> QED
      BY <3>1, <3>2
  <2>7. \A w \in Workers : curr'[w] # NULL => entry'[curr'[w]] = "live"
    BY <1>0, <2>4 DEF VfsInv, VfsTypes, ListIsLive
  <2>8. entry'[g_mounts'] = "live"
    BY <2>1 DEF VfsInv, VfsTypes
  <2>9. ListIsLive'
    BY <2>6, <2>7, <2>8 DEF ListIsLive
  <2> QED
    BY <1>2, <2>2, <2>3, <2>9 DEF VfsInv
<1> QED
  BY <1>3, <1>4, <1>5

\* A step that leaves the list, the jobs and the results alone keeps the
\* invariant if it starts no read while the file system is down.
LEMMA ModalityStep ==
  ASSUME VfsInv, UNCHANGED <<initialized, g_mounts, next, entry, result, job, curr>>,
         queue' # << >> => initialized,
         \A w \in Workers : /\ wpc'[w] = "run" => initialized
                            /\ job[w] # "idle" => wpc'[w] = wpc[w]
  PROVE  VfsInv'
<1>1. VfsTypes' /\ ListIsLive' /\ NoneInvalid'
  BY DEF VfsInv, VfsTypes, ListIsLive, NoneInvalid
<1>2. JobView'
  BY DEF VfsInv, VfsTypes, JobView
<1>3. UpForReads'
  BY DEF VfsInv, UpForReads
<1> QED
  BY <1>1, <1>2, <1>3 DEF VfsInv

LEMMA OwnModalityStep ==
  ASSUME Inv, VfsInv, OwnModality
  PROVE  VfsInv'
<1>0. UNCHANGED <<initialized, g_mounts, next, entry, result, job, curr>>
  BY DEF OwnModality, lvars, rvars, jvars
<1>1. /\ queue \in Seq(Tasks) /\ wpc \in [Workers -> {"absent", "check", "pop", "run", "free", "exited"}]
  BY DEF Inv, TypeOK
<1>2. CASE Stop \/ DestroyBegin \/ Join \/ DestroyEnd \/ DrainOne
  <2>1. wpc' = wpc
    BY <1>2 DEF Stop, DestroyBegin, Join, DestroyEnd, DrainOne, wvars
  <2>2. queue' = queue \/ queue # << >>
    BY <1>2 DEF Stop, DestroyBegin, Join, DestroyEnd, DrainOne, qvars, Drained,
                Queue!FindEmpty, Queue!Pop
  <2> QED
    BY <1>0, <2>1, <2>2, ModalityStep DEF VfsInv, UpForReads
<1>3. CASE InitModality
  <2>1. internal = "NULL" /\ queue' = << >> /\ wpc' = [w \in Workers |-> "absent"]
    BY <1>3 DEF InitModality
  <2>2. \A w \in Workers : ~Alive(w)
    BY <2>1 DEF Inv, LifeCycle
  <2>3. \A w \in Workers : job[w] = "idle"
    BY <2>2 DEF VfsInv, VfsTypes, JobView, Alive
  <2> QED
    BY <1>0, <2>1, <2>3, ModalityStep
<1>4. CASE SpawnWorker
  <2>1. /\ opc = "spawn" /\ queue' = queue
        /\ wpc' = [wpc EXCEPT ![joined + 1] = "check"]
    BY <1>4 DEF SpawnWorker, qvars
  <2>2. joined \in 0 .. NumWorkers /\ joined < NumWorkers
    BY <2>1 DEF Inv, TypeOK, LifeCycle
  <2>3. joined + 1 \in Workers /\ joined + 1 > joined
    BY <2>2, NumWorkersAssumption DEF Workers
  <2>4. wpc[joined + 1] = "absent"
    BY <2>1, <2>3 DEF Inv, LifeCycle
  <2>5. job[joined + 1] = "idle"
    BY <2>3, <2>4 DEF VfsInv, VfsTypes, JobView
  <2>6. \A w \in Workers : /\ wpc'[w] = "run" => wpc[w] = "run"
                           /\ job[w] # "idle" => wpc'[w] = wpc[w]
    BY <1>1, <2>1, <2>5
  <2> QED
    BY <1>0, <2>1, <2>6, ModalityStep DEF VfsInv, UpForReads
<1> QED
  BY <1>2, <1>3, <1>4 DEF OwnModality, Finish

LEMMA ReadAsyncStep ==
  ASSUME Inv, VfsInv, NEW r \in Tasks, ReadAsync(r)
  PROVE  VfsInv'
<1>1. /\ initialized /\ wpc' = wpc
      /\ UNCHANGED <<initialized, g_mounts, next, entry, result, job, curr>>
  BY DEF ReadAsync, QueueTask, wvars, lvars, jvars
<1> QED
  BY <1>1, ModalityStep

LEMMA WorkerLoopStep ==
  ASSUME Inv, VfsInv, NEW w \in Workers, WorkerLoop(w)
  PROVE  VfsInv'
<1>0. /\ job[w] = "idle"
      /\ UNCHANGED <<initialized, g_mounts, next, entry, result, job, curr>>
  BY DEF WorkerLoop, lvars, rvars, jvars
<1>1. wpc \in [Workers -> {"absent", "check", "pop", "run", "free", "exited"}]
  BY DEF Inv, TypeOK
<1>2. CASE WorkerCheck(w) \/ WorkerFree(w)
  <2>1. /\ queue' = queue
        /\ wpc' = [wpc EXCEPT ![w] = "check"] \/ wpc' = [wpc EXCEPT ![w] = "pop"]
           \/ wpc' = [wpc EXCEPT ![w] = "exited"]
    BY <1>2 DEF WorkerCheck, WorkerFree, qvars
  <2> QED
    BY <1>0, <1>1, <2>1, ModalityStep DEF VfsInv, UpForReads
<1>3. CASE WorkerPop(w)
  <2>1. \/ queue # << >> /\ wpc' = [wpc EXCEPT ![w] = "run"]
        \/ queue' = queue /\ wpc' = [wpc EXCEPT ![w] = "check"]
    BY <1>3 DEF WorkerPop, Queue!Pop, Queue!FindEmpty
  <2> QED
    BY <1>0, <1>1, <2>1, ModalityStep DEF VfsInv, UpForReads
<1> QED
  BY <1>2, <1>3 DEF WorkerLoop

LEMMA JobStep ==
  ASSUME Inv, VfsInv, NEW w \in Workers,
         JobStart(w) \/ JobWalk(w) \/ JobRead(w) \/ JobCall(w) \/ JobFree(w)
  PROVE  VfsInv'
<1>0. /\ wpc \in [Workers -> {"absent", "check", "pop", "run", "free", "exited"}]
      /\ wpc[w] = "run" => held[w] \in Tasks
      /\ VfsTypes /\ JobView /\ UpForReads /\ ListIsLive /\ NoneInvalid
  BY DEF Inv, TypeOK, WorkerView, VfsInv
<1>1. UNCHANGED <<queue, initialized, g_mounts, next, entry>>
  BY DEF JobStart, JobWalk, JobRead, JobCall, JobFree, vars, qvars, lvars, WorkerRun
<1>2. CASE JobStart(w)
  <2>1. /\ wpc[w] = "run" /\ wpc' = wpc /\ result' = result
        /\ job' = [job EXCEPT ![w] = "walk"] /\ curr' = [curr EXCEPT ![w] = g_mounts]
    BY <1>0, <1>2 DEF JobStart, vars, wvars, UpForReads
  <2>2. VfsTypes' /\ NoneInvalid' /\ UpForReads'
    <3>1. VfsTypes'
      BY <1>0, <1>1, <2>1 DEF VfsTypes
    <3>2. NoneInvalid'
      BY <1>0, <1>1, <2>1 DEF VfsTypes, NoneInvalid
    <3>3. UpForReads'
      BY <1>0, <1>1, <2>1 DEF UpForReads
    <3> QED
      BY <3>1, <3>2, <3>3
  <2>3. JobView'
    BY <1>0, <2>1 DEF VfsTypes, JobView
  <2>4. ListIsLive'
    BY <1>0, <1>1, <2>1 DEF VfsTypes, ListIsLive
  <2> QED
    BY <2>2, <2>3, <2>4 DEF VfsInv
<1>3. CASE JobWalk(w)
  <2>1. /\ wpc' = wpc /\ result' = result /\ job[w] = "walk"
        /\ \/ job' = [job EXCEPT ![w] = "read"] /\ curr' = [curr EXCEPT ![w] = NULL]
           \/ /\ curr[w] # NULL /\ curr' = [curr EXCEPT ![w] = next[curr[w]]]
              /\ job' = job
    BY <1>3 DEF JobWalk, AfterEntry, vars, wvars, rvars
  <2>2. curr[w] # NULL => /\ curr[w] \in Entries /\ entry[curr[w]] = "live"
                          /\ next[curr[w]] \in Entries \cup {NULL}
                          /\ next[curr[w]] # NULL => entry[next[curr[w]]] = "live"
    BY <1>0 DEF VfsTypes, ListIsLive
  <2>3. VfsTypes' /\ NoneInvalid' /\ UpForReads'
    <3>1. VfsTypes'
      BY <1>0, <1>1, <2>1, <2>2 DEF VfsTypes
    <3>2. NoneInvalid'
      BY <1>0, <1>1, <2>1, <2>2 DEF VfsTypes, NoneInvalid
    <3>3. UpForReads'
      BY <1>0, <1>1, <2>1, <2>2 DEF UpForReads
    <3> QED
      BY <3>1, <3>2, <3>3
  <2>4. JobView'
    BY <1>0, <2>1 DEF VfsTypes, JobView
  <2>5. ListIsLive'
    BY <1>0, <1>1, <2>1, <2>2 DEF VfsTypes, ListIsLive
  <2> QED
    BY <2>3, <2>4, <2>5 DEF VfsInv
<1>4. CASE JobRead(w)
  <2>1. /\ wpc' = wpc /\ curr' = curr /\ job[w] = "read"
        /\ job' = [job EXCEPT ![w] = "call"]
        /\ \E x \in {"SUCCESS", "NOT_FOUND"} : result' = [result EXCEPT ![held[w]] = x]
    BY <1>4 DEF JobRead, vars, wvars
  <2>2. VfsTypes' /\ NoneInvalid' /\ UpForReads'
    <3>0. PICK x \in {"SUCCESS", "NOT_FOUND"} : result' = [result EXCEPT ![held[w]] = x]
      BY <2>1
    <3>1. VfsTypes'
      <4>1. result' \in [Tasks -> {"none", "SUCCESS", "NOT_FOUND", "INVALID_ARG"}]
        BY <1>0, <3>0 DEF VfsTypes
      <4>2. job' \in [Workers -> {"idle", "walk", "read", "call", "free"}]
        BY <1>0, <2>1 DEF VfsTypes
      <4> QED
        BY <1>0, <1>1, <2>1, <4>1, <4>2 DEF VfsTypes
    <3>2. NoneInvalid'
      BY <1>0, <3>0 DEF VfsTypes, NoneInvalid
    <3>3. UpForReads'
      BY <1>0, <1>1, <2>1 DEF UpForReads
    <3> QED
      BY <3>1, <3>2, <3>3
  <2>3. JobView'
    BY <1>0, <2>1 DEF VfsTypes, JobView
  <2>4. ListIsLive'
    BY <1>0, <1>1, <2>1 DEF ListIsLive
  <2> QED
    BY <2>2, <2>3, <2>4 DEF VfsInv
<1>5. CASE JobCall(w)
  <2>1. /\ wpc' = [wpc EXCEPT ![w] = "free"] /\ curr' = curr /\ result' = result
        /\ job[w] = "call" /\ job' = [job EXCEPT ![w] = "free"]
    BY <1>5 DEF JobCall, WorkerRun, AfterTask
  <2>2. VfsTypes' /\ NoneInvalid' /\ UpForReads'
    <3>1. VfsTypes'
      BY <1>0, <1>1, <2>1 DEF VfsTypes
    <3>2. NoneInvalid'
      BY <1>0, <1>1, <2>1 DEF VfsTypes, NoneInvalid
    <3>3. UpForReads'
      BY <1>0, <1>1, <2>1 DEF UpForReads
    <3> QED
      BY <3>1, <3>2, <3>3
  <2>3. JobView'
    BY <1>0, <2>1 DEF VfsTypes, JobView
  <2>4. ListIsLive'
    BY <1>0, <1>1, <2>1 DEF ListIsLive
  <2> QED
    BY <2>2, <2>3, <2>4 DEF VfsInv
<1>6. CASE JobFree(w)
  <2>1. /\ wpc' = wpc /\ curr' = curr /\ result' = result
        /\ job[w] = "free" /\ job' = [job EXCEPT ![w] = "idle"]
    BY <1>6 DEF JobFree, vars, wvars
  <2>2. VfsTypes' /\ NoneInvalid' /\ UpForReads'
    <3>1. VfsTypes'
      BY <1>0, <1>1, <2>1 DEF VfsTypes
    <3>2. NoneInvalid'
      BY <1>0, <1>1, <2>1 DEF VfsTypes, NoneInvalid
    <3>3. UpForReads'
      BY <1>0, <1>1, <2>1 DEF UpForReads
    <3> QED
      BY <3>1, <3>2, <3>3
  <2>3. JobView'
    BY <1>0, <2>1 DEF VfsTypes, JobView
  <2>4. ListIsLive'
    BY <1>0, <1>1, <2>1 DEF ListIsLive
  <2> QED
    BY <2>2, <2>3, <2>4 DEF VfsInv
<1> QED
  BY <1>2, <1>3, <1>4, <1>5, <1>6

LEMMA VfsInvAlways == VfsSpec => [](Inv /\ VfsInv)
<1>1. VfsStart => VfsInv
  BY VfsInitInv
<1>2. Inv /\ VfsInv /\ [VfsNext]_vfsvars => VfsInv'
  <2> SUFFICES ASSUME Inv, VfsInv, [VfsNext]_vfsvars PROVE VfsInv'
    OBVIOUS
  <2>1. CASE UNCHANGED vfsvars
    BY <2>1, ModalityStep
       DEF vfsvars, vars, lvars, rvars, jvars, qvars, wvars, VfsInv, UpForReads
  <2>2. CASE VfsNext
    BY <2>2, OwnerStep, OwnModalityStep, ReadAsyncStep, WorkerLoopStep, JobStep
       DEF VfsNext, VfsWorker
  <2> QED
    BY <2>1, <2>2
<1> QED
  BY <1>1, <1>2, ModalityInv, PTL DEF VfsSpec

-----------------------------------------------------------------------------
\* A read that was queued while the file system was up is run while it is up,
\* and the mounts it walks are not freed under it, because cmp_vfs_shutdown
\* comes after cmp_modality_destroy and that joins every worker.
THEOREM MountsOutliveReads == VfsSpec => []ReadsMeetTheMounts
<1>1. VfsInv => ReadsMeetTheMounts
  BY DEF VfsInv, ListIsLive, NoneInvalid, ReadsMeetTheMounts
<1> QED
  BY <1>1, VfsInvAlways, PTL

-----------------------------------------------------------------------------
(* The context and the buffer of a read. *)

ContextTypes ==
  /\ ctx \in [Tasks -> {"none", "live", "freed"}]
  /\ buffer \in [Tasks -> {"none", "live", "given", "freed"}]

\* Where the memory of one read is while it is new, queued, run and done.
ReadInv(r) ==
  /\ node[r] = "none" \/ Among(r, queue) => buffer[r] = "none"
  /\ Among(r, queue) => ctx[r] = "live"
  /\ \A w \in Workers : Holds(w, r) =>
       /\ wpc[w] = "run" \/ job[w] = "free" => ctx[r] = "live"
       /\ wpc[w] = "run" /\ job[w] # "call" => buffer[r] = "none"
       /\ job[w] = "call" => (buffer[r] = "live" <=> result[r] = "SUCCESS")
       /\ wpc[w] = "free" => buffer[r] # "live"
       /\ wpc[w] = "free" /\ job[w] = "idle" => ctx[r] = "freed"
  /\ ran[r] > 0 /\ node[r] = "freed" => ctx[r] = "freed" /\ buffer[r] # "live"

ContextInv == ContextTypes /\ \A r \in Tasks : ReadInv(r)

\* What no step touches stays as it was, whoever else moves.
LEMMA Untouched ==
  ASSUME NEW q \in Tasks, ReadInv(q),
         node'[q] = node[q], ran'[q] = ran[q], ctx'[q] = ctx[q],
         buffer'[q] = buffer[q], result'[q] = result[q],
         Among(q, queue') => Among(q, queue),
         \A v \in Workers : Holds(v, q)' =>
           Holds(v, q) /\ wpc'[v] = wpc[v] /\ job'[v] = job[v]
  PROVE  ReadInv(q)'
BY DEF ReadInv

LEMMA ContextInit == VfsStart => ContextInv
<1> SUFFICES ASSUME VfsStart PROVE ContextInv
  OBVIOUS
<1>1. /\ queue = << >> /\ \A w \in Workers : wpc[w] = "absent"
      /\ node = [r \in Tasks |-> "none"] /\ ran = [r \in Tasks |-> 0]
      /\ ctx = [r \in Tasks |-> "none"] /\ buffer = [r \in Tasks |-> "none"]
  BY DEF VfsStart, Init, Queue!Init
<1>2. ContextTypes
  BY <1>1 DEF ContextTypes
<1>3. \A r \in Tasks : ReadInv(r)
  BY <1>1, AmongEmpty DEF ReadInv, Holds
<1> QED
  BY <1>2, <1>3 DEF ContextInv

\* A step that no read notices.
LEMMA UnseenByReads ==
  ASSUME ContextInv, UNCHANGED <<node, ran, ctx, buffer, result, job>>,
         \A q \in Tasks : Among(q, queue') => Among(q, queue),
         \A v \in Workers : wpc'[v] \in {"run", "free"} =>
           wpc'[v] = wpc[v] /\ held'[v] = held[v]
  PROVE  ContextInv'
<1>1. ContextTypes'
  BY DEF ContextInv, ContextTypes
<1>2. ASSUME NEW q \in Tasks
      PROVE  ReadInv(q)'
  <2>1. \A v \in Workers : Holds(v, q)' =>
          Holds(v, q) /\ wpc'[v] = wpc[v] /\ job'[v] = job[v]
    BY DEF Holds
  <2> QED
    BY <2>1, Untouched DEF ContextInv
<1> QED
  BY <1>1, <1>2 DEF ContextInv

LEMMA OwnModalityContext ==
  ASSUME Inv, VfsInv, ContextInv, OwnModality
  PROVE  ContextInv'
<1>0. UNCHANGED <<ctx, buffer, result, job>>
  BY DEF OwnModality, rvars, jvars
<1>t. /\ queue \in Seq(Tasks)
      /\ node \in [Tasks -> {"none", "live", "freed"}]
      /\ wpc \in [Workers -> {"absent", "check", "pop", "run", "free", "exited"}]
  BY DEF Inv, TypeOK
<1>1. CASE InitModality
  <2>1. /\ UNCHANGED <<node, ran, held>> /\ queue' = << >>
        /\ wpc' = [w \in Workers |-> "absent"]
    BY <1>1 DEF InitModality, tvars
  <2> QED
    BY <1>0, <2>1, AmongEmpty, UnseenByReads
<1>2. CASE SpawnWorker
  <2>1. /\ UNCHANGED <<queue, node, ran, held>>
        /\ wpc' = [wpc EXCEPT ![joined + 1] = "check"]
    BY <1>2 DEF SpawnWorker, qvars, tvars
  <2> QED
    BY <1>0, <1>t, <2>1, UnseenByReads
<1>3. CASE Stop \/ DestroyBegin \/ Join \/ DestroyEnd
  <2>1. UNCHANGED <<queue, node, ran, wpc, held>>
    BY <1>3 DEF Stop, DestroyBegin, Join, DestroyEnd, Drained, Queue!FindEmpty,
                qvars, tvars, wvars
  <2> QED
    BY <1>0, <2>1, UnseenByReads
<1>4. CASE DrainOne
  <2>0. PICK h \in Tasks : h = Head(queue)
    BY <1>t, <1>4, HeadTailProperties DEF DrainOne, Queue!Pop
  <2>1. /\ queue # << >> /\ queue' = Tail(queue) /\ UNCHANGED <<ran, wpc, held>>
        /\ node' = [node EXCEPT ![h] = "freed"]
    BY <1>4, <2>0 DEF DrainOne, Queue!Pop, wvars
  <2>2. /\ h \in Tasks /\ Among(h, queue) /\ ~Among(h, queue')
        /\ \A q : Among(q, queue') => Among(q, queue)
    BY <1>t, <2>0, <2>1, AmongTail DEF Inv, NodeHasOneHolder
  <2>3. ran[h] = 0 /\ \A w \in Workers : ~Holds(w, h)
    BY <2>2 DEF Inv, RunsAtMostOnce, NodeHasOneHolder
  <2>4. ReadInv(h)'
    <3>1. \A w \in Workers : ~Holds(w, h)'
      BY <2>1, <2>3 DEF Holds
    <3>2. node'[h] = "freed" /\ ran'[h] = 0
      BY <1>t, <2>1, <2>2, <2>3
    <3> QED
      BY <2>2, <3>1, <3>2 DEF ReadInv
  <2>5. ASSUME NEW q \in Tasks, q # h
        PROVE  ReadInv(q)'
    <3>1. node'[q] = node[q]
      BY <1>t, <2>1, <2>5
    <3>2. \A v \in Workers : Holds(v, q)' =>
            Holds(v, q) /\ wpc'[v] = wpc[v] /\ job'[v] = job[v]
      BY <1>0, <2>1 DEF Holds
    <3> QED
      BY <1>0, <2>1, <2>2, <3>1, <3>2, Untouched DEF ContextInv
  <2>6. ContextTypes'
    BY <1>0 DEF ContextInv, ContextTypes
  <2> QED
    BY <2>4, <2>5, <2>6 DEF ContextInv
<1> QED
  BY <1>1, <1>2, <1>3, <1>4 DEF OwnModality, Finish

LEMMA ReadAsyncContext ==
  ASSUME Inv, ContextInv, NEW r \in Tasks, ReadAsync(r)
  PROVE  ContextInv'
<1>t. /\ queue \in Seq(Tasks)
      /\ node \in [Tasks -> {"none", "live", "freed"}]
      /\ ret \in [Workers \cup {Owner} -> {"none", "SUCCESS", "BOUNDS", "NOT_FOUND"}]
      /\ ctx \in [Tasks -> {"none", "live", "freed"}]
  BY DEF Inv, TypeOK, ContextInv, ContextTypes
<1>1. /\ UNCHANGED <<ran, wpc, held, buffer, result, job>> /\ node[r] = "none"
      /\ ctx' = [ctx EXCEPT ![r] = AfterQueueing(ret'[Owner])]
      /\ AcceptTask(r) \/ RefuseTask(r)
  BY DEF ReadAsync, QueueTask, wvars, jvars
<1>2. \/ /\ ret'[Owner] = "SUCCESS" /\ node' = [node EXCEPT ![r] = "live"]
         /\ queue' = Append(queue, r)
      \/ /\ ret'[Owner] = "BOUNDS" /\ node' = [node EXCEPT ![r] = "freed"]
         /\ queue' = queue
  BY <1>t, <1>1 DEF AcceptTask, RefuseTask, Queue!Push, Queue!Refuse
<1>3. \A q : Among(q, queue') => Among(q, queue) \/ q = r
  BY <1>t, <1>2, AmongAppend, ZenonT(60)
<1>4. /\ ran[r] = 0 /\ buffer[r] = "none" /\ ~Among(r, queue)
      /\ \A w \in Workers : ~Holds(w, r)
  BY <1>1 DEF Inv, RunsAtMostOnce, NodeHasOneHolder, ContextInv, ReadInv
<1>5. \A w \in Workers : ~Holds(w, r)'
  BY <1>1, <1>4 DEF Holds
<1>6. ReadInv(r)'
  <2>1. CASE ret'[Owner] = "SUCCESS"
    <3>1. node'[r] = "live" /\ ctx'[r] = "live"
      BY <1>t, <1>1, <1>2, <2>1 DEF AfterQueueing
    <3> QED
      BY <1>1, <1>4, <1>5, <3>1 DEF ReadInv
  <2>2. CASE ret'[Owner] = "BOUNDS"
    <3>1. node'[r] = "freed" /\ queue' = queue
      BY <1>t, <1>2, <2>2
    <3> QED
      BY <1>1, <1>4, <1>5, <3>1 DEF ReadInv
  <2> QED
    BY <1>2, <2>1, <2>2
<1>7. ASSUME NEW q \in Tasks, q # r
      PROVE  ReadInv(q)'
  <2>1. node'[q] = node[q] /\ ctx'[q] = ctx[q]
    BY <1>t, <1>1, <1>2, <1>7
  <2>2. \A v \in Workers : Holds(v, q)' =>
          Holds(v, q) /\ wpc'[v] = wpc[v] /\ job'[v] = job[v]
    BY <1>1 DEF Holds
  <2> QED
    BY <1>1, <1>3, <1>7, <2>1, <2>2, Untouched DEF ContextInv
<1>8. ContextTypes'
  BY <1>t, <1>1 DEF ContextInv, ContextTypes, AfterQueueing
<1> QED
  BY <1>6, <1>7, <1>8 DEF ContextInv

\* A step of one worker with the read it holds leaves the other reads alone.
LEMMA OtherReads ==
  ASSUME ContextInv, Inv, NEW w \in Workers, NEW r \in Tasks, NEW q \in Tasks, q # r,
         \A v \in Workers \ {w} :
           wpc'[v] = wpc[v] /\ held'[v] = held[v] /\ job'[v] = job[v],
         ~Holds(w, q)',
         node'[q] = node[q], ran'[q] = ran[q], ctx'[q] = ctx[q],
         buffer'[q] = buffer[q], result'[q] = result[q],
         Among(q, queue') => Among(q, queue)
  PROVE  ReadInv(q)'
<1>1. \A v \in Workers : Holds(v, q)' =>
        Holds(v, q) /\ wpc'[v] = wpc[v] /\ job'[v] = job[v]
  BY DEF Holds
<1> QED
  BY <1>1, Untouched DEF ContextInv

LEMMA WorkerLoopContext ==
  ASSUME Inv, VfsInv, ContextInv, NEW w \in Workers, WorkerLoop(w)
  PROVE  ContextInv'
<1>0. job[w] = "idle" /\ UNCHANGED <<ctx, buffer, result, job>>
  BY DEF WorkerLoop, rvars, jvars
<1>t. /\ queue \in Seq(Tasks)
      /\ node \in [Tasks -> {"none", "live", "freed"}]
      /\ wpc \in [Workers -> {"absent", "check", "pop", "run", "free", "exited"}]
      /\ held \in [Workers -> Tasks \cup {NoTask}]
  BY DEF Inv, TypeOK
<1>c. ContextTypes'
  BY <1>0 DEF ContextInv, ContextTypes
<1>1. CASE WorkerCheck(w)
  <2>1. /\ UNCHANGED <<queue, node, ran, held>>
        /\ \/ wpc' = [wpc EXCEPT ![w] = "pop"]
           \/ wpc' = [wpc EXCEPT ![w] = "exited"]
    BY <1>1 DEF WorkerCheck, qvars, tvars
  <2>2. \A v \in Workers : wpc'[v] \in {"run", "free"} => wpc'[v] = wpc[v]
    BY <1>t, <2>1
  <2> QED
    BY <1>0, <2>1, <2>2, UnseenByReads
<1>2. CASE WorkerPop(w) /\ queue' = queue /\ wpc' = [wpc EXCEPT ![w] = "check"]
           /\ held' = held
  <2>1. UNCHANGED <<node, ran>>
    BY <1>2 DEF WorkerPop, tvars
  <2>2. \A v \in Workers : wpc'[v] \in {"run", "free"} => wpc'[v] = wpc[v]
    BY <1>t, <1>2
  <2> QED
    BY <1>0, <1>2, <2>1, <2>2, UnseenByReads
<1>3. CASE WorkerPop(w) /\ Queue!Pop(w)
  <2>0. PICK h \in Tasks : h = Head(queue)
    BY <1>t, <1>3, HeadTailProperties DEF Queue!Pop
  <2>1. /\ wpc[w] = "pop" /\ queue # << >> /\ queue' = Tail(queue)
        /\ UNCHANGED <<node, ran>>
        /\ held' = [held EXCEPT ![w] = h] /\ wpc' = [wpc EXCEPT ![w] = "run"]
    BY <1>3, <2>0 DEF WorkerPop, Queue!Pop, Queue!FindEmpty, tvars
  <2>2. /\ h \in Tasks /\ Among(h, queue) /\ ~Among(h, queue')
        /\ \A q : Among(q, queue') => Among(q, queue)
    BY <1>t, <2>0, <2>1, AmongTail DEF Inv, NodeHasOneHolder
  <2>3. /\ ran[h] = 0 /\ node[h] = "live" /\ ctx[h] = "live" /\ buffer[h] = "none"
        /\ \A v \in Workers : ~Holds(v, h)
    BY <2>2 DEF Inv, RunsAtMostOnce, NodeHasOneHolder, ContextInv, ReadInv
  <2>4. \A v \in Workers \ {w} : wpc'[v] = wpc[v] /\ held'[v] = held[v] /\ job'[v] = job[v]
    BY <1>0, <1>t, <2>1
  <2>5. wpc'[w] = "run" /\ held'[w] = h
    BY <1>t, <2>1
  <2>6. ReadInv(h)'
    <3>1. \A v \in Workers : Holds(v, h)' => v = w
      BY <2>3, <2>4 DEF Holds
    <3> QED
      BY <1>0, <2>1, <2>2, <2>3, <2>5, <3>1 DEF ReadInv
  <2>7. ASSUME NEW q \in Tasks, q # h
        PROVE  ReadInv(q)'
    <3>1. ~Holds(w, q)'
      BY <2>5, <2>7 DEF Holds
    <3> QED
      BY <1>0, <2>1, <2>2, <2>4, <2>7, <3>1, OtherReads
  <2> QED
    BY <1>c, <2>6, <2>7 DEF ContextInv
<1>4. CASE WorkerFree(w)
  <2>0. PICK r \in Tasks : r = held[w]
    BY <1>4 DEF WorkerFree, Inv, WorkerView
  <2>1. /\ wpc[w] = "free" /\ UNCHANGED <<queue, ran>>
        /\ node' = [node EXCEPT ![r] = "freed"]
        /\ held' = [held EXCEPT ![w] = NoTask] /\ wpc' = [wpc EXCEPT ![w] = "check"]
    BY <1>4, <2>0 DEF WorkerFree, qvars
  <2>3. Holds(w, r)
    BY <2>0, <2>1 DEF Holds
  <2>4. ~Among(r, queue) /\ \A v \in Workers : Holds(v, r) => v = w
    BY <2>3 DEF Inv, NodeHasOneHolder
  <2>5. ctx[r] = "freed" /\ buffer[r] # "live"
    BY <1>0, <2>1, <2>3 DEF ContextInv, ReadInv
  <2>6. \A v \in Workers \ {w} : wpc'[v] = wpc[v] /\ held'[v] = held[v] /\ job'[v] = job[v]
    BY <1>0, <1>t, <2>1
  <2>7. wpc'[w] = "check"
    BY <1>t, <2>1
  <2>8. node'[r] = "freed" /\ \A q \in Tasks \ {r} : node'[q] = node[q]
    BY <1>t, <2>1
  <2>9. ReadInv(r)'
    <3>1. \A v \in Workers : ~Holds(v, r)'
      BY <2>4, <2>6, <2>7 DEF Holds
    <3> QED
      BY <1>0, <2>1, <2>4, <2>5, <2>8, <3>1 DEF ReadInv
  <2>10. ASSUME NEW q \in Tasks, q # r
         PROVE  ReadInv(q)'
    <3>1. ~Holds(w, q)'
      BY <2>7 DEF Holds
    <3> QED
      BY <1>0, <2>1, <2>6, <2>8, <2>10, <3>1, OtherReads
  <2> QED
    BY <1>c, <2>9, <2>10 DEF ContextInv
<1>5. WorkerPop(w) => \/ Queue!Pop(w)
                      \/ queue' = queue /\ wpc' = [wpc EXCEPT ![w] = "check"] /\ held' = held
  BY DEF WorkerPop, Queue!FindEmpty
<1> QED
  BY <1>1, <1>2, <1>3, <1>4, <1>5 DEF WorkerLoop

LEMMA JobContext ==
  ASSUME Inv, VfsInv, ContextInv, NEW w \in Workers,
         JobStart(w) \/ JobWalk(w) \/ JobRead(w) \/ JobCall(w) \/ JobFree(w)
  PROVE  ContextInv'
<1>0. /\ wpc \in [Workers -> {"absent", "check", "pop", "run", "free", "exited"}]
      /\ job \in [Workers -> {"idle", "walk", "read", "call", "free"}]
      /\ ran \in [Tasks -> Nat]
      /\ result \in [Tasks -> {"none", "SUCCESS", "NOT_FOUND", "INVALID_ARG"}]
      /\ ctx \in [Tasks -> {"none", "live", "freed"}]
      /\ buffer \in [Tasks -> {"none", "live", "given", "freed"}]
  BY DEF Inv, TypeOK, VfsInv, VfsTypes, ContextInv, ContextTypes
<1>1. /\ wpc[w] \in {"run", "free"}
      /\ job[w] # "idle" => wpc[w] = (IF job[w] = "free" THEN "free" ELSE "run")
  BY <1>0 DEF JobStart, JobWalk, JobRead, JobCall, JobFree, WorkerRun, VfsInv, JobView
<1>r. PICK r \in Tasks : r = held[w]
  BY <1>1 DEF Inv, WorkerView
<1>2. /\ Holds(w, r) /\ \A v \in Workers : Holds(v, r) => v = w
      /\ node[r] = "live" /\ ~Among(r, queue)
  <2>2. Holds(w, r)
    BY <1>1, <1>r DEF Holds
  <2> QED
    BY <2>2 DEF Inv, NodeHasOneHolder
<1>3. /\ UNCHANGED <<queue, node, held>>
      /\ \A v \in Workers \ {w} : wpc'[v] = wpc[v] /\ job'[v] = job[v]
      /\ \A q \in Tasks \ {r} : /\ ctx'[q] = ctx[q] /\ buffer'[q] = buffer[q]
                                /\ result'[q] = result[q] /\ ran'[q] = ran[q]
  <2>1. UNCHANGED <<queue, node, held>>
    BY DEF JobStart, JobWalk, JobRead, JobCall, JobFree, WorkerRun, vars, qvars,
           tvars, wvars
  <2>2. \A v \in Workers \ {w} : wpc'[v] = wpc[v] /\ job'[v] = job[v]
    BY <1>0 DEF JobStart, JobWalk, JobRead, JobCall, JobFree, WorkerRun, vars, wvars
  <2>3. \A q \in Tasks \ {r} : /\ ctx'[q] = ctx[q] /\ buffer'[q] = buffer[q]
                               /\ result'[q] = result[q] /\ ran'[q] = ran[q]
    BY <1>0, <1>r, ZenonT(60) DEF JobStart, JobWalk, JobRead, JobCall, JobFree, WorkerRun, vars, tvars
  <2> QED
    BY <2>1, <2>2, <2>3
<1>4. ReadInv(r)
  BY <1>2 DEF ContextInv
<1>o. ASSUME NEW q \in Tasks, q # r
      PROVE  ReadInv(q)'
  <2>1. ~Holds(w, q)'
    BY <1>3, <1>o, <1>r DEF Holds
  <2> QED
    BY <1>2, <1>3, <1>o, <2>1, OtherReads
<1>5. CASE JobStart(w) \/ JobWalk(w)
  <2>1. /\ wpc[w] = "run" /\ job[w] \in {"idle", "walk"} /\ job'[w] \in {"walk", "read"}
        /\ UNCHANGED <<wpc, ran, ctx, buffer>>
    BY <1>0, <1>1, <1>5
       DEF JobStart, JobWalk, vars, tvars, wvars, VfsInv, UpForReads
  <2>2. ContextTypes'
    BY <1>0, <2>1 DEF ContextTypes
  <2>3. ctx[r] = "live" /\ buffer[r] = "none"
    BY <1>2, <1>4, <2>1 DEF ReadInv
  <2>4. ReadInv(r)'
    <3>1. \A v \in Workers : Holds(v, r)' => v = w
      BY <1>2, <1>3, <2>1 DEF Holds
    <3> QED
      BY <1>2, <1>3, <2>1, <2>3, <3>1 DEF ReadInv
  <2> QED
    BY <1>o, <2>2, <2>4 DEF ContextInv
<1>6. CASE JobRead(w)
  <2>1. /\ wpc[w] = "run" /\ job[w] = "read" /\ job'[w] = "call"
        /\ UNCHANGED <<wpc, ran, ctx>>
        /\ \/ /\ buffer' = [buffer EXCEPT ![r] = "live"]
              /\ result' = [result EXCEPT ![r] = "SUCCESS"]
           \/ /\ buffer' = buffer
              /\ result' = [result EXCEPT ![r] = "NOT_FOUND"]
    BY <1>0, <1>1, <1>6, <1>r DEF JobRead, vars, tvars, wvars
  <2>2. ContextTypes'
    BY <1>0, <1>2, <2>1 DEF ContextTypes
  <2>3. ctx[r] = "live" /\ buffer[r] = "none"
    BY <1>2, <1>4, <2>1 DEF ReadInv
  <2>4. buffer'[r] = "live" <=> result'[r] = "SUCCESS"
    BY <1>0, <1>2, <2>1, <2>3
  <2>5. ReadInv(r)'
    <3>1. \A v \in Workers : Holds(v, r)' => v = w
      BY <1>2, <1>3, <2>1 DEF Holds
    <3> QED
      BY <1>2, <1>3, <2>1, <2>3, <2>4, <3>1 DEF ReadInv
  <2> QED
    BY <1>o, <2>2, <2>5 DEF ContextInv
<1>7. CASE JobCall(w)
  <2>1. /\ wpc[w] = "run" /\ job[w] = "call"
        /\ wpc' = [wpc EXCEPT ![w] = "free"] /\ job' = [job EXCEPT ![w] = "free"]
        /\ UNCHANGED <<ctx, result>>
        /\ \/ buffer' = [buffer EXCEPT ![r] = BufferOfSilent(r)]
           \/ buffer' = [buffer EXCEPT ![r] = IF @ = "live" THEN "given" ELSE @]
    BY <1>7, <1>r DEF JobCall, WorkerRun, AfterTask
  <2>2. ctx[r] = "live" /\ (buffer[r] = "live" <=> result[r] = "SUCCESS")
    BY <1>2, <1>4, <2>1 DEF ReadInv
  <2>3. ContextTypes' /\ buffer'[r] # "live"
    <3>1. BufferOfSilent(r) \in {"none", "given", "freed"}
      BY <1>0, <1>2, <2>2 DEF BufferOfSilent
    <3> QED
      BY <1>0, <1>2, <2>1, <3>1 DEF ContextTypes
  <2>4. wpc'[w] = "free" /\ job'[w] = "free"
    BY <1>0, <2>1
  <2>5. ReadInv(r)'
    <3>1. \A v \in Workers : Holds(v, r)' => v = w
      BY <1>2, <1>3 DEF Holds
    <3> QED
      BY <1>2, <1>3, <2>1, <2>2, <2>3, <2>4, <3>1 DEF ReadInv
  <2> QED
    BY <1>o, <2>3, <2>5 DEF ContextInv
<1>8. CASE JobFree(w)
  <2>1. /\ wpc[w] = "free" /\ job[w] = "free" /\ job'[w] = "idle"
        /\ UNCHANGED <<wpc, ran, buffer, result>>
        /\ ctx' = [ctx EXCEPT ![r] = "freed"]
    BY <1>0, <1>1, <1>8, <1>r DEF JobFree, vars, tvars, wvars
  <2>2. ContextTypes' /\ ctx'[r] = "freed"
    BY <1>0, <1>2, <2>1 DEF ContextTypes
  <2>3. buffer[r] # "live"
    BY <1>2, <1>4, <2>1 DEF ReadInv
  <2>4. ReadInv(r)'
    <3>1. \A v \in Workers : Holds(v, r)' => v = w
      BY <1>2, <1>3, <2>1 DEF Holds
    <3> QED
      BY <1>2, <1>3, <2>1, <2>2, <2>3, <3>1 DEF ReadInv
  <2> QED
    BY <1>o, <2>2, <2>4 DEF ContextInv
<1> QED
  BY <1>5, <1>6, <1>7, <1>8

LEMMA ContextStep ==
  ASSUME Inv, VfsInv, ContextInv, [VfsNext]_vfsvars
  PROVE  ContextInv'
<1>1. CASE UNCHANGED vfsvars \/ VfsInit \/ Shutdown \/ \E e \in Entries : Mount(e)
  <2>1. UNCHANGED <<vars, rvars, jvars>>
    BY <1>1 DEF vfsvars, VfsInit, Shutdown, Mount
  <2>2. UNCHANGED <<queue, node, ran, wpc, held, ctx, buffer, result, job>>
    BY <2>1 DEF vars, qvars, tvars, wvars, rvars, jvars
  <2> QED
    BY <2>2, UnseenByReads
<1>2. CASE OwnModality
  BY <1>2, OwnModalityContext
<1>3. ASSUME NEW r \in Tasks, ReadAsync(r)
      PROVE  ContextInv'
  BY <1>3, ReadAsyncContext
<1>4. ASSUME NEW w \in Workers, VfsWorker(w)
      PROVE  ContextInv'
  BY <1>4, WorkerLoopContext, JobContext DEF VfsWorker
<1> QED
  BY <1>1, <1>2, <1>3, <1>4 DEF VfsNext

\* The context of a read outlives the worker's last use of it and is freed
\* exactly once on each way: the refusal, the job; so is its buffer, unless the
\* callback was given it.
THEOREM ContextsOutliveReads == VfsSpec => []ContextOutlivesJob
<1>1. Inv /\ VfsInv /\ ContextInv => ContextOutlivesJob
  <2> SUFFICES ASSUME VfsInv, ContextInv PROVE ContextOutlivesJob
    OBVIOUS
  <2>1. \A w \in Workers : job[w] # "idle" => wpc[w] = "run" \/ job[w] = "free"
    BY DEF VfsInv, VfsTypes, JobView
  <2> QED
    BY <2>1 DEF ContextInv, ReadInv, ContextOutlivesJob
<1> QED
  BY <1>1, ContextInit, ContextStep, VfsInvAlways, PTL DEF VfsSpec

-----------------------------------------------------------------------------
(* Which mount a read is resolved by. *)

MountTypes ==
  /\ order \in Seq(Entries)
  /\ found \in [Tasks -> Entries \cup {NULL}]
  /\ start \in [Tasks -> Nat]

\* The entry that was mounted p-th, or the end of the list.
Nth(p) == IF p = 0 THEN NULL ELSE order[p]

\* The list runs from the newest mount to the oldest.
ListIsOrder ==
  /\ g_mounts = Nth(Len(order))
  /\ \A i \in 1 .. Len(order) :
       entry[order[i]] = "live" /\ next[order[i]] = Nth(i - 1)
  /\ ~initialized => order = << >>

NoneSince(p, r) == \A i \in p + 1 .. start[r] : <<order[i], r>> \notin Matches

\* A walk that has come to the p-th mount has passed all the newer ones that
\* there were when it began, and none of them matched.
WalkInv(w) ==
  /\ job[w] \in {"walk", "read"} => start[held[w]] <= Len(order)
  /\ job[w] = "walk" =>
       \E p \in 0 .. start[held[w]] : curr[w] = Nth(p) /\ NoneSince(p, held[w])
  /\ job[w] = "read" =>
       \E p \in 0 .. start[held[w]] :
         /\ found[held[w]] = Nth(p) /\ NoneSince(p, held[w])
         /\ p # 0 => <<order[p], held[w]>> \in Matches

MountsInv == MountTypes /\ ListIsOrder /\ \A w \in Workers : WalkInv(w)

LEMMA MountsInit == VfsStart => MountsInv
<1> SUFFICES ASSUME VfsStart PROVE MountsInv
  OBVIOUS
<1>1. MountTypes
  BY EmptySeq DEF VfsStart, MountTypes
<1>2. ListIsOrder
  BY DEF VfsStart, ListIsOrder, Nth
<1>3. \A w \in Workers : WalkInv(w)
  BY DEF VfsStart, WalkInv
<1> QED
  BY <1>1, <1>2, <1>3 DEF MountsInv

\* A worker keeps its place if the mounts that it has seen stay.
LEMMA WalkGoesOn ==
  ASSUME NEW w \in Workers, WalkInv(w), MountTypes,
         Len(order') \in Nat, Len(order) <= Len(order'),
         \A i \in 1 .. Len(order) : order'[i] = order[i],
         job'[w] \in {"walk", "read"} =>
           /\ job'[w] = job[w] /\ curr'[w] = curr[w] /\ held'[w] = held[w]
           /\ start'[held[w]] = start[held[w]] /\ found'[held[w]] = found[held[w]]
           /\ held[w] \in Tasks
  PROVE  WalkInv(w)'
<1> SUFFICES ASSUME job'[w] \in {"walk", "read"} PROVE WalkInv(w)'
  BY DEF WalkInv
<1> DEFINE n == start[held[w]]
<1>1. /\ n \in Nat /\ Len(order) \in Nat /\ n <= Len(order)
      /\ n <= Len(order') /\ start'[held'[w]] = n
  BY LenProperties DEF WalkInv, MountTypes
<1>2. \A p \in 0 .. n : Nth(p)' = Nth(p) /\ (p # 0 => order'[p] = order[p])
  BY <1>1 DEF Nth
<1>3. \A p \in 0 .. n : NoneSince(p, held[w]) => NoneSince(p, held[w])'
  BY <1>1 DEF NoneSince
<1>4. CASE job[w] = "walk"
  <2>1. PICK p \in 0 .. n : curr[w] = Nth(p) /\ NoneSince(p, held[w])
    BY <1>4 DEF WalkInv
  <2>2. curr'[w] = Nth(p)' /\ NoneSince(p, held[w])'
    BY <1>2, <1>3, <2>1
  <2> HIDE DEF n
  <2> QED
    BY <1>1, <1>4, <2>2 DEF WalkInv
<1>5. CASE job[w] = "read"
  <2>1. PICK p \in 0 .. n :
          /\ found[held[w]] = Nth(p) /\ NoneSince(p, held[w])
          /\ p # 0 => <<order[p], held[w]>> \in Matches
    BY <1>5 DEF WalkInv
  <2>2. /\ found'[held'[w]] = Nth(p)' /\ NoneSince(p, held[w])'
        /\ p # 0 => <<order'[p], held'[w]>> \in Matches
    BY <1>2, <1>3, <2>1
  <2> HIDE DEF n
  <2> QED
    BY <1>1, <1>5, <2>2 DEF WalkInv
<1> QED
  BY <1>4, <1>5

LEMMA ListUnchanged ==
  ASSUME MountTypes, ListIsOrder, UNCHANGED lvars,
         found' \in [Tasks -> Entries \cup {NULL}], start' \in [Tasks -> Nat]
  PROVE  /\ MountTypes' /\ ListIsOrder'
         /\ Len(order') \in Nat /\ Len(order) <= Len(order')
         /\ \A i \in 1 .. Len(order) : order'[i] = order[i]
<1>1. order' = order /\ Len(order) \in Nat
  BY LenProperties DEF lvars, MountTypes
<1>2. MountTypes'
  BY <1>1 DEF MountTypes
<1>3. ListIsOrder'
  BY DEF lvars, ListIsOrder, Nth
<1> QED
  BY <1>1, <1>2, <1>3

\* A step of the modality alone: no walk is touched.
LEMMA UnseenByWalks ==
  ASSUME MountsInv, Inv, VfsInv, UNCHANGED <<lvars, found, start, jvars>>,
         \A w \in Workers : job[w] # "idle" => held'[w] = held[w]
  PROVE  MountsInv'
<1>0. UNCHANGED <<found, start, job, curr>>
  BY DEF jvars
<1>1. /\ MountTypes' /\ ListIsOrder'
      /\ Len(order') \in Nat /\ Len(order) <= Len(order')
      /\ \A i \in 1 .. Len(order) : order'[i] = order[i]
  BY ListUnchanged DEF MountsInv, MountTypes
<1>2. ASSUME NEW w \in Workers
      PROVE  WalkInv(w)'
  <2>1. job[w] \in {"walk", "read"} => held[w] \in Tasks
    BY DEF VfsInv, JobView, Inv, WorkerView
  <2> QED
    BY <1>0, <1>1, <2>1, WalkGoesOn DEF MountsInv
<1> QED
  BY <1>1, <1>2 DEF MountsInv

LEMMA OwnerMounts ==
  ASSUME Inv, VfsInv, MountsInv, VfsInit \/ Shutdown \/ \E e \in Entries : Mount(e)
  PROVE  MountsInv'
<1>0. UNCHANGED <<held, wpc, found, start, job, curr>>
  BY DEF VfsInit, Shutdown, Mount, vars, wvars, rvars, jvars
<1>1. /\ order \in Seq(Entries) /\ Len(order) \in Nat /\ MountTypes
      /\ entry \in [Entries -> {"none", "live", "freed"}]
      /\ next \in [Entries -> Entries \cup {NULL}]
      /\ \A i \in 1 .. Len(order) : order[i] \in Entries
  BY LenProperties, ElementOfSeq DEF MountsInv, MountTypes, VfsInv, VfsTypes
<1>2. CASE VfsInit
  <2>1. order = << >> /\ order' = order /\ g_mounts' = NULL /\ initialized'
    BY <1>2 DEF VfsInit, MountsInv, ListIsOrder
  <2>2. Len(order) = 0
    BY <2>1, EmptySeq
  <2>3. MountTypes' /\ ListIsOrder'
    BY <1>0, <2>1, <2>2 DEF MountsInv, MountTypes, ListIsOrder, Nth
  <2>4. ASSUME NEW w \in Workers
        PROVE  WalkInv(w)'
    BY <1>0, <1>1, <2>1, WalkGoesOn DEF MountsInv, VfsInv, JobView, Inv, WorkerView
  <2> QED
    BY <2>3, <2>4 DEF MountsInv
<1>3. CASE Shutdown
  <2>1. internal = "NULL" /\ order' = << >> /\ g_mounts' = NULL
    BY <1>3 DEF Shutdown
  <2>2. \A w \in Workers : job'[w] \notin {"walk", "read"}
    BY <1>0, <2>1 DEF Inv, LifeCycle, Alive, VfsInv, JobView
  <2>3. Len(order') = 0 /\ order' \in Seq(Entries)
    BY <2>1, EmptySeq
  <2>4. MountTypes' /\ ListIsOrder'
    BY <1>0, <2>1, <2>3 DEF MountsInv, MountTypes, ListIsOrder, Nth
  <2> QED
    BY <2>2, <2>4 DEF MountsInv, WalkInv
<1>4. ASSUME NEW e \in Entries, Mount(e)
      PROVE  MountsInv'
  <2>n. PICK n \in Nat : n = Len(order)
    BY <1>1
  <2>1. /\ initialized /\ initialized' /\ entry[e] = "none"
        /\ entry' = [entry EXCEPT ![e] = "live"] /\ g_mounts' = e
        /\ next' = [next EXCEPT ![e] = g_mounts] /\ order' = Append(order, e)
    BY <1>4 DEF Mount, LinkedFirst
  <2>2. /\ order' \in Seq(Entries) /\ Len(order') = n + 1 /\ order'[n + 1] = e
        /\ \A i \in 1 .. n : order'[i] = order[i]
    BY <1>1, <2>n, <2>1, AppendProperties
  <2>3. /\ g_mounts = Nth(n)
        /\ \A i \in 1 .. n : /\ order[i] # e /\ entry[order[i]] = "live"
                             /\ next[order[i]] = Nth(i - 1)
    BY <2>n, <2>1 DEF MountsInv, ListIsOrder
  <2>4. MountTypes'
    BY <1>0, <2>2 DEF MountsInv, MountTypes
  <2>5. \A p \in 0 .. n : Nth(p)' = Nth(p)
    BY <2>n, <2>2 DEF Nth
  <2>6. ListIsOrder'
    <3>1. Nth(n + 1)' = e
      BY <2>2 DEF Nth
    <3>2. ASSUME NEW i \in 1 .. n + 1
          PROVE  entry'[order'[i]] = "live" /\ next'[order'[i]] = Nth(i - 1)'
      <4>1. CASE i = n + 1
        <5>1. i - 1 = n /\ n \in 0 .. n
          BY <1>1, <4>1
        <5>2. Nth(n)' = g_mounts
          BY <2>3, <2>5, <5>1
        <5>3. Nth(i - 1)' = g_mounts
          BY <5>1, <5>2
        <5> QED
          BY <1>1, <2>1, <2>2, <4>1, <5>3
      <4>2. CASE i # n + 1
        <5>1. i \in 1 .. n /\ i - 1 \in 0 .. n
          BY <1>1, <4>2
        <5>2. order'[i] = order[i] /\ order[i] \in Entries /\ order[i] # e
          BY <1>1, <2>n, <2>2, <2>3, <5>1
        <5>3. entry'[order[i]] = "live" /\ next'[order[i]] = Nth(i - 1)
          BY <1>1, <2>1, <2>3, <5>1, <5>2
        <5> QED
          BY <2>5, <5>1, <5>2, <5>3
      <4> QED
        BY <4>1, <4>2
    <3>3. g_mounts' = Nth(Len(order))'
      BY <2>1, <2>2, <3>1
    <3> QED
      BY <2>n, <2>1, <2>2, <3>2, <3>3 DEF ListIsOrder
  <2>7. ASSUME NEW w \in Workers
        PROVE  WalkInv(w)'
    <3>1. job[w] \in {"walk", "read"} => held[w] \in Tasks
      BY DEF VfsInv, JobView, Inv, WorkerView
    <3>2. Len(order') \in Nat /\ Len(order) <= Len(order')
      BY <2>n, <2>2
    <3> QED
      BY <1>0, <1>1, <2>n, <2>2, <3>1, <3>2, WalkGoesOn DEF MountsInv
  <2> QED
    BY <2>4, <2>6, <2>7 DEF MountsInv
<1> QED
  BY <1>2, <1>3, <1>4

\* The steps of the modality alone.
LEMMA ModalityMounts ==
  ASSUME Inv, VfsInv, MountsInv,
         OwnModality \/ (\E r \in Tasks : ReadAsync(r)) \/ \E w \in Workers : WorkerLoop(w)
  PROVE  MountsInv'
<1>1. UNCHANGED <<lvars, found, start, jvars>>
  BY DEF OwnModality, ReadAsync, WorkerLoop, rvars
<1>2. \A w \in Workers : job[w] # "idle" => held'[w] = held[w]
  <2>1. held \in [Workers -> Tasks \cup {NoTask}]
    BY DEF Inv, TypeOK
  <2>2. CASE OwnModality \/ \E r \in Tasks : ReadAsync(r)
    BY <2>2 DEF OwnModality, Finish, InitModality, SpawnWorker, Stop, DestroyBegin, Join,
                DrainOne, DestroyEnd, ReadAsync, QueueTask, wvars
  <2>3. ASSUME NEW w \in Workers, WorkerLoop(w)
        PROVE  \A v \in Workers : job[v] # "idle" => held'[v] = held[v]
    BY <2>1, <2>3 DEF WorkerLoop, WorkerCheck, WorkerPop, WorkerFree
  <2> QED
    BY <2>2, <2>3
<1> QED
  BY <1>1, <1>2, UnseenByWalks

LEMMA JobMounts ==
  ASSUME Inv, VfsInv, MountsInv, NEW w \in Workers,
         JobStart(w) \/ JobWalk(w) \/ JobRead(w) \/ JobCall(w) \/ JobFree(w)
  PROVE  MountsInv'
<1>0. /\ job \in [Workers -> {"idle", "walk", "read", "call", "free"}]
      /\ curr \in [Workers -> Entries \cup {NULL}]
      /\ next \in [Entries -> Entries \cup {NULL}]
      /\ order \in Seq(Entries) /\ Len(order) \in Nat /\ MountTypes /\ ListIsOrder
      /\ found \in [Tasks -> Entries \cup {NULL}] /\ start \in [Tasks -> Nat]
      /\ \A i \in 1 .. Len(order) : order[i] \in Entries
  BY LenProperties, ElementOfSeq DEF VfsInv, VfsTypes, MountsInv, MountTypes
<1>1. wpc[w] \in {"run", "free"}
  BY <1>0 DEF JobStart, JobWalk, JobRead, JobCall, JobFree, WorkerRun, VfsInv, JobView
<1>r. PICK r \in Tasks : r = held[w]
  BY <1>1 DEF Inv, WorkerView
<1>2. Holds(w, r) /\ \A v \in Workers : Holds(v, r) => v = w
  <2>1. Holds(w, r)
    BY <1>1, <1>r DEF Holds
  <2> QED
    BY <2>1 DEF Inv, NodeHasOneHolder
<1>3. /\ UNCHANGED <<lvars, held>>
      /\ \A v \in Workers \ {w} : job'[v] = job[v] /\ curr'[v] = curr[v]
      /\ \A q \in Tasks \ {r} : found'[q] = found[q] /\ start'[q] = start[q]
  <2>1. UNCHANGED <<lvars, held>>
    BY DEF JobStart, JobWalk, JobRead, JobCall, JobFree, WorkerRun, vars, wvars
  <2>2. \A v \in Workers \ {w} : job'[v] = job[v] /\ curr'[v] = curr[v]
    BY <1>0 DEF JobStart, JobWalk, JobRead, JobCall, JobFree
  <2>3. \A q \in Tasks \ {r} : found'[q] = found[q] /\ start'[q] = start[q]
    BY <1>0, <1>r DEF JobStart, JobWalk, JobRead, JobCall, JobFree
  <2> QED
    BY <2>1, <2>2, <2>3
<1>4. UNCHANGED <<order, next, g_mounts>>
  BY <1>3 DEF lvars
<1>5. ASSUME found' \in [Tasks -> Entries \cup {NULL}], start' \in [Tasks -> Nat],
             WalkInv(w)'
      PROVE  MountsInv'
  <2>1. /\ MountTypes' /\ ListIsOrder'
        /\ Len(order') \in Nat /\ Len(order) <= Len(order')
        /\ \A i \in 1 .. Len(order) : order'[i] = order[i]
    BY <1>0, <1>3, <1>5, ListUnchanged
  <2>2. ASSUME NEW v \in Workers, v # w
        PROVE  WalkInv(v)'
    <3>1. job[v] \in {"walk", "read"} => held[v] \in Tasks /\ held[v] # r
      BY <1>2, <2>2 DEF VfsInv, JobView, Inv, WorkerView, Holds
    <3> QED
      BY <1>0, <1>3, <2>1, <2>2, <3>1, WalkGoesOn DEF MountsInv
  <2> QED
    BY <1>5, <2>1, <2>2 DEF MountsInv
<1>6. CASE JobStart(w)
  <2>1. /\ job' = [job EXCEPT ![w] = "walk"] /\ curr' = [curr EXCEPT ![w] = g_mounts]
        /\ start' = [start EXCEPT ![r] = Len(order)] /\ found' = found
    BY <1>1, <1>6, <1>r DEF JobStart, VfsInv, UpForReads
  <2>2. /\ start' \in [Tasks -> Nat] /\ start'[r] = Len(order)
        /\ job'[w] = "walk" /\ curr'[w] = Nth(Len(order))'
    BY <1>0, <1>4, <2>1 DEF ListIsOrder, Nth
  <2>3. NoneSince(Len(order), r)'
    BY <1>0, <1>4, <2>2 DEF NoneSince
  <2>4. Len(order') = Len(order) /\ held'[w] = r
    BY <1>3, <1>4, <1>r
  <2>5. WalkInv(w)'
    BY <1>0, <2>2, <2>3, <2>4 DEF WalkInv
  <2> QED
    BY <1>0, <1>5, <2>1, <2>2, <2>5
<1>7. CASE JobWalk(w)
  <2>1. /\ job[w] = "walk" /\ start' = start
        /\ IF curr[w] = NULL \/ <<curr[w], r>> \in Matches
             THEN /\ found' = [found EXCEPT ![r] = curr[w]]
                  /\ job' = [job EXCEPT ![w] = "read"]
             ELSE /\ curr' = [curr EXCEPT ![w] = next[curr[w]]]
                  /\ UNCHANGED <<found, job>>
    BY <1>7, <1>r DEF JobWalk, AfterEntry
  <2>2. PICK p \in 0 .. start[r] : curr[w] = Nth(p) /\ NoneSince(p, r)
    BY <1>r, <2>1 DEF MountsInv, WalkInv
  <2>3. start[r] \in Nat /\ start[r] <= Len(order)
    BY <1>0, <1>r, <2>1 DEF MountsInv, WalkInv
  <2>4. /\ held'[w] = r /\ start'[r] = start[r] /\ Len(order') = Len(order)
        /\ \A q : Nth(q)' = Nth(q) /\ (NoneSince(q, r)' <=> NoneSince(q, r))
    BY <1>3, <1>4, <1>r, <2>1 DEF Nth, NoneSince
  <2>5. CASE curr[w] = NULL \/ <<curr[w], r>> \in Matches
    <3>1. /\ found' = [found EXCEPT ![r] = curr[w]] /\ job'[w] = "read"
          /\ found' \in [Tasks -> Entries \cup {NULL}]
      BY <1>0, <2>1, <2>5
    <3>2. p # 0 => order[p] \in Entries /\ curr[w] = order[p]
      BY <1>0, <2>2, <2>3 DEF Nth
    <3>3. p # 0 => <<order'[p], r>> \in Matches
      BY <1>4, <2>5, <3>2, NullAssumption
    <3>4. found'[r] = Nth(p)'
      BY <1>0, <2>2, <2>4, <3>1
    <3>5. WalkInv(w)'
      BY <2>2, <2>3, <2>4, <3>1, <3>3, <3>4 DEF WalkInv
    <3> QED
      BY <1>0, <1>5, <2>1, <3>1, <3>5
  <2>6. CASE ~(curr[w] = NULL \/ <<curr[w], r>> \in Matches)
    <3>1. /\ found' = found /\ job' = job
          /\ curr'[w] = next[curr[w]]
      BY <1>0, <2>1, <2>6
    <3>2. /\ p # 0 /\ p - 1 \in 0 .. start[r] /\ p \in 1 .. Len(order)
          /\ curr[w] = order[p]
      BY <2>2, <2>3, <2>6 DEF Nth
    <3>3. curr'[w] = Nth(p - 1)
      BY <3>1, <3>2, <1>0 DEF ListIsOrder
    <3>4. NoneSince(p - 1, r)
      <4>1. ASSUME NEW i \in (p - 1) + 1 .. start[r]
            PROVE  <<order[i], r>> \notin Matches
        <5>1. i = p \/ i \in p + 1 .. start[r]
          BY <2>3
        <5> QED
          BY <2>2, <2>6, <3>2, <5>1 DEF NoneSince
      <4> QED
        BY <4>1 DEF NoneSince
    <3>5. WalkInv(w)'
      BY <2>1, <2>3, <2>4, <3>1, <3>2, <3>3, <3>4 DEF WalkInv
    <3> QED
      BY <1>0, <1>5, <2>1, <3>1, <3>5
  <2> QED
    BY <2>5, <2>6
<1>8. CASE JobRead(w) \/ JobCall(w) \/ JobFree(w)
  <2>1. job'[w] \notin {"walk", "read"} /\ found' = found /\ start' = start
    BY <1>0, <1>8 DEF JobRead, JobCall, JobFree
  <2>2. WalkInv(w)'
    BY <2>1 DEF WalkInv
  <2> QED
    BY <1>0, <1>5, <2>1, <2>2
<1> QED
  BY <1>6, <1>7, <1>8

LEMMA MountsStep ==
  ASSUME Inv, VfsInv, MountsInv, [VfsNext]_vfsvars
  PROVE  MountsInv'
<1>1. CASE UNCHANGED vfsvars
  <2>1. UNCHANGED <<lvars, found, start, jvars, held>>
    BY <1>1 DEF vfsvars, vars, wvars, rvars
  <2> QED
    BY <2>1, UnseenByWalks
<1>2. CASE VfsNext
  BY <1>2, OwnerMounts, ModalityMounts, JobMounts DEF VfsNext, VfsWorker
<1> QED
  BY <1>1, <1>2

\* Mounting never changes what a read that has begun is resolved by: the list
\* only grows at its head, and a walk is somewhere in the list it began with.
THEOREM NewestMountFound == VfsSpec => []NewestMountWins
<1>1. Inv /\ VfsInv /\ MountsInv => NewestMountWins
  <2> SUFFICES ASSUME MountsInv, NEW w \in Workers, job[w] = "read"
               PROVE  LET r == held[w]
                          Matching == {i \in 1 .. start[r] : <<order[i], r>> \in Matches}
                      IN IF Matching = {} THEN found[r] = NULL
                         ELSE \E i \in Matching :
                                found[r] = order[i] /\ \A j \in Matching : j <= i
    BY DEF NewestMountWins
  <2> DEFINE r == held[w]
             n == start[r]
             Matching == {i \in 1 .. n : <<order[i], r>> \in Matches}
  <2>1. PICK p \in 0 .. n : /\ found[r] = Nth(p) /\ NoneSince(p, r)
                            /\ p # 0 => <<order[p], r>> \in Matches
    BY DEF MountsInv, WalkInv
  <2>2. \A i \in Matching : i <= p
    <3>1. ASSUME NEW i \in Matching, ~(i <= p)
          PROVE  FALSE
      <4>1. i \in p + 1 .. n
        BY <3>1
      <4> QED
        BY <2>1, <3>1, <4>1 DEF NoneSince
    <3> QED
      BY <3>1
  <2>3. CASE p = 0
    <3>1. Matching = {}
      BY <2>2, <2>3
    <3> QED
      BY <2>1, <2>3, <3>1 DEF Nth
  <2>4. CASE p # 0
    <3>1. p \in Matching /\ found[r] = order[p]
      BY <2>1, <2>4 DEF Nth
    <3> QED
      BY <2>2, <3>1
  <2> QED
    BY <2>3, <2>4
<1> QED
  BY <1>1, MountsInit, MountsStep, VfsInvAlways, PTL DEF VfsSpec
=============================================================================
