----------------------- MODULE ThreadedModality_proofs -----------------------
(***************************************************************************)
(* Proofs about ThreadedModality for any number of workers and tasks and   *)
(* any limit of the queue.                                                 *)
(***************************************************************************)
EXTENDS ThreadedModality, SequenceTheorems, TLAPS

\* Where the owner is in the life of the modality, and what that says of the
\* state block and of the workers.  While the owner creates or joins threads,
\* joined of them exist or are gone; a worker exists only while the block does.
LifeCycle ==
  /\ internal = "set" => memory = "live"
  /\ opc # "idle" => internal = "set"
  /\ opc = "spawn" => /\ joined < NumWorkers
                      /\ \A w \in Workers : w > joined => wpc[w] = "absent"
  /\ opc = "join" => \A w \in Workers : w <= joined => wpc[w] = "exited"
  /\ opc = "drain" \/ internal = "NULL" => \A w \in Workers : ~Alive(w)
  /\ internal = "NULL" => queue = << >>

\* A worker holds a task from its pop to its free, and has not run it yet when
\* it is about to.
WorkerView ==
  \A w \in Workers :
    /\ wpc[w] \in {"run", "free"} => held[w] \in Tasks
    /\ wpc[w] = "run" => ran[held[w]] = 0

\* A node that is allocated can be reached: somebody will free it.
LiveHasHolder ==
  \A t \in Tasks :
    node[t] = "live" => Among(t, queue) \/ \E w \in Workers : Holds(w, t)

Inv ==
  /\ TypeOK /\ LifeCycle /\ WorkerView
  /\ NodeHasOneHolder /\ LiveHasHolder /\ RunsAtMostOnce

-----------------------------------------------------------------------------
(* The queue as a set. *)

\* A push adds its item, and a new item keeps all items different.
LEMMA AmongAppend ==
  ASSUME NEW S, NEW s \in Seq(S), NEW e \in S
  PROVE  /\ \A u : Among(u, Append(s, e)) <=> Among(u, s) \/ u = e
         /\ Distinct(s) /\ ~Among(e, s) => Distinct(Append(s, e))
<1>1. /\ Len(s) \in Nat /\ Len(Append(s, e)) = Len(s) + 1
      /\ \A i \in 1 .. Len(s) : Append(s, e)[i] = s[i]
      /\ Append(s, e)[Len(s) + 1] = e
  BY AppendProperties, LenProperties
<1>2. 1 .. Len(s) + 1 = (1 .. Len(s)) \cup {Len(s) + 1}
  BY <1>1
<1> QED
  BY <1>1, <1>2 DEF Among, Distinct

\* A pop of different items removes its own and keeps the rest.
LEMMA AmongTail ==
  ASSUME NEW S, NEW s \in Seq(S), s # << >>, Distinct(s)
  PROVE  /\ Head(s) \in S /\ Among(Head(s), s) /\ Tail(s) \in Seq(S)
         /\ \A u : Among(u, Tail(s)) <=> Among(u, s) /\ u # Head(s)
         /\ Distinct(Tail(s))
<1>1. /\ Head(s) \in S /\ Tail(s) \in Seq(S)
      /\ Len(Tail(s)) = Len(s) - 1 /\ Len(s) \in Nat \ {0}
      /\ \A i \in 1 .. Len(s) - 1 : Tail(s)[i] = s[i + 1]
      /\ Head(s) = s[1]
  BY HeadTailProperties, EmptySeq
<1>2. Among(Head(s), s)
  BY <1>1 DEF Among
<1>3. Distinct(Tail(s))
  <2> SUFFICES ASSUME NEW i \in 1 .. Len(s) - 1, NEW j \in 1 .. Len(s) - 1,
                      Tail(s)[i] = Tail(s)[j]
               PROVE  i = j
    BY <1>1 DEF Distinct
  <2>1. i + 1 \in 1 .. Len(s) /\ j + 1 \in 1 .. Len(s) /\ s[i + 1] = s[j + 1]
    BY <1>1
  <2> QED
    BY <2>1 DEF Distinct
<1>4. ASSUME NEW u, Among(u, Tail(s))
      PROVE  Among(u, s) /\ u # Head(s)
  <2>1. PICK i \in 1 .. Len(s) - 1 : Tail(s)[i] = u
    BY <1>1, <1>4 DEF Among
  <2>2. i + 1 \in 1 .. Len(s) /\ i + 1 # 1 /\ s[i + 1] = u /\ 1 \in 1 .. Len(s)
    BY <1>1, <2>1
  <2> QED
    BY <1>1, <2>2 DEF Among, Distinct
<1>5. ASSUME NEW u, Among(u, s), u # Head(s)
      PROVE  Among(u, Tail(s))
  <2>1. PICK i \in 1 .. Len(s) : s[i] = u
    BY <1>5 DEF Among
  <2>2. i - 1 \in 1 .. Len(s) - 1 /\ (i - 1) + 1 = i
    BY <1>1, <1>5, <2>1
  <2>3. Tail(s)[i - 1] = u
    BY <1>1, <2>1, <2>2
  <2> QED
    BY <1>1, <2>2, <2>3 DEF Among
<1> QED
  BY <1>1, <1>2, <1>3, <1>4, <1>5

LEMMA AmongEmpty == \A u : ~Among(u, << >>)
BY DEF Among

-----------------------------------------------------------------------------
LEMMA InitInv == Init => Inv
<1> SUFFICES ASSUME Init PROVE Inv
  OBVIOUS
<1> USE DEF Init, Queue!Init
<1>1. TypeOK
  <2>1. queue \in Seq(Tasks)
    BY EmptySeq
  <2>2. ret \in [Workers \cup {Owner} -> {"none", "SUCCESS", "BOUNDS", "NOT_FOUND"}]
    OBVIOUS
  <2>3. joined \in 0 .. NumWorkers
    BY NumWorkersAssumption
  <2> QED
    BY <2>1, <2>2, <2>3 DEF TypeOK
<1>2. LifeCycle /\ WorkerView
  BY DEF LifeCycle, WorkerView, Alive
<1>3. NodeHasOneHolder /\ LiveHasHolder
  BY AmongEmpty DEF NodeHasOneHolder, LiveHasHolder, Holds, Distinct
<1>4. RunsAtMostOnce
  BY DEF RunsAtMostOnce
<1> QED
  BY <1>1, <1>2, <1>3, <1>4 DEF Inv

LEMMA StepTypeOK ==
  ASSUME Inv, [Next]_vars
  PROVE  TypeOK'
<1> USE DEF TypeOK
<1>0. TypeOK
  BY DEF Inv
<1>1. CASE InitModality
  BY <1>0, <1>1, NumWorkersAssumption
     DEF InitModality, tvars, qvars, FirstIndex
<1>2. CASE SpawnWorker
  <2>1. joined + 1 \in 0 .. NumWorkers
    BY <1>0, <1>2, NumWorkersAssumption DEF SpawnWorker, Inv, LifeCycle
  <2> QED
    BY <1>0, <1>2, <2>1 DEF SpawnWorker, tvars, qvars, mvars
<1>3. ASSUME NEW t \in Tasks, QueueTask(t)
      PROVE  TypeOK'
  <2>1. Append(queue, t) \in Seq(Tasks)
    BY <1>0, AppendProperties
  <2> QED
    BY <1>0, <1>3, <2>1
       DEF QueueTask, AcceptTask, RefuseTask, Queue!Push, Queue!Refuse,
           mvars, wvars, ovars
<1>4. CASE Stop
  <2>1. running' \in BOOLEAN
    BY <1>4 DEF Stop
  <2> QED
    BY <1>0, <1>4, <2>1 DEF Stop, tvars, qvars, wvars, ovars
<1>5. CASE DestroyBegin
  <2>1. running' \in BOOLEAN
    BY <1>5 DEF DestroyBegin
  <2>2. joined' \in 0 .. NumWorkers
    BY <1>5, NumWorkersAssumption DEF DestroyBegin, FirstIndex
  <2> QED
    BY <1>0, <1>5, <2>1, <2>2 DEF DestroyBegin, tvars, qvars, wvars
<1>6. CASE Join
  BY <1>0, <1>6, NumWorkersAssumption
     DEF Join, tvars, qvars, mvars, wvars, LastToJoin
<1>7. CASE DrainOne
  <2>1. queue # << >>
    BY <1>7 DEF DrainOne, Queue!Pop
  <2>2. Head(queue) \in Tasks /\ Tail(queue) \in Seq(Tasks)
    BY <1>0, <2>1, HeadTailProperties
  <2> QED
    BY <1>0, <1>7, <2>2 DEF DrainOne, Queue!Pop, mvars, wvars, ovars
<1>8. CASE DestroyEnd
  BY <1>0, <1>8 DEF DestroyEnd, Drained, Queue!FindEmpty, tvars, wvars
<1>9. ASSUME NEW w \in Workers, WorkerCheck(w)
      PROVE  TypeOK'
  BY <1>0, <1>9 DEF WorkerCheck, qvars, mvars, tvars, ovars
<1>10. ASSUME NEW w \in Workers, WorkerPop(w)
       PROVE  TypeOK'
  <2>1. queue # << >> => Head(queue) \in Tasks /\ Tail(queue) \in Seq(Tasks)
    BY <1>0, HeadTailProperties
  <2>2. CASE Queue!Pop(w)
    <3>1. queue # << >>
      BY <2>2 DEF Queue!Pop
    <3>2. Head(queue) \in Tasks /\ Tail(queue) \in Seq(Tasks)
      BY <2>1, <3>1
    <3> QED
      BY <1>0, <1>10, <2>2, <3>1, <3>2
         DEF WorkerPop, Queue!Pop, Queue!FindEmpty, mvars, tvars, ovars
  <2>3. CASE Queue!FindEmpty(w)
    BY <1>0, <1>10, <2>3
       DEF WorkerPop, Queue!Pop, Queue!FindEmpty, mvars, tvars, ovars
  <2> QED
    BY <1>10, <2>2, <2>3 DEF WorkerPop
<1>11. ASSUME NEW w \in Workers, WorkerRun(w)
       PROVE  TypeOK'
  <2>1. held[w] \in Tasks /\ ran[held[w]] \in Nat
    BY <1>0, <1>11 DEF WorkerRun, Inv, WorkerView
  <2>2. ran' \in [Tasks -> Nat]
    BY <1>0, <1>11, <2>1 DEF WorkerRun
  <2>3. running' \in BOOLEAN
    BY <1>0, <1>11 DEF WorkerRun
  <2>4. wpc' \in [Workers -> {"absent", "check", "pop", "run", "free", "exited"}]
    BY <1>0, <1>11 DEF WorkerRun, AfterTask
  <2> QED
    BY <1>0, <1>11, <2>2, <2>3, <2>4 DEF WorkerRun, qvars, ovars
<1>12. ASSUME NEW w \in Workers, WorkerFree(w)
       PROVE  TypeOK'
  BY <1>0, <1>12 DEF WorkerFree, qvars, mvars, ovars
<1>13. CASE UNCHANGED vars
  BY <1>0, <1>13 DEF vars, qvars, mvars, tvars, wvars, ovars
<1> QED
  BY <1>1, <1>2, <1>3, <1>4, <1>5, <1>6, <1>7, <1>8, <1>9, <1>10, <1>11, <1>12,
     <1>13 DEF Next, Finish, Worker

LEMMA StepLifeCycle ==
  ASSUME Inv, [Next]_vars
  PROVE  LifeCycle'
<1> USE DEF LifeCycle, Alive
<1>0. TypeOK /\ LifeCycle
  BY DEF Inv
<1>1. CASE InitModality
  BY <1>0, <1>1, NumWorkersAssumption DEF InitModality, FirstIndex, Workers
<1>2. CASE SpawnWorker
  <2>1. /\ opc = "spawn" /\ internal = "set" /\ memory = "live"
        /\ joined \in 0 .. NumWorkers - 1 /\ joined' = joined + 1
        /\ opc' \in {"idle", "spawn"} /\ internal' = internal /\ memory' = memory
        /\ opc' = "spawn" => joined + 1 # NumWorkers
    BY <1>0, <1>2, NumWorkersAssumption DEF SpawnWorker, TypeOK, mvars
  <2>2. \A w \in Workers : w > joined + 1 => wpc'[w] = wpc[w] /\ wpc[w] = "absent"
    BY <1>0, <1>2, <2>1 DEF SpawnWorker, TypeOK, Workers
  <2> QED
    BY <2>1, <2>2, NumWorkersAssumption
<1>3. ASSUME NEW t \in Tasks, QueueTask(t)
      PROVE  LifeCycle'
  BY <1>0, <1>3 DEF QueueTask, mvars, wvars, ovars
<1>4. CASE Stop
  BY <1>0, <1>4 DEF Stop, qvars, wvars, ovars
<1>5. CASE DestroyBegin
  BY <1>0, <1>5 DEF DestroyBegin, FirstIndex, qvars, wvars, Workers
<1>6. CASE Join
  <2>1. CASE joined < NumWorkers
    <3>1. /\ wpc[joined + 1] = "exited" /\ joined' = joined + 1 /\ opc' = "join"
          /\ opc = "join" /\ wpc' = wpc /\ internal' = internal
          /\ memory' = memory /\ queue' = queue
      BY <1>6, <2>1 DEF Join, LastToJoin, qvars, mvars, wvars
    <3>2. \A w \in Workers : w <= joined + 1 => wpc[w] = "exited"
      BY <1>0, <3>1 DEF TypeOK, Workers
    <3> QED
      BY <1>0, <3>1, <3>2
  <2>2. CASE ~(joined < NumWorkers)
    <3>1. \A w \in Workers : wpc[w] = "exited"
      BY <1>0, <1>6, <2>2, NumWorkersAssumption DEF Join, TypeOK, Workers
    <3> QED
      BY <1>0, <1>6, <2>2, <3>1 DEF Join, LastToJoin, qvars, mvars, wvars
  <2> QED
    BY <2>1, <2>2
<1>7. CASE DrainOne
  BY <1>0, <1>7 DEF DrainOne, Queue!Pop, mvars, wvars, ovars
<1>8. CASE DestroyEnd
  BY <1>0, <1>8 DEF DestroyEnd, Drained, Queue!FindEmpty, wvars
<1>9. ASSUME NEW w \in Workers, Worker(w)
      PROVE  LifeCycle'
  <2>1. Alive(w)
    BY <1>9 DEF Worker, WorkerCheck, WorkerPop, WorkerRun, WorkerFree
  <2>2. opc # "drain" /\ internal # "NULL"
    BY <1>0, <2>1
  <2>3. opc' = opc /\ internal' = internal /\ memory' = memory /\ joined' = joined
    BY <1>9 DEF Worker, WorkerCheck, WorkerPop, WorkerRun, WorkerFree, mvars, ovars
  <2>4. \A v \in Workers : wpc[v] = "exited" => wpc'[v] = "exited"
    BY <1>0, <1>9, <2>1
       DEF Worker, WorkerCheck, WorkerPop, WorkerRun, WorkerFree, TypeOK
  <2>5. \A v \in Workers : wpc[v] = "absent" => wpc'[v] = "absent"
    BY <1>0, <1>9, <2>1
       DEF Worker, WorkerCheck, WorkerPop, WorkerRun, WorkerFree, TypeOK
  <2> QED
    BY <1>0, <2>2, <2>3, <2>4, <2>5
<1>10. CASE UNCHANGED vars
  BY <1>0, <1>10 DEF vars, qvars, mvars, wvars, ovars
<1> QED
  BY <1>1, <1>2, <1>3, <1>4, <1>5, <1>6, <1>7, <1>8, <1>9, <1>10
     DEF Next, Finish

-----------------------------------------------------------------------------
(* The nodes. *)

Holders == WorkerView /\ NodeHasOneHolder /\ LiveHasHolder /\ RunsAtMostOnce

\* Steps that move no node, run no task and leave each worker with what it holds.
LEMMA HoldersUnchanged ==
  ASSUME Holders, UNCHANGED <<queue, node, ran, held>>,
         \A w \in Workers :
           /\ wpc'[w] \in {"run", "free"} <=> wpc[w] \in {"run", "free"}
           /\ wpc'[w] = "run" => wpc[w] = "run"
  PROVE  Holders'
<1>1. \A w \in Workers, t \in Tasks : Holds(w, t)' <=> Holds(w, t)
  BY DEF Holds
<1>2. WorkerView'
  <2> SUFFICES ASSUME NEW w \in Workers
               PROVE  /\ wpc'[w] \in {"run", "free"} => held'[w] \in Tasks
                      /\ wpc'[w] = "run" => ran'[held'[w]] = 0
    BY DEF WorkerView
  <2> QED
    BY DEF WorkerView, Holders
<1>3. NodeHasOneHolder'
  BY <1>1 DEF NodeHasOneHolder, Holders
<1>4. LiveHasHolder'
  BY <1>1 DEF LiveHasHolder, Holders
<1>5. RunsAtMostOnce'
  BY DEF RunsAtMostOnce, Holders
<1> QED
  BY <1>2, <1>3, <1>4, <1>5 DEF Holders

LEMMA QueueTaskHolders ==
  ASSUME TypeOK, Holders, NEW t \in Tasks, QueueTask(t)
  PROVE  Holders'
<1>1. /\ node[t] = "none" /\ node \in [Tasks -> {"none", "live", "freed"}]
      /\ UNCHANGED <<ran, wpc, held>> /\ ran[t] = 0 /\ queue \in Seq(Tasks)
  BY DEF QueueTask, wvars, TypeOK, Holders, RunsAtMostOnce
<1>2. ~Among(t, queue) /\ \A w \in Workers : ~Holds(w, t)
  BY <1>1 DEF Holders, NodeHasOneHolder
<1>3. WorkerView' /\ \A w \in Workers, u \in Tasks : Holds(w, u)' <=> Holds(w, u)
  BY <1>1 DEF Holders, WorkerView, Holds
<1>4. CASE AcceptTask(t)
  <2>1. /\ queue' = Append(queue, t)
        /\ node' = [node EXCEPT ![t] = "live"]
    BY <1>4 DEF AcceptTask, Queue!Push
  <2>2. /\ \A u : Among(u, queue') <=> Among(u, queue) \/ u = t
        /\ Distinct(queue')
    BY <1>1, <1>2, <2>1, AmongAppend DEF Holders, NodeHasOneHolder
  <2>3. NodeHasOneHolder'
    BY <1>1, <1>2, <1>3, <2>1, <2>2 DEF Holders, NodeHasOneHolder
  <2>4. LiveHasHolder'
    BY <1>1, <1>3, <2>1, <2>2 DEF Holders, LiveHasHolder
  <2>5. RunsAtMostOnce'
    BY <1>1, <2>1, <2>2 DEF Holders, RunsAtMostOnce
  <2> QED
    BY <1>3, <2>3, <2>4, <2>5 DEF Holders
<1>5. CASE RefuseTask(t)
  <2>1. queue' = queue /\ node' = [node EXCEPT ![t] = "freed"]
    BY <1>5 DEF RefuseTask, Queue!Refuse
  <2>2. NodeHasOneHolder'
    BY <1>1, <1>2, <1>3, <2>1 DEF Holders, NodeHasOneHolder
  <2>3. LiveHasHolder'
    BY <1>1, <1>3, <2>1 DEF Holders, LiveHasHolder
  <2>4. RunsAtMostOnce'
    BY <1>1, <2>1 DEF Holders, RunsAtMostOnce
  <2> QED
    BY <1>3, <2>2, <2>3, <2>4 DEF Holders
<1> QED
  BY <1>4, <1>5 DEF QueueTask

LEMMA DrainOneHolders ==
  ASSUME TypeOK, Holders, DrainOne
  PROVE  Holders'
<1>1. /\ queue # << >> /\ queue' = Tail(queue) /\ queue \in Seq(Tasks)
      /\ node' = [node EXCEPT ![Head(queue)] = "freed"]
      /\ node \in [Tasks -> {"none", "live", "freed"}]
      /\ UNCHANGED <<ran, wpc, held>>
  BY DEF DrainOne, Queue!Pop, wvars, TypeOK
<1>2. /\ Head(queue) \in Tasks /\ Among(Head(queue), queue)
      /\ \A u : Among(u, queue') <=> Among(u, queue) /\ u # Head(queue)
      /\ Distinct(queue')
  BY <1>1, AmongTail DEF Holders, NodeHasOneHolder
<1>3. WorkerView' /\ \A w \in Workers, u \in Tasks : Holds(w, u)' <=> Holds(w, u)
  BY <1>1 DEF Holders, WorkerView, Holds
<1>4. \A w \in Workers : ~Holds(w, Head(queue))
  BY <1>2 DEF Holders, NodeHasOneHolder
<1>5. NodeHasOneHolder'
  BY <1>1, <1>2, <1>3, <1>4 DEF Holders, NodeHasOneHolder
<1>6. LiveHasHolder'
  BY <1>1, <1>2, <1>3 DEF Holders, LiveHasHolder
<1>7. RunsAtMostOnce'
  BY <1>1, <1>2 DEF Holders, RunsAtMostOnce
<1> QED
  BY <1>3, <1>5, <1>6, <1>7 DEF Holders

LEMMA PopHolders ==
  ASSUME TypeOK, Holders, NEW w \in Workers, WorkerPop(w)
  PROVE  Holders'
<1>0. wpc[w] = "pop" /\ UNCHANGED <<node, ran>>
  BY DEF WorkerPop, tvars
<1>1. CASE Queue!FindEmpty(w) /\ wpc' = [wpc EXCEPT ![w] = "check"] /\ UNCHANGED held
  BY <1>0, <1>1, HoldersUnchanged DEF Queue!FindEmpty, TypeOK
<1>2. CASE /\ Queue!Pop(w)
           /\ held' = [held EXCEPT ![w] = Head(queue)]
           /\ wpc' = [wpc EXCEPT ![w] = "run"]
  <2>1. /\ queue # << >> /\ queue' = Tail(queue) /\ queue \in Seq(Tasks)
        /\ held'[w] = Head(queue) /\ wpc'[w] = "run"
        /\ \A v \in Workers \ {w} : held'[v] = held[v] /\ wpc'[v] = wpc[v]
    BY <1>2 DEF Queue!Pop, TypeOK
  <2>2. /\ Head(queue) \in Tasks /\ Among(Head(queue), queue)
        /\ \A u : Among(u, queue') <=> Among(u, queue) /\ u # Head(queue)
        /\ Distinct(queue')
    BY <2>1, AmongTail DEF Holders, NodeHasOneHolder
  <2>3. /\ \A v \in Workers : ~Holds(v, Head(queue))
        /\ node[Head(queue)] = "live" /\ ran[Head(queue)] = 0
    BY <2>2 DEF Holders, NodeHasOneHolder, RunsAtMostOnce
  <2>4. /\ \A v \in Workers \ {w}, u \in Tasks : Holds(v, u)' <=> Holds(v, u)
        /\ \A u : Holds(w, u)' <=> u = Head(queue)
        /\ \A u : ~Holds(w, u)
    BY <1>0, <2>1 DEF Holds
  <2>5. WorkerView'
    BY <1>0, <2>1, <2>2, <2>3 DEF Holders, WorkerView
  <2>6. NodeHasOneHolder'
    <3>1. \A u \in Tasks :
            Among(u, queue') \/ (\E v \in Workers : Holds(v, u)') => node'[u] = "live"
      BY <1>0, <2>2, <2>3, <2>4 DEF Holders, NodeHasOneHolder
    <3>2. \A v \in Workers, u \in Tasks :
            Holds(v, u)' => /\ ~Among(u, queue')
                            /\ \A x \in Workers : Holds(x, u)' => x = v
      BY <2>2, <2>3, <2>4 DEF Holders, NodeHasOneHolder
    <3> QED
      BY <2>2, <3>1, <3>2 DEF NodeHasOneHolder
  <2>7. LiveHasHolder'
    BY <1>0, <2>2, <2>4 DEF Holders, LiveHasHolder
  <2>8. RunsAtMostOnce'
    BY <1>0, <2>2 DEF Holders, RunsAtMostOnce
  <2> QED
    BY <2>5, <2>6, <2>7, <2>8 DEF Holders
<1> QED
  BY <1>1, <1>2 DEF WorkerPop

LEMMA RunHolders ==
  ASSUME TypeOK, Holders, NEW w \in Workers, WorkerRun(w)
  PROVE  Holders'
<1>1. /\ wpc[w] = "run" /\ UNCHANGED <<queue, node, held>>
      /\ ran' = [ran EXCEPT ![held[w]] = @ + 1]
      /\ wpc'[w] = "free" /\ \A v \in Workers \ {w} : wpc'[v] = wpc[v]
  BY DEF WorkerRun, qvars, AfterTask, TypeOK
<1>2. /\ held[w] \in Tasks /\ ran[held[w]] = 0 /\ Holds(w, held[w])
      /\ ran \in [Tasks -> Nat]
  BY <1>1 DEF Holders, WorkerView, Holds, TypeOK
<1>3. \A v \in Workers, u \in Tasks : Holds(v, u)' <=> Holds(v, u)
  BY <1>1 DEF Holds
<1>4. \A v \in Workers \ {w} : Holds(v, held[v]) => held[v] # held[w]
  BY <1>2 DEF Holders, NodeHasOneHolder
<1>5. /\ ~Among(held[w], queue) /\ node[held[w]] = "live"
  BY <1>2 DEF Holders, NodeHasOneHolder
<1>6. WorkerView'
  <2> SUFFICES ASSUME NEW v \in Workers
               PROVE  /\ wpc'[v] \in {"run", "free"} => held'[v] \in Tasks
                      /\ wpc'[v] = "run" => ran'[held'[v]] = 0
    BY DEF WorkerView
  <2>1. CASE v = w
    BY <1>1, <1>2, <2>1
  <2>2. CASE v # w
    BY <1>1, <1>2, <1>4, <2>2 DEF Holders, WorkerView, Holds
  <2> QED
    BY <2>1, <2>2
<1>7. NodeHasOneHolder' /\ LiveHasHolder'
  BY <1>1, <1>3 DEF Holders, NodeHasOneHolder, LiveHasHolder
<1>8. RunsAtMostOnce'
  BY <1>1, <1>2, <1>5 DEF Holders, RunsAtMostOnce
<1> QED
  BY <1>6, <1>7, <1>8 DEF Holders

LEMMA FreeHolders ==
  ASSUME TypeOK, Holders, NEW w \in Workers, WorkerFree(w)
  PROVE  Holders'
<1>1. /\ wpc[w] = "free" /\ UNCHANGED <<queue, ran>>
      /\ node' = [node EXCEPT ![held[w]] = "freed"]
      /\ node \in [Tasks -> {"none", "live", "freed"}]
      /\ wpc'[w] = "check"
      /\ \A v \in Workers \ {w} : wpc'[v] = wpc[v] /\ held'[v] = held[v]
  BY DEF WorkerFree, qvars, TypeOK
<1>2. held[w] \in Tasks /\ Holds(w, held[w])
  BY <1>1 DEF Holders, WorkerView, Holds
<1>3. /\ \A v \in Workers \ {w}, u \in Tasks : Holds(v, u)' <=> Holds(v, u)
      /\ \A u : ~Holds(w, u)' /\ (Holds(w, u) => u = held[w])
  BY <1>1 DEF Holds
<1>4. /\ ~Among(held[w], queue)
      /\ \A v \in Workers \ {w} : ~Holds(v, held[w])
  BY <1>2 DEF Holders, NodeHasOneHolder
<1>5. WorkerView'
  BY <1>1 DEF Holders, WorkerView
<1>6. NodeHasOneHolder'
  <2>1. \A u \in Tasks :
          Among(u, queue') \/ (\E v \in Workers : Holds(v, u)') => node'[u] = "live"
    BY <1>1, <1>2, <1>3, <1>4 DEF Holders, NodeHasOneHolder
  <2>2. \A v \in Workers, u \in Tasks :
          Holds(v, u)' => /\ ~Among(u, queue')
                          /\ \A x \in Workers : Holds(x, u)' => x = v
    BY <1>1, <1>3 DEF Holders, NodeHasOneHolder
  <2> QED
    BY <1>1, <2>1, <2>2 DEF Holders, NodeHasOneHolder
<1>7. LiveHasHolder'
  BY <1>1, <1>2, <1>3 DEF Holders, LiveHasHolder
<1>8. RunsAtMostOnce'
  BY <1>1, <1>2 DEF Holders, RunsAtMostOnce
<1> QED
  BY <1>5, <1>6, <1>7, <1>8 DEF Holders

\* A new life of the modality: the queue was empty and no worker was left.
LEMMA InitModalityHolders ==
  ASSUME TypeOK, LifeCycle, Holders, InitModality
  PROVE  Holders'
<1>1. /\ queue = << >> /\ queue' = << >> /\ UNCHANGED <<node, ran, held>>
      /\ \A w \in Workers : ~Alive(w) /\ wpc'[w] = "absent"
  BY DEF InitModality, LifeCycle, tvars
<1> QED
  BY <1>1, HoldersUnchanged DEF Alive

LEMMA StepHolders ==
  ASSUME Inv, [Next]_vars
  PROVE  Holders'
<1>0. TypeOK /\ LifeCycle /\ Holders
  BY DEF Inv, Holders
<1>1. CASE InitModality
  BY <1>0, <1>1, InitModalityHolders
<1>2. CASE SpawnWorker
  <2>1. joined + 1 \in Workers /\ joined + 1 > joined /\ opc = "spawn"
    BY <1>0, <1>2, NumWorkersAssumption DEF SpawnWorker, LifeCycle, TypeOK, Workers
  <2>2. wpc[joined + 1] = "absent"
    BY <1>0, <2>1 DEF LifeCycle
  <2> QED
    BY <1>0, <1>2, <2>1, <2>2, HoldersUnchanged
       DEF SpawnWorker, qvars, tvars, TypeOK
<1>3. ASSUME NEW t \in Tasks, QueueTask(t)
      PROVE  Holders'
  BY <1>0, <1>3, QueueTaskHolders
<1>4. CASE Stop \/ DestroyBegin \/ Join \/ DestroyEnd
  BY <1>0, <1>4, HoldersUnchanged
     DEF Stop, DestroyBegin, Join, DestroyEnd, Drained, Queue!FindEmpty,
         qvars, tvars, wvars
<1>5. CASE DrainOne
  BY <1>0, <1>5, DrainOneHolders
<1>6. ASSUME NEW w \in Workers, WorkerCheck(w)
      PROVE  Holders'
  <2>1. /\ wpc[w] = "check" /\ UNCHANGED <<queue, node, ran, held>>
        /\ wpc'[w] \in {"pop", "exited"}
        /\ \A v \in Workers \ {w} : wpc'[v] = wpc[v]
    BY <1>0, <1>6 DEF WorkerCheck, qvars, tvars, TypeOK
  <2> QED
    BY <1>0, <2>1, HoldersUnchanged
<1>7. ASSUME NEW w \in Workers, WorkerPop(w) \/ WorkerRun(w) \/ WorkerFree(w)
      PROVE  Holders'
  BY <1>0, <1>7, PopHolders, RunHolders, FreeHolders
<1>8. CASE UNCHANGED vars
  BY <1>0, <1>8, HoldersUnchanged DEF vars, qvars, tvars, wvars
<1> QED
  BY <1>1, <1>2, <1>3, <1>4, <1>5, <1>6, <1>7, <1>8 DEF Next, Finish, Worker

-----------------------------------------------------------------------------
LEMMA InvariantInv == Spec => []Inv
<1>1. Init => Inv
  BY InitInv
<1>2. Inv /\ [Next]_vars => Inv'
  BY StepTypeOK, StepLifeCycle, StepHolders DEF Inv, Holders
<1> QED
  BY <1>1, <1>2, PTL DEF Spec

\* The variables keep their types; joined never leaves the array of threads.
THEOREM TypeCorrect == Spec => []TypeOK
<1>1. Inv => TypeOK
  BY DEF Inv
<1> QED
  BY <1>1, InvariantInv, PTL

\* cmp_modality_destroy frees the state block only after every worker has left
\* its loop, and no node is freed while a worker holds it.
THEOREM DestroyIsSafe == Spec => []NoUseAfterFree
<1>1. Inv => NoUseAfterFree
  <2> SUFFICES ASSUME Inv, NEW w \in Workers
               PROVE  /\ Alive(w) => memory = "live"
                      /\ \A t \in Tasks : Holds(w, t) => node[t] = "live"
    BY DEF NoUseAfterFree
  <2>1. Alive(w) => internal # "NULL"
    BY DEF Inv, LifeCycle
  <2>2. Alive(w) => memory = "live"
    BY <2>1 DEF Inv, LifeCycle, TypeOK
  <2> QED
    BY <2>2 DEF Inv, NodeHasOneHolder
<1> QED
  BY <1>1, InvariantInv, PTL

\* A node is in one place at a time, and no task runs twice.
THEOREM TasksRunOnce == Spec => [](NodeHasOneHolder /\ RunsAtMostOnce)
<1>1. Inv => NodeHasOneHolder /\ RunsAtMostOnce
  BY DEF Inv
<1> QED
  BY <1>1, InvariantInv, PTL

\* When the modality is gone, so are all its nodes.
THEOREM NodesAreFreed == Spec => []NoNodeLeaks
<1>1. Inv => NoNodeLeaks
  <2> SUFFICES ASSUME Inv, internal = "NULL", NEW t \in Tasks
               PROVE  node[t] # "live"
    BY DEF NoNodeLeaks
  <2>1. ~Among(t, queue)
    BY AmongEmpty DEF Inv, LifeCycle
  <2>2. \A w \in Workers : ~Holds(w, t)
    BY DEF Inv, LifeCycle, Alive, Holds
  <2> QED
    BY <2>1, <2>2 DEF Inv, LiveHasHolder
<1> QED
  BY <1>1, InvariantInv, PTL

-----------------------------------------------------------------------------
(* The modality implements TaskQueue. *)

\* A worker that frees a node has run its task.
FreesWhatRan == \A w \in Workers : wpc[w] = "free" => ran[held[w]] = 1

LEMMA FreesWhatRanStep ==
  ASSUME Inv, FreesWhatRan, [Next]_vars
  PROVE  FreesWhatRan'
<1>0. /\ TypeOK /\ WorkerView /\ NodeHasOneHolder
      /\ wpc \in [Workers -> {"absent", "check", "pop", "run", "free", "exited"}]
      /\ ran \in [Tasks -> Nat]
  BY DEF Inv, TypeOK
<1>1. CASE \/ UNCHANGED vars \/ Stop \/ DestroyBegin \/ Join \/ DrainOne \/ DestroyEnd
           \/ \E t \in Tasks : QueueTask(t)
  <2>1. UNCHANGED <<ran, wpc, held>>
    BY <1>1 DEF vars, tvars, wvars, Stop, DestroyBegin, Join, DrainOne, DestroyEnd, QueueTask
  <2> QED
    BY <2>1 DEF FreesWhatRan
<1>2. CASE InitModality
  BY <1>2 DEF InitModality, tvars, FreesWhatRan
<1>3. CASE SpawnWorker
  BY <1>0, <1>3 DEF SpawnWorker, tvars, FreesWhatRan
<1>4. ASSUME NEW w \in Workers, WorkerCheck(w) \/ WorkerPop(w) \/ WorkerFree(w)
      PROVE  FreesWhatRan'
  <2>1. /\ ran' = ran /\ wpc'[w] # "free"
        /\ \A v \in Workers \ {w} : wpc'[v] = wpc[v] /\ held'[v] = held[v]
    BY <1>0, <1>4 DEF WorkerCheck, WorkerPop, WorkerFree, tvars, TypeOK
  <2> QED
    BY <2>1 DEF FreesWhatRan
<1>5. ASSUME NEW w \in Workers, WorkerRun(w)
      PROVE  FreesWhatRan'
  <2>1. /\ wpc[w] = "run" /\ ran' = [ran EXCEPT ![held[w]] = @ + 1] /\ held' = held
        /\ \A v \in Workers \ {w} : wpc'[v] = wpc[v]
    BY <1>0, <1>5 DEF WorkerRun
  <2>2. held[w] \in Tasks /\ ran[held[w]] = 0 /\ Holds(w, held[w])
    BY <1>0, <2>1 DEF WorkerView, Holds
  <2>3. ran'[held[w]] = 1
    BY <1>0, <2>1, <2>2
  <2>4. ASSUME NEW v \in Workers \ {w}, wpc[v] = "free"
        PROVE  held[v] \in Tasks /\ held[v] # held[w] /\ ran'[held[v]] = ran[held[v]]
    <3>1. held[v] \in Tasks /\ Holds(v, held[v])
      BY <1>0, <2>4 DEF WorkerView, Holds
    <3>2. held[v] # held[w]
      BY <1>0, <2>2, <3>1 DEF NodeHasOneHolder
    <3> QED
      BY <1>0, <2>1, <3>1, <3>2
  <2> QED
    BY <2>1, <2>3, <2>4 DEF FreesWhatRan
<1> QED
  BY <1>1, <1>2, <1>3, <1>4, <1>5 DEF Next, Finish, Worker

LEMMA FreesWhatRanAlways == Spec => [](Inv /\ FreesWhatRan)
<1>1. Init => FreesWhatRan
  BY DEF Init, FreesWhatRan
<1>2. Inv /\ FreesWhatRan /\ [Next]_vars => FreesWhatRan'
  BY FreesWhatRanStep
<1> QED
  BY <1>1, <1>2, InvariantInv, PTL DEF Spec

\* The stage of a task depends on its node, its place and whether it ran.
LEMMA SameStage ==
  ASSUME NEW t \in Tasks, node'[t] = node[t], ran'[t] = ran[t],
         Among(t, queue') <=> Among(t, queue)
  PROVE  Stage(t)' = Stage(t)
BY DEF Stage

\* A step that the application does not see.
LEMMA Unseen ==
  ASSUME UNCHANGED <<queue, node, ran>>, Closed' <=> Closed
  PROVE  UNCHANGED Promise!tqvars
<1>1. \A t \in Tasks : Stage(t)' = Stage(t)
  BY SameStage
<1>2. Stages' = Stages
  BY <1>1 DEF Stages
<1>3. Closed' = Closed
  BY DEF Closed
<1> QED
  BY <1>2, <1>3 DEF Promise!tqvars

\* The stage of one task changes.
LEMMA OneStage ==
  ASSUME NEW t \in Tasks, NEW s, Stage(t)' = s,
         \A u \in Tasks \ {t} : Stage(u)' = Stage(u)
  PROVE  Stages' = [Stages EXCEPT ![t] = s]
BY DEF Stages

LEMMA QueueTaskPromise ==
  ASSUME Inv, NEW t \in Tasks, QueueTask(t)
  PROVE  Promise!Accept(t) \/ Promise!Refuse(t)
<1>0. /\ queue \in Seq(Tasks) /\ node \in [Tasks -> {"none", "live", "freed"}]
      /\ opc = "idle" /\ internal = "set" /\ node[t] = "none" /\ ran' = ran
      /\ opc' = opc /\ internal' = internal
  BY DEF Inv, TypeOK, QueueTask, mvars, ovars
<1>1. ran[t] = 0 /\ ~Among(t, queue)
  BY <1>0 DEF Inv, RunsAtMostOnce, NodeHasOneHolder
<1>2. /\ ~Closed /\ Closed' = Closed /\ Stage(t) = "new" /\ Stages[t] = Stage(t)
  BY <1>0 DEF Closed, Stage, Stages
<1>3. CASE AcceptTask(t)
  <2>1. queue' = Append(queue, t) /\ node' = [node EXCEPT ![t] = "live"]
    BY <1>3 DEF AcceptTask, Queue!Push
  <2>2. \A u \in Tasks : Among(u, queue') <=> Among(u, queue) \/ u = t
    BY <1>0, <2>1, AmongAppend
  <2>3. Stage(t)' = "waiting"
    BY <1>0, <2>1, <2>2 DEF Stage
  <2>4. \A u \in Tasks \ {t} : Stage(u)' = Stage(u)
    BY <1>0, <2>1, <2>2, SameStage
  <2>5. Stages' = [Stages EXCEPT ![t] = "waiting"]
    BY <2>3, <2>4, OneStage
  <2> QED
    BY <1>2, <2>1, <2>5 DEF Promise!Accept
<1>4. CASE RefuseTask(t)
  <2>1. queue' = queue /\ node' = [node EXCEPT ![t] = "freed"]
    BY <1>4 DEF RefuseTask, Queue!Refuse
  <2>2. Stage(t)' = "unrun"
    BY <1>0, <1>1, <2>1 DEF Stage
  <2>3. \A u \in Tasks \ {t} : Stage(u)' = Stage(u)
    BY <1>0, <2>1, SameStage
  <2>4. Stages' = [Stages EXCEPT ![t] = "unrun"]
    BY <2>2, <2>3, OneStage
  <2> QED
    BY <1>2, <2>1, <2>4 DEF Promise!Refuse
<1> QED
  BY <1>3, <1>4 DEF QueueTask

LEMMA DrainOnePromise ==
  ASSUME Inv, DrainOne
  PROVE  \E n \in 0 .. Len(queue) : Promise!Discard(n)
<1>0. /\ queue \in Seq(Tasks) /\ node \in [Tasks -> {"none", "live", "freed"}]
      /\ Distinct(queue) /\ queue # << >> /\ queue' = Tail(queue)
      /\ node' = [node EXCEPT ![Head(queue)] = "freed"] /\ ran' = ran
      /\ opc = "drain" /\ opc' = "drain"
  BY DEF Inv, TypeOK, NodeHasOneHolder, DrainOne, Queue!Pop, ovars
<1>h. PICK h \in Tasks : h = Head(queue)
  BY <1>0, AmongTail
<1>1. /\ Among(h, queue)
      /\ \A u : Among(u, queue') <=> Among(u, queue) /\ u # h
  BY <1>0, <1>h, AmongTail
<1>2. Len(queue) \in Nat \ {0} /\ queue[1] = h /\ queue' = SubSeq(queue, 1 + 1, Len(queue))
  BY <1>0, <1>h, HeadTailProperties, EmptySeq, LenProperties
<1>3. Stage(h)' = "unrun"
  BY <1>0, <1>h, <1>1 DEF Stage, Inv, RunsAtMostOnce
<1>4. \A u \in Tasks \ {h} : Stage(u)' = Stage(u)
  BY <1>0, <1>h, <1>1, SameStage
<1>5. \A u \in Tasks : (\E i \in 1 .. 1 : queue[i] = u) <=> u = h
  BY <1>2
<1>6. Stages' = [u \in Tasks |->
                   IF \E i \in 1 .. 1 : queue[i] = u THEN "unrun" ELSE Stages[u]]
  BY <1>3, <1>4, <1>5 DEF Stages
<1>7. Closed' = TRUE
  BY <1>0 DEF Closed
<1>8. Promise!Discard(1)
  BY <1>2, <1>6, <1>7 DEF Promise!Discard
<1> QED
  BY <1>2, <1>8

LEMMA WorkerPromise ==
  ASSUME Inv, FreesWhatRan, NEW w \in Workers, Worker(w)
  PROVE  Promise!Next \/ UNCHANGED Promise!tqvars
<1>0. /\ queue \in Seq(Tasks) /\ node \in [Tasks -> {"none", "live", "freed"}]
      /\ ran \in [Tasks -> Nat] /\ Distinct(queue)
      /\ Alive(w) /\ ~Closed /\ Closed' = Closed
  BY DEF Inv, TypeOK, NodeHasOneHolder, LifeCycle, Alive, Closed, Worker, WorkerCheck,
         WorkerPop, WorkerRun, WorkerFree, ovars, mvars
<1>1. CASE WorkerCheck(w)
  BY <1>0, <1>1, Unseen DEF WorkerCheck, qvars, tvars
<1>2. CASE WorkerPop(w)
  <2>1. node' = node /\ ran' = ran
    BY <1>2 DEF WorkerPop, tvars
  <2>2. CASE Queue!FindEmpty(w)
    BY <1>0, <2>1, <2>2, Unseen DEF Queue!FindEmpty
  <2>3. CASE Queue!Pop(w)
    <3>1. queue # << >> /\ queue' = Tail(queue)
      BY <2>3 DEF Queue!Pop
    <3>h. PICK h \in Tasks : h = Head(queue)
      BY <1>0, <3>1, AmongTail
    <3>2. /\ Among(h, queue)
          /\ \A u : Among(u, queue') <=> Among(u, queue) /\ u # h
      BY <1>0, <3>1, <3>h, AmongTail
    <3>3. node[h] = "live"
      BY <3>2 DEF Inv, NodeHasOneHolder
    <3>4. Stage(h)' = "begun"
      BY <2>1, <3>2, <3>3 DEF Stage
    <3>5. \A u \in Tasks \ {h} : Stage(u)' = Stage(u)
      BY <2>1, <3>2, SameStage
    <3>6. Stages' = [Stages EXCEPT ![h] = "begun"]
      BY <3>4, <3>5, OneStage
    <3>7. Promise!Begin
      BY <1>0, <3>1, <3>h, <3>6 DEF Promise!Begin
    <3> QED
      BY <3>7 DEF Promise!Next
  <2> QED
    BY <1>2, <2>2, <2>3 DEF WorkerPop
<1>3. CASE WorkerRun(w) \/ WorkerFree(w)
  <2>1. wpc[w] \in {"run", "free"} /\ queue' = queue
    BY <1>3 DEF WorkerRun, WorkerFree, qvars
  <2>t. PICK t \in Tasks : t = held[w]
    BY <2>1 DEF Inv, WorkerView
  <2>2. Holds(w, t) /\ ~Among(t, queue) /\ node[t] = "live"
    BY <2>1, <2>t DEF Inv, NodeHasOneHolder, Holds
  <2>3. Stage(t) = "begun"
    BY <2>2 DEF Stage
  <2>4. CASE WorkerRun(w)
    <3>1. node' = node /\ ran' = [ran EXCEPT ![t] = @ + 1]
      BY <2>4, <2>t DEF WorkerRun
    <3>2. Stage(t)' = Stage(t)
      BY <2>1, <2>2, <2>3, <3>1 DEF Stage
    <3>3. \A u \in Tasks \ {t} : Stage(u)' = Stage(u)
      BY <1>0, <2>1, <3>1, SameStage
    <3>4. Stages' = Stages
      BY <3>2, <3>3 DEF Stages
    <3> QED
      BY <1>0, <2>1, <3>4 DEF Promise!tqvars
  <2>5. CASE WorkerFree(w)
    <3>1. /\ node' = [node EXCEPT ![t] = "freed"] /\ ran' = ran /\ wpc[w] = "free"
      BY <2>5, <2>t DEF WorkerFree
    <3>2. ran[t] = 1
      BY <2>t, <3>1 DEF FreesWhatRan
    <3>3. Stage(t)' = "ended"
      BY <1>0, <2>1, <2>2, <3>1, <3>2 DEF Stage
    <3>4. \A u \in Tasks \ {t} : Stage(u)' = Stage(u)
      BY <1>0, <2>1, <3>1, SameStage
    <3>5. Stages' = [Stages EXCEPT ![t] = "ended"]
      BY <3>3, <3>4, OneStage
    <3>6. Promise!End(t)
      BY <1>0, <2>1, <2>2, <2>3, <3>5 DEF Promise!End, Stages
    <3> QED
      BY <2>2, <3>6 DEF Promise!Next
  <2> QED
    BY <1>3, <2>4, <2>5
<1> QED
  BY <1>1, <1>2, <1>3 DEF Worker

LEMMA JoinPromise ==
  ASSUME Inv, Join
  PROVE  Promise!Discard(0) \/ UNCHANGED Promise!tqvars
<1>0. /\ opc = "join" /\ internal = "set" /\ internal' = internal
      /\ UNCHANGED <<queue, node, ran>> /\ (opc' = "join" \/ opc' = "drain")
  BY DEF Join, qvars, mvars, tvars, Inv, LifeCycle
<1>1. CASE opc' = "join"
  BY <1>0, <1>1, Unseen DEF Closed
<1>2. CASE opc' = "drain"
  <2>1. Closed' = TRUE
    BY <1>2 DEF Closed
  <2>2. \A t \in Tasks : Stage(t)' = Stage(t)
    BY <1>0, SameStage
  <2>3. Stages' = [t \in Tasks |->
                     IF \E i \in 1 .. 0 : queue[i] = t THEN "unrun" ELSE Stages[t]]
    BY <2>2 DEF Stages
  <2>4. queue \in Seq(Tasks) /\ SubSeq(queue, 0 + 1, Len(queue)) = queue
    BY DEF Inv, TypeOK
  <2> QED
    BY <1>0, <2>1, <2>3, <2>4 DEF Promise!Discard
<1> QED
  BY <1>0, <1>1, <1>2

\* Any number of workers, whatever they do at the same time, keep the promise of
\* a modality: tasks begin in the order in which cmp_modality_queue_task accepted
\* them, each once, and none begins that cmp_modality_destroy found in the queue.
THEOREM WorkersKeepThePromise == Spec => ImplementsTaskQueue
<1>1. Init => Promise!Init
  <2> SUFFICES ASSUME Init PROVE Promise!Init
    OBVIOUS
  <2>1. queue = << >> /\ Closed = TRUE
    BY DEF Init, Queue!Init, Closed
  <2>2. \A t \in Tasks : Stage(t) = "new"
    BY DEF Init, Stage
  <2> QED
    BY <2>1, <2>2 DEF Promise!Init, Stages
<1>2. Inv /\ FreesWhatRan /\ [Next]_vars => [Promise!Next]_(Promise!tqvars)
  <2> SUFFICES ASSUME Inv, FreesWhatRan, [Next]_vars
               PROVE  Promise!Next \/ UNCHANGED Promise!tqvars
    OBVIOUS
  <2>1. CASE UNCHANGED vars
    BY <2>1, Unseen DEF vars, qvars, mvars, tvars, ovars, Closed
  <2>2. CASE InitModality
    <3>1. /\ queue = << >> /\ queue' = queue /\ Closed /\ Closed' = FALSE
          /\ UNCHANGED <<node, ran>>
      BY <2>2 DEF InitModality, Closed, tvars, Inv, LifeCycle
    <3>2. \A t \in Tasks : Stage(t)' = Stage(t)
      BY <3>1, SameStage
    <3>3. Promise!Open
      BY <3>1, <3>2 DEF Promise!Open, Stages
    <3> QED
      BY <3>3 DEF Promise!Next
  <2>3. CASE SpawnWorker
    BY <2>3, Unseen DEF SpawnWorker, Closed, qvars, tvars, mvars
  <2>4. CASE Stop
    BY <2>4, Unseen DEF Stop, Closed, qvars, tvars, ovars
  <2>5. CASE DestroyBegin
    BY <2>5, Unseen DEF DestroyBegin, Closed, qvars, tvars
  <2>6. CASE Join
    <3>1. 0 \in 0 .. Len(queue)
      BY LenProperties DEF Inv, TypeOK
    <3> QED
      BY <2>6, <3>1, JoinPromise DEF Promise!Next
  <2>7. CASE DrainOne
    BY <2>7, DrainOnePromise DEF Promise!Next
  <2>8. CASE DestroyEnd
    BY <2>8, Unseen DEF DestroyEnd, Drained, Queue!FindEmpty, Closed, tvars
  <2>9. ASSUME NEW t \in Tasks, QueueTask(t)
        PROVE  Promise!Next
    BY <2>9, QueueTaskPromise DEF Promise!Next
  <2>10. ASSUME NEW w \in Workers, Worker(w)
         PROVE  Promise!Next \/ UNCHANGED Promise!tqvars
    BY <2>10, WorkerPromise
  <2> QED
    BY <2>1, <2>2, <2>3, <2>4, <2>5, <2>6, <2>7, <2>8, <2>9, <2>10 DEF Next, Finish
<1> QED
  BY <1>1, <1>2, FreesWhatRanAlways, PTL DEF Spec, ImplementsTaskQueue, Promise!Spec
=============================================================================
