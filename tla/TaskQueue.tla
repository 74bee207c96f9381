------------------------------ MODULE TaskQueue ------------------------------
(***************************************************************************)
(* What an application may rely on without knowing which modality it has   *)
(* (README.md, line 19: single-threaded or a pool of workers "without      *)
(* changing your business logic").  Tasks begin in the order in which they *)
(* were accepted, each once, and those that did not begin before the       *)
(* modality was destroyed never do.  A single modality may be destroyed by *)
(* a task, which then goes on; so a task may end after the discarding.     *)
(***************************************************************************)
EXTENDS Naturals, Sequences

CONSTANT Tasks

VARIABLES
  waiting,   \* the tasks that were accepted and have not begun, oldest first
  stage,     \* of each task: "new", "waiting", "begun", "ended" or "unrun"
  closed     \* nothing is accepted and nothing begins

tqvars == <<waiting, stage, closed>>

Init ==
  /\ waiting = << >>
  /\ stage = [t \in Tasks |-> "new"]
  /\ closed \in BOOLEAN

Open ==
  /\ closed /\ waiting = << >>
  /\ closed' = FALSE
  /\ UNCHANGED <<waiting, stage>>

Accept(t) ==
  /\ ~closed /\ stage[t] = "new"
  /\ waiting' = Append(waiting, t)
  /\ stage' = [stage EXCEPT ![t] = "waiting"]
  /\ UNCHANGED closed

Refuse(t) ==
  /\ ~closed /\ stage[t] = "new"
  /\ stage' = [stage EXCEPT ![t] = "unrun"]
  /\ UNCHANGED <<waiting, closed>>

Begin ==
  /\ ~closed /\ waiting # << >>
  /\ waiting' = Tail(waiting)
  /\ stage' = [stage EXCEPT ![Head(waiting)] = "begun"]
  /\ UNCHANGED closed

End(t) ==
  /\ stage[t] = "begun"
  /\ stage' = [stage EXCEPT ![t] = "ended"]
  /\ UNCHANGED <<waiting, closed>>

\* The n oldest tasks are given up, and from now on nothing begins.
Discard(n) ==
  /\ closed' = TRUE
  /\ waiting' = SubSeq(waiting, n + 1, Len(waiting))
  /\ stage' = [t \in Tasks |->
                 IF \E i \in 1 .. n : waiting[i] = t THEN "unrun" ELSE stage[t]]

Next ==
  \/ Open \/ Begin
  \/ \E t \in Tasks : Accept(t) \/ Refuse(t) \/ End(t)
  \/ \E n \in 0 .. Len(waiting) : Discard(n)

Spec == Init /\ [][Next]_tqvars
=============================================================================
