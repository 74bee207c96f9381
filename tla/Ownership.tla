------------------------------ MODULE Ownership ------------------------------
(***************************************************************************)
(* The life of one object of any class of the library: it is created, its  *)
(* calls are made as often as one likes and in any order, and it is        *)
(* destroyed.  Every allocation may fail and every optional argument may   *)
(* be missing.  A class is a record of calls, create and destroy among     *)
(* them, each a sequence of the statements of Statements.                  *)
(***************************************************************************)
EXTENDS Statements

CONSTANTS
  Classes,     \* a function from the names of the classes to the classes
  KnownFaults  \* what goes wrong in the code: triples <<class, fault, call>>

StatementSet ==
  {s \in [op : STRING, on : STRING, with : SUBSET (STRING \ {""}), governs : Nat] :
     s.op \in {"maybe", "fails"} \/ s.on # ""}

ASSUME ClassesAssumption ==
  \A c \in DOMAIN Classes :
    /\ {"create", "destroy"} \subseteq DOMAIN Classes[c]
    /\ \A k \in DOMAIN Classes[c] : k # "none" /\ Classes[c][k] \in Seq(StatementSet)

VARIABLES
  class,
  call, pc,    \* the call that is being made, or "none", and its next statement
  phase,       \* "new", "ready", "failed" (when it was created) or "gone"
  field,       \* NULL, a block, or a block that was freed
  faults       \* pairs <<fault, call>> of what has gone wrong

vars == <<class, call, pc, phase, field, faults>>

Faults == {"leaked", "freed twice", "misused"}

Fields(c) ==
  {f \in UNION {UNION {{Classes[c][k][i].on} \cup Classes[c][k][i].with :
                         i \in 1 .. Len(Classes[c][k])} : k \in DOMAIN Classes[c]} :
     f # ""}

Init ==
  /\ class \in DOMAIN Classes
  /\ call = "create" /\ pc = 1 /\ phase = "new"
  /\ field = [f \in Fields(class) |-> "null"]
  /\ faults = {}

Program == Classes[class][call]
Running == call # "none" /\ pc <= Len(Program)
Here    == Program[pc]
At(ops) == Running /\ Here.op \in ops

Past(n)      == pc' = pc + 1 + n /\ UNCHANGED <<class, call, phase>>
Blame(fault) == faults \cup {<<fault, call>>}

\* The fields after some of them were freed, and what was wrong with that.
Freed(fs)     == [f \in DOMAIN field |->
                    IF f \in fs /\ field[f] = "block" THEN "freed" ELSE field[f]]
FreeFault(fs) == IF \E f \in fs : field[f] = "freed" THEN Blame("freed twice") ELSE faults

\* The call ends with the fields fs: a block that only a local variable points
\* to is lost, as is every block of an object that is not there any more.
Returns(fs, ok, wrong) ==
  LET over == call = "destroy" \/ (call = "create" /\ ~ok)
      lost == {f \in DOMAIN fs : fs[f] = "block" /\ (over \/ f \in Locals)}
  IN  /\ call' = "none" /\ pc' = 0 /\ UNCHANGED class
      /\ phase' = CASE call = "destroy" -> "gone"
                    [] call = "create"  -> IF ok THEN "ready" ELSE "failed"
                    [] OTHER            -> phase
      /\ field' = [f \in DOMAIN fs |-> IF f \in Locals \/ over THEN "null" ELSE fs[f]]
      /\ faults' = wrong \cup (IF lost = {} THEN {} ELSE {<<"leaked", call>>})

\* f gets a block; the one it pointed to before is lost.
Overwrites(f) == IF field[f] = "block" THEN Blame("leaked") ELSE faults

Succeed ==
  /\ At({"new", "try", "take"})
  /\ field' = [field EXCEPT ![Here.on] = "block"]
  /\ faults' = Overwrites(Here.on)
  /\ Past(0)

Fail ==
  /\ At({"new", "fails"})
  /\ Returns(Freed(Here.with), FALSE, FreeFault(Here.with))

\* What governs other statements: they are passed over, or come next.
PassOver ==
  /\ \/ At({"maybe", "try"})
     \/ At({"ifnull"}) /\ field[Here.on] # "null"
     \/ At({"ifset"}) /\ field[Here.on] = "null"
  /\ Past(Here.governs)
  /\ UNCHANGED <<field, faults>>

GoOn ==
  /\ \/ At({"maybe"})
     \/ At({"ifnull"}) /\ field[Here.on] = "null"
     \/ At({"ifset"}) /\ field[Here.on] # "null"
  /\ Past(0)
  /\ UNCHANGED <<field, faults>>

FreeField ==
  /\ At({"free", "drop"})
  /\ field' = [Freed({Here.on}) EXCEPT ![Here.on] = IF At({"drop"}) THEN "null" ELSE @]
  /\ faults' = FreeFault({Here.on})
  /\ Past(0)

MoveField ==
  /\ At({"move", "add"})
  /\ \E g \in Here.with :
       field' = [field EXCEPT ![Here.on] = IF At({"add"}) /\ @ = "block" THEN @ ELSE field[g],
                              ![g] = "null"]
  /\ faults' = IF At({"add"}) THEN faults ELSE Overwrites(Here.on)
  /\ Past(0)

KeepBlock ==
  /\ At({"keep"})
  /\ field' = [field EXCEPT ![Here.on] = "block"]
  /\ Past(0) /\ UNCHANGED faults

UseField ==
  /\ At({"use"})
  /\ faults' = IF field[Here.on] = "block" THEN faults ELSE Blame("misused")
  /\ Past(0) /\ UNCHANGED field

Return ==
  /\ call # "none" /\ ~Running
  /\ Returns(field, TRUE, faults)

CallNext ==
  /\ phase = "ready" /\ call = "none"
  /\ call' \in DOMAIN Classes[class] \ {"create"}
  /\ pc' = 1
  /\ UNCHANGED <<class, phase, field, faults>>

Next ==
  \/ Succeed \/ Fail \/ PassOver \/ GoOn \/ FreeField \/ MoveField \/ KeepBlock
  \/ UseField \/ Return \/ CallNext

Spec == Init /\ [][Next]_vars

-----------------------------------------------------------------------------
(* A discipline that a reader can check, one free at a time: either the      *)
(* pointer gets another block at once, or nothing mentions it any more and   *)
(* it ends with the call, being a local variable or one of an object that is *)
(* destroyed.  A call that may fail half-way frees only what ends with it.   *)

Mentions(s, f) == s.on = f \/ f \in s.with

ReplacedAtOnce(p, i) ==
  /\ i < Len(p)
  /\ p[i + 1].op \in {"move", "take", "keep"}
  /\ p[i + 1].on = p[i].on /\ p[i].on \notin p[i + 1].with

ForgottenAfter(p, i) == \A j \in i + 1 .. Len(p) : ~Mentions(p[j], p[i].on)

Tidy(c) ==
  \A k \in DOMAIN c : \A i \in 1 .. Len(c[k]) :
    /\ c[k][i].op = "free" =>
         \/ ReplacedAtOnce(c[k], i)
         \/ (k = "destroy" \/ c[k][i].on \in Locals) /\ ForgottenAfter(c[k], i)
    /\ c[k][i].op \in {"new", "fails"} =>
         k \in {"create", "destroy"} \/ c[k][i].with \subseteq Locals

-----------------------------------------------------------------------------
Unexpected(fault) ==
  {<<class, c>> : c \in {k \in DOMAIN Classes[class] :
                            <<fault, k>> \in faults /\ <<class, fault, k>> \notin KnownFaults}}

(* No block is lost but in the calls of KnownFaults, which are at odds with   *)
(* the zero leaks of ARCHITECTURE.md, line 10: whichever allocations fail     *)
(* and in whatever order the other calls are made, a creation that fails      *)
(* gives back what it had allocated, a setter that fails loses neither the    *)
(* old nor the new value, and destroy frees every block the object still has. *)
NothingLeaks == Unexpected("leaked") = {}

(* But in the calls of KnownFaults (cmp_ui_node_bind of cmp_orm.c, line 178,  *)
(* is one) no block is freed a second time, by a destroy that follows a       *)
(* setter which failed half-way least of all; and only classes with such a    *)
(* call are untidy.                                                           *)
FreedOnce ==
  /\ Unexpected("freed twice") = {}
  /\ Tidy(Classes[class]) \/ \E k \in DOMAIN Classes[class] :
                               <<class, "freed twice", k>> \in KnownFaults

(* No call follows a pointer whose block is gone.                            *)
UsesNothingFreed == At({"use"}) => field[Here.on] # "freed"

(* But for the calls of KnownFaults (an array whose capacity was doubled      *)
(* before it failed to grow, cmp_tab_navigation.c, line 65, is one) no call   *)
(* follows a pointer that is NULL or whose block is gone, after any failure   *)
(* of the calls before it.                                                    *)
UsesLiveBlocks == Unexpected("misused") = {}
=============================================================================
