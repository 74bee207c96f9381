------------------------------ MODULE UndoStack ------------------------------
(***************************************************************************)
(* src/src/cmp_undo_redo.c: an array of the last states of a document and  *)
(* a position in it.  A push that is out of memory has already dropped the *)
(* oldest state of a full array.                                           *)
(***************************************************************************)
EXTENDS Integers

CONSTANT Limit   \* the size of the array, 10 in the code

ASSUME LimitAssumption == Limit \in Nat \ {0, 1}

VARIABLES
  count,      \* internal_stack->count
  position,   \* internal_stack->position
  read        \* the element that the last undo read, from 1; 0 when none

undoVars == <<count, position, read>>

UndoInit == count = 0 /\ position = 0 /\ read = 0

\* A plausible bug: the array counts as full when the position is at its end.
RoomMadeByPosition == IF position >= Limit THEN count - 1 ELSE count

\* How many states are left when there must be room for one more.
RoomMade == IF count >= Limit THEN count - 1 ELSE count

PushState ==
  /\ read' = 0
  /\ \/ count' = RoomMade + 1 /\ position' = RoomMade + 1
     \/ count' = RoomMade /\ UNCHANGED position

\* cmp_undo_redo_undo; before the oldest state there is the empty text.
Undo ==
  /\ position > 0
  /\ position' = position - 1
  /\ read' = position - 1
  /\ UNCHANGED count

UndoNext == PushState \/ Undo
UndoSpec == UndoInit /\ [][UndoNext]_undoVars

-----------------------------------------------------------------------------
(* An undo reads a state the array still has.  A failed push leaves position *)
(* one ahead of count, which an undo makes up for by reading below it: two   *)
(* ahead would be the pointer that memmove left behind, freed later.         *)
UndoReadsLiveState == read <= count
=============================================================================
