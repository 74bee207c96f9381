----------------------------- MODULE MCCondition -----------------------------
(***************************************************************************)
(* Instances of Condition for TLC: one waiter and two notifiers, where no  *)
(* wake-up is lost, and two waiters, where one is.                         *)
(***************************************************************************)
EXTENDS Condition, TLC
=============================================================================
