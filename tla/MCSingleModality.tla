-------------------------- MODULE MCSingleModality --------------------------
(***************************************************************************)
(* Instances of SingleModality for TLC.  Tasks bounds how much is queued,  *)
(* MaxDepth how deep a task runs the loop inside itself.                   *)
(***************************************************************************)
EXTENDS SingleModality, TLC
=============================================================================
