------------------------- MODULE MCThreadedModality -------------------------
(***************************************************************************)
(* Instances of ThreadedModality for TLC.  Tasks and MaxInits bound how    *)
(* much is queued and how often the modality is created again.             *)
(***************************************************************************)
EXTENDS ThreadedModality, TLC
=============================================================================
