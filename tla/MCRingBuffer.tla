---------------------------- MODULE MCRingBuffer ----------------------------
(***************************************************************************)
(* Instances of RingBuffer for TLC.  A producer stops when every item has  *)
(* been offered; that is the bound on the length of a behaviour.           *)
(***************************************************************************)
EXTENDS RingBuffer, TLC
=============================================================================
