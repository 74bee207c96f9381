-------------------------------- MODULE MCVfs --------------------------------
(***************************************************************************)
(* Instances of Vfs for TLC: two workers, two reads of which one has no    *)
(* callback, and two mounts of which one matches both reads.               *)
(***************************************************************************)
EXTENDS Vfs, TLC

CONSTANTS r1, r2, e1, e2   \* the reads and the mount entries

Overlapping == {<<e1, r1>>, <<e1, r2>>, <<e2, r2>>}
=============================================================================
