------------------------------- MODULE MCTimer -------------------------------
(***************************************************************************)
(* Instances of Timer for TLC: two timers, a millisecond of two units and  *)
(* an unsigned int of eight values, so that an interval of 4 wraps to 0.   *)
(***************************************************************************)
EXTENDS Timer, TLC

CONSTANTS a, b   \* the two timers

\* The callback of a may stop b; a callback may stop its own timer.
OneWay  == {<<a, b>>}
ItsOwn  == {<<a, a>>}
Nothing == {}
=============================================================================
