---------------------------- MODULE MCCycleTimers ----------------------------
(* Instance of CycleTimers for TLC: more timers than slots, so that the     *)
(* pool may run out of them.                                               *)
EXTENDS CycleTimers

MCDelays == {-1, 0, 1, 3}
==============================================================================
