---------------------------- MODULE MCInterrupts ----------------------------
(* Instances of Interrupts for TLC: vector 1 has priority over vector 2.   *)
EXTENDS Interrupts

MCVectors == {1, 2}
MCSticky == {2}
Gcc == {"index_first"}
=============================================================================
