------------------------------ MODULE MCShadow ------------------------------
(* Shadow for TLC: the registers are interchangeable.                      *)
EXTENDS Shadow, TLC

Symmetry == Permutations(Regs)
=============================================================================
