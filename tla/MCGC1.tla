---------------------------------- MODULE MCGC1 ----------------------------------
(* Model values for GC1: addresses that do not begin with a zero byte are        *)
(* interchangeable, and so are registers.                                        *)
EXTENDS GC1, TLC

Symmetric == Permutations(Objs \ LowZero) \cup Permutations(Regs)
================================================================================
