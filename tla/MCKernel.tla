------------------------------ MODULE MCKernel ------------------------------
(***************************************************************************)
(* Instances of KernelInv for TLC.  The levels' quanta and allotments keep *)
(* their order (1, 2, 4 and 5, 10, 100 ticks in the code) and are as short *)
(* as lets every counter be below, at and past its limit.                  *)
(***************************************************************************)
EXTENDS KernelInv, TLC

Quantum111   == [l \in Levels |-> 1]
Quantum122   == [l \in Levels |-> IF l = 0 THEN 1 ELSE 2]
Allotment111 == [l \in Levels |-> 1]

(* Arguments of set_cpu_share, which does not reject a negative one: with  *)
(* these the MLFQ can be left with nothing, and a share be given back.     *)
SomeShares == {-20, 0, 100}

(* No step tells one CPU from another.                                     *)
CpuSymmetry == Permutations(CPUs)
=============================================================================
