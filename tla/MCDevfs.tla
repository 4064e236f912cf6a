------------------------------ MODULE MCDevfs ------------------------------
(* Devfs for TLC: processes are interchangeable.                           *)
EXTENDS Devfs, TLC

ProcSymmetry == Permutations(Procs)
=============================================================================
