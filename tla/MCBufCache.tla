----------------------------- MODULE MCBufCache -----------------------------
(* Symmetry of the instances that TLC checks: processes, buffers and blocks *)
(* are interchangeable.                                                     *)
EXTENDS BufCache, TLC

Symmetry == Permutations(Procs) \cup Permutations(Bufs) \cup Permutations(Blocks)
=============================================================================
