---------------------------- MODULE MCDiagPool ----------------------------
(* Small instances of DiagPool.  Threads are interchangeable: no definition of*)
(* DiagPool chooses one of them. *)
EXTENDS DiagPool, TLC

Symmetry == Permutations(Thread)
=============================================================================
