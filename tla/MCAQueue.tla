------------------------------ MODULE MCAQueue ------------------------------
(* Instances of AQueue for TLC. *)
EXTENDS AQueue, TLC

(* Caller threads are interchangeable, and so are the pool's. *)
Symm == Permutations(Callers) \cup Permutations(Pool)
=============================================================================
