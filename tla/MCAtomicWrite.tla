--------------------------- MODULE MCAtomicWrite ----------------------------
(* TLC instances of AtomicWrite. *)
EXTENDS AtomicWrite, TLC

(* Calls are interchangeable, and so are contents. *)
Symmetry == Permutations(Writers) \cup Permutations(Contents)
=============================================================================
