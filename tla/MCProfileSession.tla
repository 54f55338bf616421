-------------------------- MODULE MCProfileSession --------------------------
(* TLC instances of ProfileSession. *)
EXTENDS ProfileSession, TLC

(* Files are interchangeable, and so are pending saves. *)
Symmetry == Permutations(Paths) \cup Permutations(Saves)
=============================================================================
