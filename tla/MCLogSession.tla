---------------------------- MODULE MCLogSession ----------------------------
(* TLC instances of LogSession. *)
EXTENDS LogSession, TLC

CONSTANTS r1, r2

(* A rule of the user's after the built-in one, and, its id changed, in its *)
(* place: lists that differ in length and in what they run first.           *)
RuleLists == {<<r1, r2>>, <<r2>>}

(* Logs are interchangeable, and so are commands. *)
Symmetry == Permutations(Logs) \cup Permutations(Tasks)
=============================================================================
