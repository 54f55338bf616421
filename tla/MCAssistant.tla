---------------------------- MODULE MCAssistant ----------------------------
(* TLC instances of Assistant. *)
EXTENDS Assistant, TLC

(* Conversations, receivers and in-flight calls are interchangeable. *)
Symmetry == Permutations(Threads) \cup Permutations(Places) \cup Permutations(Asks)
=============================================================================
