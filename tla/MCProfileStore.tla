--------------------------- MODULE MCProfileStore ---------------------------
(* TLC instances of ProfileStore. *)
EXTENDS ProfileStore

AllOrOne == {RuleIds, {1}}
=============================================================================
