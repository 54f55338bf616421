---------------------------- MODULE MCRuleFiles ----------------------------
(* TLC instances of RuleFiles: two directories, two names that are listed  *)
(* and one that only safe_filename accepts.                                *)
EXTENDS RuleFiles, TLC

Symmetry == Permutations(Ops)

(* In each directory a rule that overrides the catalogue's, beside a file  *)
(* that does not parse.                                                    *)
MCDisks ==
  {[d \in Dirs |-> [n \in Names |->
      CASE n = "a.yml" -> "cat" [] n = "b.yaml" -> Broken [] OTHER -> NoFile]]}
=============================================================================
