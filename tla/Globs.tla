------------------------------- MODULE Globs -------------------------------
(***************************************************************************)
(* Glob patterns, as matcher.rs and exposure.rs of ppx-core use them: `*`  *)
(* stands for any run of characters, `?` for one.  Patterns and texts are  *)
(* sequences of characters, in lower case and trimmed.                     *)
(***************************************************************************)
EXTENDS Integers, Sequences, FiniteSets, SequencesExt

Star  == "*"
Query == "?"

IsGlob(s) == \E i \in DOMAIN s : s[i] \in {Star, Query}

(* A character of a pattern against one of a text. *)
Accepts(c, d) == c = Query \/ c = d

(* cut[i] is the position in the text where the i-th piece of the pattern  *)
(* begins: `*` takes any number of characters, everything else one.        *)
Fits(p, t, i, cut) ==
  \A k \in i .. Len(p) :
    IF p[k] = Star THEN cut[k] <= cut[k + 1]
    ELSE cut[k + 1] = cut[k] + 1 /\ Accepts(p[k], t[cut[k]])

Cuts(p, t) == [1 .. (Len(p) + 1) -> 1 .. (Len(t) + 1)]

(* The pattern from its i-th character matches the text from its j-th. *)
MatchesFrom(p, t, i, j) ==
  \E cut \in Cuts(p, t) :
    cut[i] = j /\ cut[Len(p) + 1] = Len(t) + 1 /\ Fits(p, t, i, cut)

(* What it means that a glob matches a text. *)
Matches(p, t) == MatchesFrom(p, t, 1, 1)

(* The same, one piece of the pattern at a time, from the last: the         *)
(* positions in the text at which it may begin.  Quick to evaluate.        *)
GlobMatches(p, t) ==
  LET from[i \in 1 .. (Len(p) + 1)] ==
        IF i > Len(p) THEN {Len(t) + 1}
        ELSE LET rest == from[i + 1]
             IN  IF p[i] = Star THEN {j \in 1 .. (Len(t) + 1) : \E k \in rest : j <= k}
                 ELSE {j \in 1 .. Len(t) : Accepts(p[i], t[j]) /\ j + 1 \in rest}
  IN 1 \in from[1]

-----------------------------------------------------------------------------
Stars(p) == {i \in DOMAIN p : p[i] = Star}

(* What stands before the first `*` and after the last. *)
LiteralHead(p) == SubSeq(p, 1, SelectInSeq(p, LAMBDA c : c = Star) - 1)
LiteralTail(p) == SubSeq(p, SelectLastInSeq(p, LAMBDA c : c = Star) + 1, Len(p))

(* Mutated form: pieces between two stars of `a` are not looked at. *)
GlobCoversEnds(a, b) ==
  \/ a = b \/ a = <<Star>>
  \/ /\ Query \notin ToSet(a) \cup ToSet(b)
     /\ IsPrefix(LiteralHead(a), LiteralHead(b))
     /\ IsSuffix(LiteralTail(a), LiteralTail(b))

(* glob_covers_glob of two globs.  The search for the interior pieces of `a` *)
(* is behind "b has no `*`", which a glob without `?` never satisfies.       *)
GlobCovers(a, b) ==
  \/ a = b \/ a = <<Star>>
  \/ /\ Query \notin ToSet(a) \cup ToSet(b)
     /\ IsPrefix(LiteralHead(a), LiteralHead(b))
     /\ IsSuffix(LiteralTail(a), LiteralTail(b))
     /\ Cardinality(Stars(a)) = 1
=============================================================================
