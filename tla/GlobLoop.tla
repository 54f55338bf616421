------------------------------ MODULE GlobLoop ------------------------------
(***************************************************************************)
(* glob_match_inner of matcher.rs, and the same loop in exposure.rs        *)
(* (glob_matches): one pass over the text that goes back to the last `*`   *)
(* whenever a character does not fit.  Positions count from 1 here.        *)
(***************************************************************************)
EXTENDS Globs

CONSTANTS
  Letters,    \* characters of a text; no host or program name holds a `*`
  Patterns,   \* patterns and
  Texts       \* texts to be matched

ASSUME LoopAssumption ==
  /\ Star \notin Letters
  /\ Patterns \subseteq Seq(Letters \cup {Star, Query})
  /\ Texts \subseteq Seq(Letters)

VARIABLES
  pattern, text, \* the arguments
  pi, ti,        \* where the loop is in each
  star,          \* the last `*` passed, or 0 for usize::MAX
  back,          \* where the text it took ends
  phase,         \* text (the first loop), rest (the second), done
  result

loopVars == <<pattern, text, pi, ti, star, back, phase, result>>

LoopInit ==
  /\ pattern \in Patterns /\ text \in Texts
  /\ pi = 1 /\ ti = 1
  /\ star = 0 /\ back = 1
  /\ phase = "text" /\ result = FALSE

MoreText == phase = "text" /\ ti <= Len(text)
OnPiece  == pi <= Len(pattern) /\ Accepts(pattern[pi], text[ti])
OnStar   == pi <= Len(pattern) /\ ~ OnPiece /\ pattern[pi] = Star

Take ==
  /\ MoreText /\ OnPiece
  /\ pi' = pi + 1 /\ ti' = ti + 1
  /\ UNCHANGED <<pattern, text, star, back, phase, result>>

PassStar ==
  /\ MoreText /\ OnStar
  /\ star' = pi /\ back' = ti
  /\ pi' = pi + 1
  /\ UNCHANGED <<pattern, text, ti, phase, result>>

(* Mutated form: the text is read on from where it was. *)
GoBackInPatternOnly ==
  /\ MoreText /\ ~ OnPiece /\ ~ OnStar /\ star # 0
  /\ pi' = star + 1 /\ back' = back + 1 /\ ti' = ti + 1
  /\ UNCHANGED <<pattern, text, star, phase, result>>

(* Mutated form: the star takes no more than it had. *)
GoBackInPlace ==
  /\ MoreText /\ ~ OnPiece /\ ~ OnStar /\ star # 0
  /\ pi' = star + 1 /\ ti' = back
  /\ UNCHANGED <<pattern, text, star, back, phase, result>>

(* The last star takes one character more. *)
GoBack ==
  /\ MoreText /\ ~ OnPiece /\ ~ OnStar /\ star # 0
  /\ pi' = star + 1 /\ back' = back + 1 /\ ti' = back'
  /\ UNCHANGED <<pattern, text, star, phase, result>>

GiveUp ==
  /\ MoreText /\ ~ OnPiece /\ ~ OnStar /\ star = 0
  /\ phase' = "done" /\ result' = FALSE
  /\ UNCHANGED <<pattern, text, pi, ti, star, back>>

TextEnds ==
  /\ phase = "text" /\ ti > Len(text)
  /\ phase' = "rest"
  /\ UNCHANGED <<pattern, text, pi, ti, star, back, result>>

SkipStar ==
  /\ phase = "rest" /\ pi <= Len(pattern) /\ pattern[pi] = Star
  /\ pi' = pi + 1
  /\ UNCHANGED <<pattern, text, ti, star, back, phase, result>>

Answer ==
  /\ phase = "rest" /\ ~ (pi <= Len(pattern) /\ pattern[pi] = Star)
  /\ phase' = "done" /\ result' = (pi > Len(pattern))
  /\ UNCHANGED <<pattern, text, pi, ti, star, back>>

LoopNext == Take \/ PassStar \/ GoBack \/ GiveUp \/ TextEnds \/ SkipStar \/ Answer

(* The loop is not interrupted. *)
LoopFairness == WF_loopVars(LoopNext)

LoopSpec == LoopInit /\ [][LoopNext]_loopVars /\ LoopFairness

-----------------------------------------------------------------------------
(* Every variable has its type: no index leaves the pattern or the text.   *)
LoopTypeOK ==
  /\ pattern \in Patterns /\ text \in Texts
  /\ pi \in 1 .. (Len(pattern) + 1) /\ ti \in 1 .. (Len(text) + 1)
  /\ star \in 0 .. Len(pattern) /\ back \in 1 .. (Len(text) + 1)
  /\ phase \in {"text", "rest", "done"} /\ result \in BOOLEAN

(* The loop remembers one `*` only, and gives the answer that trying every *)
(* length for every `*` would give.                                        *)
AnswerRight == phase = "done" => (result <=> Matches(pattern, text))

(* Going back never loops: the answer comes.                               *)
Terminates == <>(phase = "done")

(* A glob that glob_covers_glob takes to cover another matches every text  *)
(* that the other matches.                                                 *)
GlobCoverSound ==
  phase = "done" /\ result /\ IsGlob(pattern) =>
    \A q \in Patterns : IsGlob(q) /\ GlobCovers(q, pattern) => Matches(q, text)
=============================================================================
