---------------------------- MODULE EditHistory -----------------------------
(***************************************************************************)
(* What undo and redo promise: the states of the document since it was     *)
(* loaded lie on a line, undo and redo walk along it without changing it,  *)
(* and an edit replaces what lies ahead.  The oldest state may be          *)
(* forgotten, but only to make room for an edit.                           *)
(***************************************************************************)
EXTENDS Naturals, Sequences

VARIABLES
  line,   \* the states that undo and redo can reach, oldest first
  at      \* the place of the current one; 0 while there is no document

vars == <<line, at>>

Init == line = <<>> /\ at = 0

Load ==
  /\ Len(line') = 1
  /\ at' = 1

Close ==
  /\ line' = <<>>
  /\ at' = 0

(* Any new state may follow the current one. *)
Edit ==
  /\ at > 0
  /\ at' = Len(line') /\ at' > 0
  /\ SubSeq(line', 1, at' - 1) \in {SubSeq(line, 1, at), SubSeq(line, 2, at)}

Undo ==
  /\ at > 1
  /\ at' = at - 1
  /\ UNCHANGED line

Redo ==
  /\ at < Len(line)
  /\ at' = at + 1
  /\ UNCHANGED line

Next ==
  \/ Load
  \/ Edit
  \/ Close
  \/ Undo
  \/ Redo

Spec == Init /\ [][Next]_vars
=============================================================================
