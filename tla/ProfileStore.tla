---------------------------- MODULE ProfileStore ----------------------------
(***************************************************************************)
(* apps/desktop/src/stores/profile-store.tsx: the rules of the loaded      *)
(* profile, undo and redo, and the row indices that the selection, the     *)
(* detail panel and the confirmation of a bulk delete hold on to, with the *)
(* handlers of RuleModule, RuleTable and BulkToolbar that use them.        *)
(*                                                                         *)
(* Rows are numbered from 1 here and from 0 in the code; a position to     *)
(* insert at is the number of rows before it, in both.                     *)
(***************************************************************************)
EXTENDS Integers, FiniteSets, Sequences, SequencesExt

CONSTANTS
  NRules,       \* rules of a profile as it is loaded
  MaxHistory,   \* MAX_HISTORY
  MaxRows,      \* bound on the length of a profile
  MaxChanges,   \* bound on `revision`
  Filters,      \* sets of rules that a search may show
  NoProfile,    \* `profile` is null
  NoRow,        \* a row index is null
  Undefined     \* what reading past the end of an array gives

RuleIds   == 1 .. (NRules + MaxChanges)
Rule      == [id : RuleIds, on : BOOLEAN]
Rows      == 1 .. MaxRows
Documents == Seq(Rule \cup {Undefined})

ASSUME StoreAssumption ==
  /\ MaxRows \in Nat /\ NRules \in 0 .. MaxRows
  /\ MaxHistory \in Nat \ {0} /\ MaxChanges \in Nat
  /\ NoRow \notin Nat
  /\ NoProfile \notin Documents

VARIABLES
  rules,      \* profile.rules, or NoProfile
  dirty,
  revision,
  undo,       \* undoStack
  redo,       \* redoStack
  sel,        \* selectedIndices
  anchor,     \* lastAnchor, outside the store's state
  detail,     \* detailIndex
  asking,     \* the rows the open "Delete n rules?" dialog is about
  shown,      \* rules that the search in the table lets through
  fresh       \* history: rules made so far, to name the next one

vars == <<rules, dirty, revision, undo, redo, sel, anchor, detail, asking, shown, fresh>>
view == <<sel, anchor, detail, asking, shown>>

Loaded  == rules # NoProfile
NoDialog == asking = {}   \* its overlay stops the mouse, not the hotkeys
Fresh   == [i \in 1 .. NRules |-> [id |-> i, on |-> TRUE]]

Init ==
  /\ rules = NoProfile
  /\ dirty = FALSE
  /\ revision = 0
  /\ undo = <<>> /\ redo = <<>>
  /\ sel = {} /\ anchor = NoRow /\ detail = NoRow
  /\ asking = {}
  /\ shown \in Filters
  /\ fresh = NRules

-----------------------------------------------------------------------------
(* The rows I of an array, in order. *)
Ordered(I) ==
  CHOOSE row \in Bijection(1 .. Cardinality(I), I) :
    \A j, k \in DOMAIN row : j < k => row[j] < row[k]
At(s, I) ==
  LET row == Ordered(I)
  IN  [k \in 1 .. Cardinality(I) |->
         IF row[k] \in DOMAIN s THEN s[row[k]] ELSE Undefined]

(* Mutated form: the target is not moved up by the rows taken out before it. *)
ReorderUnadjusted(s, I, target) ==
  LET remaining == At(s, DOMAIN s \ I)
      place     == IF target > Len(remaining) THEN Len(remaining) ELSE target
  IN  IF I = {} THEN s
      ELSE SubSeq(remaining, 1, place) \o At(s, I)
             \o SubSeq(remaining, place + 1, Len(remaining))

(* Mutated form: the moved rows are left where they were, too. *)
ReorderCopying(s, I, target) ==
  IF I = {} THEN s
  ELSE SubSeq(s, 1, target) \o At(s, I) \o SubSeq(s, target + 1, Len(s))

(* reorderRules: `target` is a place in the original array. *)
Reorder(s, I, target) ==
  LET remaining == At(s, DOMAIN s \ I)
      adjusted  == target - Cardinality({i \in I : i <= target})
      place     == IF adjusted > Len(remaining) THEN Len(remaining) ELSE adjusted
  IN  IF I = {} THEN s
      ELSE SubSeq(remaining, 1, place) \o At(s, I)
             \o SubSeq(remaining, place + 1, Len(remaining))

(* commit(), when the mutation returned a new array.                         *)
Commit(next) ==
  /\ revision < MaxChanges
  /\ rules' = next
  /\ undo' = LET u == Append(undo, rules)
             IN  IF Len(u) > MaxHistory THEN Tail(u) ELSE u
  /\ redo' = <<>>
  /\ dirty' = TRUE
  /\ revision' = revision + 1

(* setLoaded, from opening a file. *)
SetLoaded ==
  /\ revision < MaxChanges
  /\ rules' = Fresh
  /\ dirty' = FALSE
  /\ revision' = revision + 1
  /\ undo' = <<>> /\ redo' = <<>>
  /\ sel' = {} /\ detail' = NoRow
  /\ UNCHANGED <<anchor, asking, shown, fresh>>

MarkSaved ==
  /\ dirty' = FALSE
  /\ UNCHANGED <<rules, revision, undo, redo, view, fresh>>

Clear ==
  /\ Loaded /\ revision < MaxChanges /\ NoDialog
  /\ rules' = NoProfile
  /\ dirty' = FALSE
  /\ revision' = revision + 1
  /\ undo' = <<>> /\ redo' = <<>>
  /\ sel' = {} /\ detail' = NoRow
  /\ UNCHANGED <<anchor, asking, shown, fresh>>

-----------------------------------------------------------------------------
(* toggleSelection of a row of the table, in its three modes. *)
SelectSingle(i) ==
  /\ sel' = {i}
  /\ anchor' = i
SelectToggle(i) ==
  /\ sel' = IF i \in sel THEN sel \ {i} ELSE sel \cup {i}
  /\ anchor' = i
SelectRange(i) ==
  IF anchor = NoRow
  THEN sel' = sel \cup {i} /\ anchor' = i
  ELSE sel' = sel \cup (i .. anchor) \cup (anchor .. i) /\ UNCHANGED anchor
Visible(i) == NoDialog /\ Loaded /\ i \in DOMAIN rules /\ rules[i] # Undefined /\ rules[i].id \in shown
ToggleSelection(i) ==
  /\ Visible(i)
  /\ SelectSingle(i) \/ SelectToggle(i) \/ SelectRange(i)
  /\ UNCHANGED <<rules, dirty, revision, undo, redo, detail, asking, shown, fresh>>

ClearSelection ==
  /\ sel' = {}
  /\ UNCHANGED <<rules, dirty, revision, undo, redo, anchor, detail, asking, shown, fresh>>

(* openDetail on a row, or null when the panel is closed. *)
OpenDetail(i) ==
  /\ i = NoRow \/ Visible(i)   \* Escape closes the panel
  /\ detail' = i
  /\ UNCHANGED <<rules, dirty, revision, undo, redo, sel, anchor, asking, shown, fresh>>

(* The search field. *)
Search(f) ==
  /\ NoDialog
  /\ shown' = f
  /\ UNCHANGED <<rules, dirty, revision, undo, redo, sel, anchor, detail, asking, fresh>>

-----------------------------------------------------------------------------
Undo ==
  /\ Loaded /\ undo # <<>> /\ revision < MaxChanges
  /\ rules' = Last(undo)
  /\ undo' = Front(undo)
  /\ redo' = Append(redo, rules)
  /\ dirty' = TRUE
  /\ revision' = revision + 1
  /\ UNCHANGED <<view, fresh>>

(* Mutated form: redo does not push the state it leaves. *)
RedoOneWay ==
  /\ Loaded /\ redo # <<>> /\ revision < MaxChanges
  /\ rules' = Last(redo)
  /\ redo' = Front(redo)
  /\ dirty' = TRUE
  /\ revision' = revision + 1
  /\ UNCHANGED <<undo, view, fresh>>

Redo ==
  /\ Loaded /\ redo # <<>> /\ revision < MaxChanges
  /\ rules' = Last(redo)
  /\ redo' = Front(redo)
  /\ undo' = Append(undo, rules)
  /\ dirty' = TRUE
  /\ revision' = revision + 1
  /\ UNCHANGED <<view, fresh>>

(* toggleRule, and updateRule from the detail panel with a changed field: a  *)
(* row that is not there is no change.                                       *)
ToggleRule(i) ==
  /\ Loaded /\ NoDialog /\ i \in DOMAIN rules /\ rules[i] # Undefined
  /\ Visible(i) \/ i = detail
  /\ Commit([rules EXCEPT ![i].on = ~@])
  /\ UNCHANGED <<view, fresh>>

Enabled(s, I, b) ==
  [i \in DOMAIN s |-> IF i \in I /\ s[i] # Undefined THEN [s[i] EXCEPT !.on = b] ELSE s[i]]
SetEnabledMany(b) ==
  /\ Loaded /\ sel # {}
  /\ Enabled(rules, sel, b) # rules
  /\ Commit(Enabled(rules, sel, b))
  /\ UNCHANGED <<view, fresh>>

(* deleteRules, then clearSelection: by the Delete key on the selection...   *)
DeleteRows(I) ==
  /\ Loaded
  /\ Commit(At(rules, DOMAIN rules \ I))
  /\ sel' = {}
DeleteKey ==
  /\ sel # {}
  /\ DeleteRows(sel)
  /\ UNCHANGED <<anchor, detail, asking, shown, fresh>>

(* ... or by the toolbar, which asks first and keeps the rows it asked about *)
AskDelete ==
  /\ Loaded /\ sel # {} /\ asking = {}
  /\ asking' = sel
  /\ UNCHANGED <<rules, dirty, revision, undo, redo, sel, anchor, detail, shown, fresh>>
CancelDelete ==
  /\ asking # {}
  /\ asking' = {}
  /\ UNCHANGED <<rules, dirty, revision, undo, redo, sel, anchor, detail, shown, fresh>>
ConfirmDelete ==
  /\ asking # {}
  /\ DeleteRows(asking)
  /\ asking' = {}
  /\ UNCHANGED <<anchor, detail, shown, fresh>>

(* duplicateRules: a copy after each selected row, from the last to the first: *)
(* row i stands at 2i - 1 and its copy at 2i, where there is one.            *)
Copied(s, I) == {i \in I : i \in DOMAIN s /\ s[i] # Undefined}
Twice(s, I) ==
  LET copy(i) == [s[i] EXCEPT !.id = fresh + Cardinality({j \in I : j <= i})]
      pairs   == [k \in 1 .. (2 * Len(s)) |->
                    IF k % 2 = 1 THEN s[(k + 1) \div 2]
                    ELSE IF k \div 2 \in I THEN copy(k \div 2) ELSE Undefined]
  IN  At(pairs, {2 * i - 1 : i \in DOMAIN s} \cup {2 * i : i \in I})
Duplicate ==
  /\ Loaded /\ NoDialog /\ sel # {}
  /\ LET rows == Copied(rules, sel)
     IN  /\ rows # {} /\ Len(rules) + Cardinality(rows) <= MaxRows
         /\ fresh + Cardinality(rows) \in RuleIds
         /\ Commit(Twice(rules, rows))
         /\ fresh' = fresh + Cardinality(rows)
  /\ UNCHANGED view

(* moveRulesToTop, moveRulesToBottom of the selection; a drag of one row. *)
MoveTo(I, target) ==
  /\ Loaded /\ NoDialog /\ I # {}
  /\ Len(rules) + Cardinality(I \ DOMAIN rules) <= MaxRows
  /\ Commit(Reorder(rules, I, target))
  /\ UNCHANGED <<view, fresh>>
MoveToTop    == MoveTo(sel, 0)
MoveToBottom == Loaded /\ MoveTo(sel, Len(rules))
Drag(i, j) ==
  /\ Visible(i) /\ Visible(j) /\ i # j
  /\ MoveTo({i}, IF i < j THEN j ELSE j - 1)

(* onAddRule: insertRule after the open row, or at the end, and open it. *)
AddRule ==
  /\ Loaded /\ NoDialog /\ Len(rules) < MaxRows /\ fresh + 1 \in RuleIds
  /\ LET place == IF detail = NoRow \/ detail > Len(rules) THEN Len(rules) ELSE detail
     IN  Commit(InsertAt(rules, place + 1, [id |-> fresh + 1, on |-> TRUE]))
  /\ detail' = IF detail = NoRow THEN Len(rules) + 1 ELSE detail + 1
  /\ fresh' = fresh + 1
  /\ UNCHANGED <<sel, anchor, asking, shown>>

Next ==
  \/ SetLoaded \/ MarkSaved \/ Clear
  \/ ClearSelection
  \/ OpenDetail(NoRow)
  \/ \E i \in Rows : ToggleSelection(i) \/ OpenDetail(i) \/ ToggleRule(i)
  \/ \E f \in Filters : Search(f)
  \/ Undo \/ Redo
  \/ \E b \in BOOLEAN : SetEnabledMany(b)
  \/ DeleteKey \/ AskDelete \/ CancelDelete \/ ConfirmDelete
  \/ Duplicate
  \/ MoveToTop \/ MoveToBottom
  \/ \E i, j \in Rows : Drag(i, j)
  \/ AddRule

Spec == Init /\ [][Next]_vars

-----------------------------------------------------------------------------
(* Type invariant. *)
IsDocument(s) == DOMAIN s = 1 .. Len(s) /\ Len(s) <= MaxRows /\ \A i \in DOMAIN s : s[i] \in Rule \cup {Undefined}
TypeOK ==
  /\ rules = NoProfile \/ IsDocument(rules)
  /\ dirty \in BOOLEAN
  /\ revision \in 0 .. MaxChanges
  /\ \A i \in DOMAIN undo : IsDocument(undo[i])
  /\ \A i \in DOMAIN redo : IsDocument(redo[i])
  /\ sel \subseteq Rows /\ asking \subseteq Rows
  /\ anchor \in Rows \cup {NoRow}
  /\ detail \in 1 .. (MaxRows + 1 + MaxChanges) \cup {NoRow}
  /\ shown \in Filters
  /\ fresh \in 0 .. (NRules + MaxChanges)
  /\ rules = NoProfile => undo = <<>> /\ redo = <<>> /\ ~dirty

(* No rule is ever in the profile twice: no sequence of moves, undos and     *)
(* deletes by index makes two rows of one rule, or of a rule and its copy.   *)
RulesDistinct ==
  Loaded => \A i, j \in DOMAIN rules :
    i # j /\ rules[i] # Undefined /\ rules[j] # Undefined => rules[i].id # rules[j].id

(* The comment of reorderRules: the moved rows stand together before the row *)
(* that was at `target`, and everybody else keeps the order they had.        *)
Moved(s, I, target) ==
  At(s, (1 .. target) \ I) \o At(s, I) \o At(s, ((target + 1) .. Len(s)) \ I)
MovesKeepOrder ==
  [][/\ \A i, j \in Rows : Drag(i, j) =>
            rules' = Moved(rules, {i}, IF i < j THEN j ELSE j - 1)
     /\ Loaded /\ sel \subseteq DOMAIN rules =>
            /\ MoveToTop => rules' = Moved(rules, sel, 0)
            /\ MoveToBottom => rules' = Moved(rules, sel, Len(rules))]_vars

(* Every behaviour of the store is one of a linear edit history.             *)
History == INSTANCE EditHistory WITH
  line <- IF Loaded THEN Append(undo, rules) \o Reverse(redo) ELSE <<>>,
  at   <- IF Loaded THEN Len(undo) + 1 ELSE 0
HistorySpec == History!Spec

(* `rules[i]!` in reorderRules asserts that the row exists: the array never  *)
(* holds anything that is not a rule.                                        *)
RulesAreRules == Loaded => \A i \in DOMAIN rules : rules[i] # Undefined

(* profile-store.tsx, selectedIndices: "the table UI intersects with the     *)
(* visible subset": the Delete key removes no rule that the search hides.    *)
DeletesVisibleOnly ==
  [][DeleteKey => \A i \in sel \cap DOMAIN rules :
       rules[i] # Undefined => rules[i].id \in shown]_vars
=============================================================================
