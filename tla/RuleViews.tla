----------------------------- MODULE RuleViews -----------------------------
(***************************************************************************)
(* The two views that show an analysis of the profile's rules while the    *)
(* user edits them: the Rules tab with its marks on shadowed rules         *)
(* (RuleModule.tsx, a scan 400 ms after the last change) and the Exposure  *)
(* tab (exposure/queries.ts, a query keyed on a debounced revision).  Only *)
(* the visible tab is mounted.  Both ask a Tauri command                   *)
(* (commands/rules.rs) and are answered later.  The store is reduced to    *)
(* what the views read of it; ProfileStore has all of it.                  *)
(***************************************************************************)
EXTENDS Matcher

CONSTANTS
  RuleLists,    \* the rules of the files that are opened
  None,
  Ordered,      \* scans are answered in the order in which they were asked
  MaxChanges, MaxSwitches, MaxRefreshes, MaxFails

ASSUME ViewsAssumption ==
  /\ RuleLists \subseteq Seq([rule : Rules, enabled : BOOLEAN]) /\ None \notin RuleLists
  /\ Ordered \in BOOLEAN
  /\ {MaxChanges, MaxSwitches, MaxRefreshes, MaxFails} \subseteq Nat

VARIABLES
  rules,        \* profile.rules, or None when no profile is open
  revision,     \* of the profile store
  undoStack,    \* earlier rule lists
  tab,          \* the visible tab
  timer,        \* Rules tab: the rules the pending timeout will send, or None
  scans,        \* Rules tab: the rules of the scans under way, oldest first
  shadowPairs,  \* Rules tab: what the rows are marked with
  debounced,    \* Exposure tab: the revision in the query key
  query,        \* the query cache, by revision
  switches, refreshes, fails  \* how often, bounded

store  == <<rules, revision, undoStack>>
marks  == <<timer, scans, shadowPairs>>
graphs == <<debounced, query>>
counts == <<switches, refreshes, fails>>
vars   == <<store, tab, marks, graphs, counts>>

(* An entry of the query cache: the rules of the graph it holds and of the *)
(* request under way (None if none), and whether the last request failed.  *)
(* compute_exposure is a function of the profile.                          *)
Missing == [graph |-> None, asked |-> None, failed |-> FALSE]

Init ==
  /\ rules = None /\ revision = 0 /\ undoStack = <<>>
  /\ tab = "rules"
  /\ timer = None /\ scans = <<>> /\ shadowPairs = {}
  /\ debounced = 0 /\ query = [k \in 0 .. MaxChanges |-> Missing]
  /\ switches = 0 /\ refreshes = 0 /\ fails = 0

-----------------------------------------------------------------------------
(* A query observer asks when its key has no graph and no request.         *)
AskIfMissing(key, list) ==
  query' = IF query[key].graph = None /\ query[key].asked = None
           THEN [query EXCEPT ![key].asked = list, ![key].failed = FALSE]
           ELSE query

(* Mutated form: an edit while a timeout is pending does not restart it.   *)
RenderRulesOnce(list) ==
  /\ tab = "rules"
  /\ timer' = IF timer = None THEN list ELSE timer
  /\ shadowPairs' = IF list = None THEN {} ELSE shadowPairs
  /\ UNCHANGED <<scans, graphs>>

(* What a new profile, or none, does to the visible tab.  The effect of    *)
(* RuleModule clears its timeout and sets another for a profile; a scan    *)
(* under way is let go on.                                                 *)
RenderRules(list) ==
  /\ tab = "rules"
  /\ timer' = list
  /\ shadowPairs' = IF list = None THEN {} ELSE shadowPairs
  /\ UNCHANGED <<scans, graphs>>

(* The debounced key lags; only a query that was disabled, with no profile, *)
(* asks at once.                                                            *)
RenderExposure(list) ==
  /\ tab = "exposure"
  /\ IF rules = None THEN AskIfMissing(debounced, list) ELSE UNCHANGED query
  /\ UNCHANGED <<marks, debounced>>

SetRules(list) ==
  /\ revision < MaxChanges
  /\ rules' = list /\ revision' = revision + 1
  /\ RenderRules(list) \/ RenderExposure(list)
  /\ UNCHANGED <<tab, counts>>

(* Mutated form: only edits count as a revision. *)
LoadUncounted ==
  \E list \in RuleLists :
    /\ rules' = list /\ undoStack' = <<>>
    /\ RenderRules(list) \/ RenderExposure(list)
    /\ UNCHANGED <<revision, tab, counts>>

(* setLoaded, from the profile bar or, on any tab, the command palette *)
Load ==
  \E list \in RuleLists : SetRules(list) /\ undoStack' = <<>>

(* clear, from the profile bar of the Rules tab *)
Close ==
  /\ rules # None /\ tab = "rules"
  /\ SetRules(None) /\ undoStack' = <<>>

(* The edits, all of them on the Rules tab and through commit. *)
Commit(list) ==
  /\ rules # None /\ tab = "rules" /\ list # rules
  /\ SetRules(list)
  /\ undoStack' = Append(undoStack, rules)

Toggle == rules # None /\ \E i \in DOMAIN rules :
  Commit([rules EXCEPT ![i].enabled = ~ @])

Without(list, indices) ==
  LET kept == DOMAIN list \ indices
  IN  [k \in 1 .. Cardinality(kept) |-> list[CHOOSE i \in kept : Rank(kept, i) = k]]

Delete == rules # None /\ \E indices \in SUBSET DOMAIN rules :
  Commit(Without(rules, indices))

MoveToTop == rules # None /\ \E i \in DOMAIN rules :
  Commit(<<rules[i]>> \o RemoveAt(rules, i))

Undo ==
  /\ undoStack # <<>> /\ tab = "rules"
  /\ SetRules(Last(undoStack))
  /\ undoStack' = Front(undoStack)

-----------------------------------------------------------------------------
(* The Rules tab. *)

TimerFires ==
  /\ timer # None
  /\ scans' = Append(scans, timer) /\ timer' = None
  /\ UNCHANGED <<store, tab, shadowPairs, graphs, counts>>

ScanReplies ==
  \E i \in DOMAIN scans :
    /\ Ordered => i = 1
    /\ shadowPairs' = OvershadowPairs(scans[i])
    /\ scans' = RemoveAt(scans, i)
    /\ UNCHANGED <<store, tab, timer, graphs, counts>>

(* Leaving the tab clears the timeout and forgets the component's state.   *)
OpenExposure ==
  /\ tab = "rules" /\ switches < MaxSwitches
  /\ tab' = "exposure" /\ switches' = switches + 1
  /\ timer' = None /\ scans' = <<>> /\ shadowPairs' = {}
  /\ debounced' = revision
  /\ IF rules # None THEN AskIfMissing(revision, rules) ELSE UNCHANGED query
  /\ UNCHANGED <<store, refreshes, fails>>

-----------------------------------------------------------------------------
(* The Exposure tab. *)

OpenRules ==
  /\ tab = "exposure" /\ switches < MaxSwitches
  /\ tab' = "rules" /\ switches' = switches + 1
  /\ timer' = rules
  /\ UNCHANGED <<store, scans, shadowPairs, graphs, refreshes, fails>>

(* Mutated form: the new key is not asked for. *)
DebounceOnly ==
  /\ tab = "exposure" /\ debounced # revision
  /\ debounced' = revision
  /\ UNCHANGED <<store, tab, marks, query, counts>>

DebounceFires ==
  /\ tab = "exposure" /\ debounced # revision
  /\ debounced' = revision
  /\ IF rules # None THEN AskIfMissing(revision, rules) ELSE UNCHANGED query
  /\ UNCHANGED <<store, tab, marks, counts>>

(* The buttons that ask again are off while a request is under way.        *)
Refresh ==
  /\ tab = "exposure" /\ rules # None /\ refreshes < MaxRefreshes
  /\ query[debounced].asked = None
  /\ query' = [query EXCEPT ![debounced].asked = rules,
                            ![debounced].failed = @ /\ query[debounced].graph # None]
  /\ refreshes' = refreshes + 1
  /\ UNCHANGED <<store, tab, marks, debounced, switches, fails>>

GraphArrives ==
  \E k \in DOMAIN query :
    /\ query[k].asked # None
    /\ query' = [query EXCEPT ![k] = [Missing EXCEPT !.graph = query[k].asked]]
    /\ UNCHANGED <<store, tab, marks, debounced, counts>>

(* The query's `retry` is off; the data of an earlier answer stays.        *)
GraphFails ==
  \E k \in DOMAIN query :
    /\ query[k].asked # None /\ fails < MaxFails
    /\ query' = [query EXCEPT ![k].asked = None, ![k].failed = TRUE]
    /\ fails' = fails + 1
    /\ UNCHANGED <<store, tab, marks, debounced, switches, refreshes>>

(* gcTime: an entry that no view observes is dropped after a while.        *)
Collect ==
  \E k \in DOMAIN query :
    /\ tab = "rules" \/ k # debounced
    /\ query[k] # Missing /\ query[k].asked = None
    /\ query' = [query EXCEPT ![k] = Missing]
    /\ UNCHANGED <<store, tab, marks, debounced, counts>>

Next ==
  \/ Load \/ Close \/ Toggle \/ Delete \/ MoveToTop \/ Undo
  \/ TimerFires \/ ScanReplies \/ OpenExposure
  \/ OpenRules \/ DebounceFires \/ Refresh \/ GraphArrives \/ GraphFails \/ Collect

(* The timers fire and the commands answer; the user need not do anything. *)
Fairness ==
  /\ WF_vars(TimerFires) /\ WF_vars(ScanReplies)
  /\ WF_vars(DebounceFires) /\ WF_vars(GraphArrives \/ GraphFails)

Spec == Init /\ [][Next]_vars /\ Fairness

-----------------------------------------------------------------------------
(* Every variable has its type. *)
TypeOK ==
  LET Lists == Seq([rule : Rules, enabled : BOOLEAN])
  IN /\ rules \in Lists \cup {None} /\ undoStack \in Seq(Lists)
     /\ revision \in 0 .. MaxChanges /\ debounced \in 0 .. revision
     /\ tab \in {"rules", "exposure"}
     /\ timer \in Lists \cup {None} /\ scans \in Seq(Lists)
     /\ shadowPairs \subseteq [shadowed : Nat, shadower : Nat]
     /\ query \in [0 .. MaxChanges ->
                     [graph : Lists \cup {None}, asked : Lists \cup {None}, failed : BOOLEAN]]
     /\ switches \in 0 .. MaxSwitches /\ refreshes \in 0 .. MaxRefreshes /\ fails \in 0 .. MaxFails

(* Nothing is pending on the Rules tab. *)
MarksSettled == tab = "rules" /\ rules # None /\ timer = None /\ scans = <<>>

(* Once the pending scan has answered, the rows are marked for the rules   *)
(* that are there, not for those of an earlier edit.                       *)
MarksCurrent == MarksSettled => shadowPairs = OvershadowPairs(rules)

(* Covering and matching are two algorithms, and what covers a text need   *)
(* not match all that the text matches.  These are the forms of entries    *)
(* for which it does: equal ones; an address, a block or a wildcard before *)
(* an address or a block; a glob before a glob that is narrower as a text, *)
(* or before a name.  Not a block before `10.*` (which 10.com matches) nor *)
(* `*.0/8` before a block, though both are said to cover.                  *)
TargetsComparable(e, l) ==
  \/ e = l
  \/ ParseRange(e) # {} /\ ParseRange(l) # {} /\ ~ IsGlob(l)
  \/ IsGlob(e) /\ IF IsGlob(l) THEN GlobCovers(e, l) ELSE ParseCidr(l) = {}

(* All but a glob before the bare name of a program: `fire*` covers        *)
(* `firefox.exe`, which is compared with the name alone, but is itself     *)
(* compared with the whole path.                                           *)
ApplicationsComparable(e, l) == e = l \/ ~ IsGlob(e) \/ IsGlob(l) \/ ~ IsBare(l)

(* The rules of which one covers the other by comparable entries.          *)
ReliablyCovered ==
  {pair \in Covered :
     LET a == Body[pair[1]]
         b == Body[pair[2]]
     IN /\ ListCovers(a.targets, b.targets,
             [e \in a.targets |-> [l \in b.targets |-> TargetCovers(e, l) /\ TargetsComparable(e, l)]])
        /\ ListCovers(a.applications, b.applications,
             [e \in a.applications |-> [l \in b.applications |->
                ApplicationCovers(e, l) /\ ApplicationsComparable(e, l)]])}

(* The rows that are marked because of such a rule.                        *)
Dead == {p.shadowed : p \in {q \in shadowPairs :
           <<rules[q.shadower].rule, rules[q.shadowed].rule>> \in ReliablyCovered}}

(* "Overshadowed by an earlier rule and will never fire": no connection,   *)
(* whatever it leaves out, has as its winner a rule that is marked because *)
(* of comparable entries.                                                  *)
MarkedNeverWins ==
  MarksSettled => \A c \in Candidates : Winner(rules, c) \cap Dead = {}

(* Deleting rules that are marked so, whichever of them and however many   *)
(* at once, changes what happens to no connection.                         *)
MarkedMayGo ==
  [][MarksSettled /\ (\E indices \in SUBSET Dead : rules' = Without(rules, indices))
       => \A c \in Candidates : Outcome(rules', c) = Outcome(rules, c)]_vars

(* Stale exposure is never taken for current: with the debounce over, a    *)
(* graph on screen is that of the present rules, though the key is only a  *)
(* number and answers for other keys arrive late.                          *)
ExposureCurrent ==
  tab = "exposure" /\ rules # None /\ debounced = revision /\ query[debounced].graph # None
    => query[debounced].graph = rules

(* When the user pauses, the visible view comes to rest, with an answer or *)
(* an error: no key is left that nobody asked for.                         *)
ViewsSettle ==
  <>[](IF tab = "rules" THEN timer = None /\ scans = <<>>
       ELSE rules # None =>
              /\ debounced = revision
              /\ query[debounced].graph # None \/ query[debounced].failed)

(* ExposureModule renders an error only where it has no graph to render.   *)
ErrorShown ==
  tab = "exposure" /\ query[debounced].graph = None /\ query[debounced].failed

(* queries.ts: failures must surface rather than leaving the last good     *)
(* graph on screen.                                                        *)
FailureSurfaces == tab = "exposure" /\ query[debounced].failed => ErrorShown
=============================================================================
