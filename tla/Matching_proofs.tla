-------------------------- MODULE Matching_proofs ---------------------------
(***************************************************************************)
(* Theorems about the modules over Globs and Matcher, for every vocabulary *)
(* of rules and every rule list: RuleViews (the marks of the Rules tab and *)
(* the graph of the Exposure tab are of the rules that are there, and a    *)
(* marked rule is dead), Exposure (no traffic is missing from its graph,   *)
(* and a profile without findings names what it lets out) and GlobLoop     *)
(* (the loop gives the right answer for every pattern and text).           *)
(***************************************************************************)
EXTENDS RuleViews, Exposure, GlobLoop, Globs_proofs, SequenceTheorems, FiniteSetTheorems,
        FunctionTheorems, TLAPS

Keys == 0 .. MaxChanges

(* The inductive invariant.  A key is asked for only while it is the        *)
(* debounced one, which is never ahead of the revision; so there is nothing *)
(* under a later revision, and under the present one nothing but the        *)
(* present rules.                                                           *)
Counted ==
  /\ revision \in Keys /\ debounced \in Keys /\ debounced <= revision
  /\ DOMAIN query = Keys
  /\ \A k \in Keys : DOMAIN query[k] = {"graph", "asked", "failed"}

CurrentKey ==
  \A k \in Keys :
    /\ k > revision => query[k].graph = None /\ query[k].asked = None
    /\ k = revision => query[k].graph \in {None, rules} /\ query[k].asked \in {None, rules}

IInv == Counted /\ CurrentKey

LEMMA Bounds == MaxChanges \in Nat
BY ViewsAssumption

(* A request for a key, or none, leaves the shape of the cache.             *)
LEMMA Asking ==
  ASSUME NEW key \in Keys, NEW list, Counted, AskIfMissing(key, list)
  PROVE  /\ DOMAIN query' = Keys
         /\ \A k \in Keys : DOMAIN query'[k] = {"graph", "asked", "failed"}
         /\ \A k \in Keys : query'[k].graph = query[k].graph
         /\ \A k \in Keys \ {key} : query'[k].asked = query[k].asked
         /\ query'[key].asked \in {query[key].asked, list}
<1>1. CASE query' = query
  BY <1>1 DEF Counted
<1>2. CASE query' = [query EXCEPT ![key].asked = list, ![key].failed = FALSE]
  BY <1>2 DEF Counted
<1>3. QED
  BY <1>1, <1>2 DEF AskIfMissing

LEMMA InitIInv == Init => IInv
BY Bounds DEF Init, IInv, Counted, CurrentKey, Keys, Missing

(* A change of the rules moves on to a revision that nobody has asked for.  *)
LEMMA SetRulesIInv ==
  ASSUME IInv, NEW list, SetRules(list)
  PROVE  IInv'
<1>1. /\ rules' = list /\ revision' = revision + 1 /\ revision < MaxChanges
  BY DEF SetRules
<1>2. /\ revision' \in Keys /\ revision \in Keys
      /\ debounced \in Keys /\ debounced <= revision
  BY <1>1, Bounds DEF IInv, Counted, Keys
<1>3. CASE UNCHANGED <<debounced, query>>
  BY <1>1, <1>2, <1>3 DEF IInv, Counted, CurrentKey, Keys
<1>4. CASE debounced' = debounced /\ AskIfMissing(debounced, list)
  <2>1. /\ DOMAIN query' = Keys
        /\ \A k \in Keys : DOMAIN query'[k] = {"graph", "asked", "failed"}
        /\ \A k \in Keys : query'[k].graph = query[k].graph
        /\ \A k \in Keys \ {debounced} : query'[k].asked = query[k].asked
    BY <1>2, <1>4, Asking DEF IInv
  <2>2. Counted'
    BY <1>1, <1>2, <1>4, <2>1 DEF Counted, Keys
  <2>3. \A k \in Keys : k > revision => k # debounced
    BY <1>2 DEF Keys, IInv, Counted
  <2>4. \A k \in Keys : k >= revision' => k > revision
    BY <1>1 DEF Keys, IInv, Counted
  <2>5. \A k \in Keys : k >= revision' => query'[k].graph = None /\ query'[k].asked = None
    BY <2>1, <2>3, <2>4 DEF IInv, CurrentKey
  <2>6. CurrentKey'
    BY <2>5, <1>2 DEF CurrentKey, Keys
  <2>7. QED
    BY <2>2, <2>6 DEF IInv
<1>5. QED
  BY <1>3, <1>4 DEF SetRules, RenderRules, RenderExposure, graphs

(* The key becomes the present revision, and the present rules are asked    *)
(* for: when the Exposure tab opens and when the debounce ends.             *)
LEMMA NewKeyIInv ==
  ASSUME IInv, UNCHANGED store, debounced' = revision,
         IF rules # None THEN AskIfMissing(revision, rules) ELSE UNCHANGED query
  PROVE  IInv'
<1>1. rules' = rules /\ revision' = revision /\ revision \in Keys
  BY DEF store, IInv, Counted
<1>2. CASE UNCHANGED query
  BY <1>1, <1>2 DEF IInv, Counted, CurrentKey, Keys
<1>3. CASE AskIfMissing(revision, rules)
  <2>1. /\ DOMAIN query' = Keys
        /\ \A k \in Keys : DOMAIN query'[k] = {"graph", "asked", "failed"}
        /\ \A k \in Keys : query'[k].graph = query[k].graph
        /\ \A k \in Keys \ {revision} : query'[k].asked = query[k].asked
        /\ query'[revision].asked \in {query[revision].asked, rules}
    BY <1>1, <1>3, Asking DEF IInv
  <2>2. Counted'
    BY <1>1, <2>1 DEF IInv, Counted, Keys
  <2>3. CurrentKey'
    BY <1>1, <2>1 DEF IInv, CurrentKey, Keys
  <2>4. QED
    BY <2>2, <2>3 DEF IInv
<1>4. QED
  BY <1>2, <1>3

(* An answer, a failure or a collection puts nothing under a key that was   *)
(* not asked for there.                                                     *)
LEMMA EntryIInv ==
  ASSUME IInv, UNCHANGED <<store, debounced>>, NEW key \in Keys, NEW entry,
         query' = [query EXCEPT ![key] = entry],
         DOMAIN entry = {"graph", "asked", "failed"},
         entry.graph \in {None, query[key].graph, query[key].asked},
         entry.asked \in {None, query[key].asked} \/ (key <= revision /\ entry.asked = rules)
  PROVE  IInv'
<1>1. rules' = rules /\ revision' = revision /\ debounced' = debounced
  BY DEF store
<1>2. DOMAIN query = Keys
  BY DEF IInv, Counted
<1>3. Counted'
  BY <1>1, <1>2 DEF IInv, Counted
<1>4. CurrentKey'
  <2> SUFFICES ASSUME NEW k \in Keys
               PROVE  /\ k > revision => query'[k].graph = None /\ query'[k].asked = None
                      /\ k = revision => query'[k].graph \in {None, rules}
                                         /\ query'[k].asked \in {None, rules}
    BY <1>1 DEF CurrentKey
  <2>1. CASE k = key
    <3>1. query'[k] = entry
      BY <2>1, <1>2
    <3>2. revision \in Int /\ k \in Int
      BY DEF IInv, Counted, Keys
    <3>3. QED
      BY <2>1, <3>1, <3>2 DEF IInv, CurrentKey
  <2>2. CASE k # key
    <3>1. query'[k] = query[k]
      BY <2>2, <1>2
    <3>2. QED
      BY <3>1 DEF IInv, CurrentKey
  <2>3. QED
    BY <2>1, <2>2
<1>5. QED
  BY <1>3, <1>4 DEF IInv

LEMMA RefreshIInv == ASSUME IInv, Refresh PROVE IInv'
<1> DEFINE entry == [query[debounced] EXCEPT !.asked = rules,
                       !.failed = query[debounced].failed /\ query[debounced].graph # None]
<1>1. debounced \in Keys /\ debounced <= revision
      /\ DOMAIN query = Keys /\ DOMAIN query[debounced] = {"graph", "asked", "failed"}
  BY DEF IInv, Counted
<1>2. query' = [query EXCEPT ![debounced] = entry]
  BY <1>1 DEF Refresh
<1>3. /\ DOMAIN entry = {"graph", "asked", "failed"}
      /\ entry.graph = query[debounced].graph /\ entry.asked = rules
  BY <1>1
<1>4. UNCHANGED <<store, debounced>>
  BY DEF Refresh
<1> HIDE DEF entry
<1>5. QED
  BY <1>1, <1>2, <1>3, <1>4, EntryIInv

LEMMA GraphArrivesIInv == ASSUME IInv, GraphArrives PROVE IInv'
<1>1. PICK key \in DOMAIN query :
        /\ query' = [query EXCEPT ![key] = [Missing EXCEPT !.graph = query[key].asked]]
        /\ UNCHANGED <<store, debounced>>
  BY DEF GraphArrives
<1> DEFINE entry == [Missing EXCEPT !.graph = query[key].asked]
<1>2. /\ DOMAIN entry = {"graph", "asked", "failed"}
      /\ entry.graph = query[key].asked /\ entry.asked = None
  BY DEF Missing
<1>3. key \in Keys
  BY DEF IInv, Counted
<1> HIDE DEF entry
<1>4. QED
  BY <1>1, <1>2, <1>3, EntryIInv DEF entry

LEMMA GraphFailsIInv == ASSUME IInv, GraphFails PROVE IInv'
<1>1. PICK key \in DOMAIN query :
        /\ query' = [query EXCEPT ![key].asked = None, ![key].failed = TRUE]
        /\ UNCHANGED <<store, debounced>>
  BY DEF GraphFails
<1> DEFINE entry == [query[key] EXCEPT !.asked = None, !.failed = TRUE]
<1>2. key \in Keys /\ DOMAIN query = Keys /\ DOMAIN query[key] = {"graph", "asked", "failed"}
  BY DEF IInv, Counted
<1>3. query' = [query EXCEPT ![key] = entry]
  BY <1>1, <1>2
<1>4. /\ DOMAIN entry = {"graph", "asked", "failed"}
      /\ entry.graph = query[key].graph /\ entry.asked = None
  BY <1>2
<1> HIDE DEF entry
<1>5. QED
  BY <1>1, <1>2, <1>3, <1>4, EntryIInv

LEMMA CollectIInv == ASSUME IInv, Collect PROVE IInv'
<1>1. PICK key \in DOMAIN query :
        query' = [query EXCEPT ![key] = Missing] /\ UNCHANGED <<store, debounced>>
  BY DEF Collect
<1>2. DOMAIN Missing = {"graph", "asked", "failed"} /\ Missing.graph = None /\ Missing.asked = None
  BY DEF Missing
<1>3. key \in Keys
  BY DEF IInv, Counted
<1>4. QED
  BY <1>1, <1>2, <1>3, EntryIInv

(* Steps that touch neither the store nor the cache. *)
LEMMA StutterIInv == ASSUME IInv, UNCHANGED <<store, graphs>> PROVE IInv'
BY DEF IInv, Counted, CurrentKey, store, graphs

LEMMA NextIInv == ASSUME IInv, [Next]_vars PROVE IInv'
<1>1. CASE Load \/ Close
  BY <1>1, SetRulesIInv DEF Load, Close
<1>2. ASSUME NEW list, Commit(list) PROVE IInv'
  BY <1>2, SetRulesIInv DEF Commit
<1>3. CASE Toggle
  BY <1>3, <1>2 DEF Toggle
<1>4. CASE Delete
  BY <1>4, <1>2 DEF Delete
<1>5. CASE MoveToTop
  BY <1>5, <1>2 DEF MoveToTop
<1>6. CASE Undo
  BY <1>6, SetRulesIInv DEF Undo
<1>7. CASE TimerFires
  BY <1>7, StutterIInv DEF TimerFires
<1>8. CASE ScanReplies
  BY <1>8, StutterIInv DEF ScanReplies
<1>9. CASE OpenExposure
  BY <1>9, NewKeyIInv DEF OpenExposure
<1>10. CASE OpenRules
  BY <1>10, StutterIInv DEF OpenRules
<1>11. CASE DebounceFires
  BY <1>11, NewKeyIInv DEF DebounceFires
<1>12. CASE UNCHANGED vars
  BY <1>12, StutterIInv DEF vars
<1>13. QED
  BY <1>1, <1>3, <1>4, <1>5, <1>6, <1>7, <1>8, <1>9, <1>10, <1>11, <1>12,
     RefreshIInv, GraphArrivesIInv, GraphFailsIInv, CollectIInv DEF Next

(* Stale exposure is never taken for current: once the debounce is over,   *)
(* the graph on screen is that of the present rules, however many changes, *)
(* tab switches, refreshes, failures and late answers went before.  It     *)
(* rests on every change of the store having a revision of its own.        *)
THEOREM ExposureIsCurrent == Spec => []ExposureCurrent
<1>1. IInv /\ [Next]_vars => IInv'
  BY NextIInv
<1>2. IInv => ExposureCurrent
  BY DEF IInv, Counted, CurrentKey, ExposureCurrent
<1>3. QED
  BY InitIInv, <1>1, <1>2, PTL DEF Spec
-----------------------------------------------------------------------------
(* Scans answered in order.  A queue of scans is a sequence of whatever it    *)
(* holds; what it does at its two ends:                                       *)
IsQueue(q) == q \in Seq({q[i] : i \in DOMAIN q})

LEMMA AppendLast ==
  ASSUME NEW q, IsQueue(q), NEW x
  PROVE  /\ IsQueue(Append(q, x)) /\ Append(q, x) # <<>>
         /\ Append(q, x)[Len(Append(q, x))] = x
<1> DEFINE S == {q[i] : i \in DOMAIN q} \cup {x}
<1>1. q \in Seq(S) /\ x \in S
  BY DEF IsQueue
<1>2. /\ Append(q, x) \in Seq(S) /\ Len(Append(q, x)) = Len(q) + 1
      /\ Append(q, x)[Len(q) + 1] = x
  BY <1>1
<1>3. \A r \in Seq(S) : r \in Seq({r[i] : i \in DOMAIN r})
  OBVIOUS
<1>4. QED
  BY <1>2, <1>3 DEF IsQueue

LEMMA RemoveFirstKeepsLast ==
  ASSUME NEW q, IsQueue(q), q # <<>>
  PROVE  /\ IsQueue(RemoveAt(q, 1))
         /\ RemoveAt(q, 1) = <<>> => q[1] = q[Len(q)]
         /\ RemoveAt(q, 1) # <<>> => RemoveAt(q, 1)[Len(RemoveAt(q, 1))] = q[Len(q)]
<1> DEFINE S == {q[i] : i \in DOMAIN q}
           r == RemoveAt(q, 1)
<1>1. q \in Seq(S) /\ Len(q) \in Nat \ {0}
  BY DEF IsQueue
<1>2. SubSeq(q, 1, 0) = <<>> /\ SubSeq(q, 2, Len(q)) \in Seq(S)
  BY <1>1
<1>3. r = SubSeq(q, 2, Len(q))
  BY <1>2 DEF RemoveAt
<1>4. \A i \in 2 .. Len(q) : q[i] \in S
  BY <1>1
<1> HIDE DEF r, S
<1>5. r \in Seq(S) /\ Len(r) = Len(q) - 1 /\ \A i \in 1 .. Len(q) - 1 : r[i] = q[i + 1]
  <2>1. 2 \in Int /\ Len(q) \in Int
    BY <1>1
  <2>2. /\ SubSeq(q, 2, Len(q)) \in Seq(S)
        /\ Len(SubSeq(q, 2, Len(q))) = IF 2 <= Len(q) THEN Len(q) - 2 + 1 ELSE 0
        /\ \A i \in 1 .. Len(q) - 2 + 1 : SubSeq(q, 2, Len(q))[i] = q[2 + i - 1]
    BY <1>4, <2>1, SubSeqProperties
  <2>3. \A i \in 1 .. Len(q) - 1 : 2 + i - 1 = i + 1
    BY <1>1
  <2>4. \A n \in Nat \ {0} : n - 2 + 1 = n - 1 /\ (~ 2 <= n => n - 1 = 0)
    OBVIOUS
  <2>5. QED
    BY <1>1, <1>3, <2>2, <2>3, <2>4
<1>6. r \in Seq({r[i] : i \in DOMAIN r})
  BY <1>5
<1>7. r = <<>> => Len(q) = 1
  BY <1>1, <1>5
<1>8. r # <<>> => Len(q) - 1 \in 1 .. Len(q) - 1
  BY <1>1, <1>5
<1>9. QED
  BY <1>1, <1>5, <1>6, <1>7, <1>8 DEF IsQueue, r

(* Something will bring the marks of the present rules, or has: the timeout,  *)
(* else the youngest scan, else the answer that came last.                    *)
Pending ==
  IF timer # None THEN timer = rules
  ELSE IF scans # <<>> THEN scans[Len(scans)] = rules
  ELSE shadowPairs = OvershadowPairs(rules)

MarksInv ==
  /\ IsQueue(scans)
  /\ tab = "rules" => (rules # None => Pending) /\ (rules = None => timer = None)
  /\ tab # "rules" => timer = None /\ scans = <<>>

LEMMA InitMarks == Init => MarksInv
BY DEF Init, MarksInv, IsQueue

(* Each new profile starts the timeout again, with its rules.                 *)
LEMMA SetRulesMarks ==
  ASSUME MarksInv, NEW list, SetRules(list)
  PROVE  MarksInv'
<1>1. rules' = list /\ tab' = tab
  BY DEF SetRules
<1>2. CASE RenderRules(list)
  <2>1. tab = "rules" /\ timer' = list /\ scans' = scans
    BY <1>2 DEF RenderRules
  <2>2. QED
    BY <1>1, <2>1 DEF MarksInv, Pending
<1>3. CASE RenderExposure(list)
  <2>1. tab = "exposure" /\ timer' = timer /\ scans' = scans
    BY <1>3 DEF RenderExposure, marks
  <2>2. QED
    BY <1>1, <2>1 DEF MarksInv
<1>4. QED
  BY <1>2, <1>3 DEF SetRules

LEMMA TimerFiresMarks == ASSUME MarksInv, TimerFires PROVE MarksInv'
<1>1. /\ timer # None /\ timer' = None /\ scans' = Append(scans, timer)
      /\ rules' = rules /\ tab' = tab
  BY DEF TimerFires, store
<1>2. IsQueue(scans') /\ scans' # <<>> /\ scans'[Len(scans')] = timer
  BY <1>1, AppendLast DEF MarksInv
<1>3. QED
  BY <1>1, <1>2 DEF MarksInv, Pending

LEMMA ScanRepliesMarks == ASSUME MarksInv, Ordered, ScanReplies PROVE MarksInv'
<1>1. /\ 1 \in DOMAIN scans /\ shadowPairs' = OvershadowPairs(scans[1])
      /\ scans' = RemoveAt(scans, 1)
      /\ rules' = rules /\ tab' = tab /\ timer' = timer
  BY DEF ScanReplies, store
<1>2. scans # <<>>
  BY <1>1
<1>3. /\ IsQueue(scans')
      /\ scans' = <<>> => scans[1] = scans[Len(scans)]
      /\ scans' # <<>> => scans'[Len(scans')] = scans[Len(scans)]
  BY <1>1, <1>2, RemoveFirstKeepsLast DEF MarksInv
<1>4. QED
  BY <1>1, <1>2, <1>3 DEF MarksInv, Pending

(* The tab starts with nothing pending but its own timeout. *)
LEMMA SwitchMarks == ASSUME MarksInv, OpenExposure \/ OpenRules PROVE MarksInv'
<1>1. CASE OpenExposure
  BY <1>1 DEF OpenExposure, MarksInv, IsQueue
<1>2. CASE OpenRules
  <2>1. timer' = rules /\ rules' = rules /\ scans' = scans
    BY <1>2 DEF OpenRules, store
  <2>2. QED
    BY <2>1, <1>2 DEF OpenRules, MarksInv, Pending
<1>3. QED
  BY <1>1, <1>2

LEMMA OthersMarks == ASSUME MarksInv, UNCHANGED <<store, tab, marks>> PROVE MarksInv'
BY DEF MarksInv, Pending, store, marks

LEMMA NextMarks == ASSUME Ordered, MarksInv, [Next]_vars PROVE MarksInv'
<1>1. CASE Load \/ Close
  BY <1>1, SetRulesMarks DEF Load, Close
<1>2. ASSUME NEW list, Commit(list) PROVE MarksInv'
  BY <1>2, SetRulesMarks DEF Commit
<1>3. CASE Toggle
  BY <1>3, <1>2 DEF Toggle
<1>4. CASE Delete
  BY <1>4, <1>2 DEF Delete
<1>5. CASE MoveToTop
  BY <1>5, <1>2 DEF MoveToTop
<1>6. CASE Undo
  BY <1>6, SetRulesMarks DEF Undo
<1>7. CASE DebounceFires \/ Refresh \/ GraphArrives \/ GraphFails \/ Collect
  BY <1>7, OthersMarks DEF DebounceFires, Refresh, GraphArrives, GraphFails, Collect
<1>8. CASE UNCHANGED vars
  BY <1>8, OthersMarks DEF vars
<1>9. QED
  BY <1>1, <1>3, <1>4, <1>5, <1>6, <1>7, <1>8,
     TimerFiresMarks, ScanRepliesMarks, SwitchMarks DEF Next

(* As long as scans are answered in order, the marks are those of the present *)
(* rules once nothing is pending, for every vocabulary, however many edits    *)
(* and scans are under way: the timeout alone makes the last scan the last.   *)
THEOREM MarksAreCurrent == ASSUME Ordered PROVE Spec => []MarksCurrent
<1>1. MarksInv /\ [Next]_vars => MarksInv'
  BY NextMarks
<1>2. MarksInv => MarksCurrent
  BY DEF MarksInv, Pending, MarksCurrent, MarksSettled
<1>3. QED
  BY InitMarks, <1>1, <1>2, PTL DEF Spec

-----------------------------------------------------------------------------
(* Rows of a list that stay when others are taken out.                        *)

LEMMA SetOfRows ==
  ASSUME NEW n \in Nat, NEW I \in SUBSET (1 .. n)
  PROVE  /\ IsFiniteSet(I) /\ Cardinality(I) \in Nat /\ \A i \in I : i \in Nat
<1>1. IsFiniteSet(1 .. n)
  BY FS_Interval
<1>2. IsFiniteSet(I)
  BY <1>1, FS_Subset
<1>3. QED
  BY <1>2, FS_CardinalityType

LEMMA RankGrows ==
  ASSUME NEW n \in Nat, NEW I \in SUBSET (1 .. n)
  PROVE  /\ \A i \in I : Rank(I, i) \in 1 .. Cardinality(I)
         /\ \A i, j \in I : i < j => Rank(I, i) < Rank(I, j)
<1>1. IsFiniteSet(I) /\ Cardinality(I) \in Nat /\ \A i \in I : i \in Nat
  BY SetOfRows
<1>2. ASSUME NEW i \in I
      PROVE  /\ IsFiniteSet({j \in I : j <= i}) /\ Rank(I, i) \in Nat
             /\ Rank(I, i) <= Cardinality(I) /\ Rank(I, i) # 0
  <2> DEFINE T == {j \in I : j <= i}
  <2>1. T \in SUBSET I /\ i \in T
    BY <1>1
  <2> HIDE DEF T
  <2>2. IsFiniteSet(T) /\ Cardinality(T) <= Cardinality(I)
    BY <1>1, <2>1, FS_Subset
  <2>3. Cardinality(T) \in Nat /\ Cardinality(T) # 0
    BY <2>1, <2>2, FS_CardinalityType, FS_EmptySet
  <2>4. QED
    BY <2>2, <2>3 DEF Rank, T
<1>3. ASSUME NEW i \in I, NEW j \in I, i < j PROVE Rank(I, i) < Rank(I, j)
  <2> DEFINE T == {x \in I : x <= i}
             U == {x \in I : x <= j}
  <2>1. i \in Nat /\ j \in Nat
    BY <1>1
  <2>2. \A x \in I : x <= i => x <= j
    BY <1>1, <1>3, <2>1
  <2>3. T \in SUBSET U
    BY <2>2
  <2>4. j \in U
    BY <2>1
  <2>5. ~(j <= i)
    BY <1>3, <2>1
  <2>6. j \notin T
    BY <2>5
  <2>7. IsFiniteSet(U)
    BY <1>2
  <2> HIDE DEF T, U
  <2>8. Cardinality(T) <= Cardinality(U) /\ Cardinality(U) # Cardinality(T)
    BY <2>3, <2>4, <2>6, <2>7, FS_Subset
  <2>9. Cardinality(T) \in Nat /\ Cardinality(U) \in Nat
    BY <1>2 DEF Rank, T, U
  <2>10. QED
    BY <2>8, <2>9 DEF Rank, T, U
<1>4. ASSUME NEW i \in I PROVE Rank(I, i) \in 1 .. Cardinality(I)
  <2>1. Rank(I, i) \in Nat /\ Rank(I, i) <= Cardinality(I) /\ Rank(I, i) # 0
    BY <1>2
  <2>2. QED
    BY <1>1, <2>1
<1>5. QED
  BY <1>3, <1>4

(* Every place up to the size of I is the rank of one member.                 *)
LEMMA RankReaches ==
  ASSUME NEW n \in Nat, NEW I \in SUBSET (1 .. n), NEW k \in 1 .. Cardinality(I)
  PROVE  \E i \in I : Rank(I, i) = k
<1> DEFINE m == Cardinality(I)
           f == [i \in I |-> Rank(I, i)]
<1>1. IsFiniteSet(I) /\ m \in Nat /\ \A i \in I : i \in Nat
  BY SetOfRows
<1>2. \A i \in I : f[i] \in 1 .. m /\ f[i] = Rank(I, i)
  BY RankGrows
<1>3. \A i, j \in I : f[i] = f[j] => i = j
  <2>1. \A i, j \in I : i < j => Rank(I, i) < Rank(I, j)
    BY RankGrows
  <2>2. SUFFICES ASSUME NEW i \in I, NEW j \in I, f[i] = f[j], i # j PROVE FALSE
    OBVIOUS
  <2>3. i < j \/ j < i
    BY <1>1, <2>2
  <2>4. f[i] < f[j] \/ f[j] < f[i]
    BY <2>1, <2>3
  <2>5. f[i] \in Nat /\ f[j] \in Nat
    BY <1>1, <1>2
  <2>6. QED
    BY <2>2, <2>4, <2>5
<1>4. f \in [I -> 1 .. m]
  BY <1>2
<1> HIDE DEF f
<1>5. f \in Injection(I, 1 .. m)
  BY <1>3, <1>4 DEF Injection, IsInjective
<1>6. IsFiniteSet(1 .. m) /\ Cardinality(1 .. m) = m
  <2>1. \A l \in Nat : IsFiniteSet(1 .. l) /\ Cardinality(1 .. l) = l
    BY FS_Interval
  <2>2. QED
    BY <1>1, <2>1
<1>7. f \in Surjection(I, 1 .. m)
  BY <1>5, <1>6, FS_Injection
<1>8. \E i \in I : f[i] = k
  BY <1>7 DEF Surjection
<1>9. QED
  BY <1>2, <1>8

(* t holds the m rows of s whose indices are kept, in order, none of them     *)
(* missing; that is what Without gives.                                       *)
KeepsRows(t, s, kept, m) ==
  /\ m \in Nat /\ DOMAIN t = 1 .. m
  /\ \E row \in [1 .. m -> kept] :
       /\ \A k \in 1 .. m : t[k] = s[row[k]]
       /\ \A j, k \in 1 .. m : j < k => row[j] < row[k]
       /\ \A i \in kept : \E k \in 1 .. m : row[k] = i

LEMMA WithoutIs ==
  ASSUME NEW V, NEW s \in Seq(V), NEW D
  PROVE  /\ Without(s, D) \in Seq(V)
         /\ KeepsRows(Without(s, D), s, DOMAIN s \ D, Cardinality(DOMAIN s \ D))
<1> DEFINE kept == DOMAIN s \ D
           m == Cardinality(kept)
           t == Without(s, D)
           row == [k \in 1 .. m |-> CHOOSE i \in kept : Rank(kept, i) = k]
<1>1. Len(s) \in Nat /\ DOMAIN s = 1 .. Len(s) /\ \A i \in DOMAIN s : s[i] \in V
  OBVIOUS
<1>2. kept \in SUBSET (1 .. Len(s))
  BY <1>1
<1>3. t = [k \in 1 .. m |-> s[CHOOSE i \in kept : Rank(kept, i) = k]]
  BY DEF Without
<1> HIDE DEF kept, t
<1>4. m \in Nat /\ \A i \in kept : i \in Nat
  BY <1>1, <1>2, SetOfRows
<1>5. \A k \in 1 .. m : \E i \in kept : Rank(kept, i) = k
  BY <1>1, <1>2, RankReaches
<1>6. \A k \in 1 .. m : row[k] \in kept /\ Rank(kept, row[k]) = k
  BY <1>5
<1>7. \A k \in 1 .. m : t[k] = s[row[k]]
  BY <1>3
<1>8. DOMAIN t = 1 .. m
  BY <1>3
<1>9. row \in [1 .. m -> kept]
  BY <1>6
<1> HIDE DEF row, m
<1>10. /\ \A i \in kept : Rank(kept, i) \in 1 .. m
       /\ \A i, j \in kept : i < j => Rank(kept, i) < Rank(kept, j)
  BY <1>1, <1>2, RankGrows DEF m
<1>11. ASSUME NEW j \in 1 .. m, NEW k \in 1 .. m, j < k PROVE row[j] < row[k]
  <2>1. row[j] \in kept /\ row[k] \in kept /\ row[j] \in Nat /\ row[k] \in Nat
    BY <1>4, <1>6
  <2>2. Rank(kept, row[j]) = j /\ Rank(kept, row[k]) = k
    BY <1>6
  <2>3. row[k] < row[j] => k < j
    BY <1>10, <2>1, <2>2
  <2>4. row[j] # row[k]
    BY <1>4, <1>11, <2>2
  <2>5. j \in Nat /\ k \in Nat
    BY <1>4
  <2>6. QED
    BY <1>11, <2>1, <2>3, <2>4, <2>5
<1>12. ASSUME NEW i \in kept PROVE \E k \in 1 .. m : row[k] = i
  <2> DEFINE k == Rank(kept, i)
  <2>1. k \in 1 .. m
    BY <1>10
  <2>2. row[k] \in kept /\ Rank(kept, row[k]) = k
    BY <1>6, <2>1
  <2>3. row[k] \in Nat /\ i \in Nat
    BY <1>4, <2>2
  <2>4. ~(row[k] < i) /\ ~(i < row[k])
    <3>1. row[k] < i => Rank(kept, row[k]) < Rank(kept, i)
      BY <1>10, <2>2
    <3>2. i < row[k] => Rank(kept, i) < Rank(kept, row[k])
      BY <1>10, <2>2
    <3>3. Rank(kept, i) \in Nat /\ Rank(kept, row[k]) = Rank(kept, i)
      BY <1>4, <2>1, <2>2
    <3> HIDE DEF k
    <3>4. QED
      BY <3>1, <3>2, <3>3
  <2>5. row[k] = i
    BY <2>3, <2>4
  <2>6. QED
    BY <2>1, <2>5
<1>13. t \in Seq(V) /\ Len(t) = m
  <2>1. \A k \in 1 .. m : t[k] \in V
    BY <1>1, <1>2, <1>6, <1>7
  <2>2. t = [k \in 1 .. m |-> t[k]]
    BY <1>3 DEF m
  <2>3. QED
    BY <1>4, <2>1, <2>2
<1>14. KeepsRows(t, s, kept, m)
  BY <1>4, <1>7, <1>8, <1>9, <1>11, <1>12 DEF KeepsRows
<1>15. QED
  BY <1>13, <1>14 DEF t, m, kept

-----------------------------------------------------------------------------
(* Types.                                                                    *)
Entry == [rule : Rules, enabled : BOOLEAN]
Lists == Seq(Entry)
Cache == [graph : Lists \cup {None}, asked : Lists \cup {None}, failed : BOOLEAN]
Pairs == [shadowed : Nat, shadower : Nat]

StoreTyped == rules \in Lists \cup {None} /\ undoStack \in Seq(Lists)
MarksTyped ==
  /\ tab \in {"rules", "exposure"} /\ timer \in Lists \cup {None} /\ scans \in Seq(Lists)
  /\ shadowPairs \subseteq Pairs
GraphsTyped == query \in [Keys -> Cache]
CountsTyped ==
  switches \in 0 .. MaxSwitches /\ refreshes \in 0 .. MaxRefreshes /\ fails \in 0 .. MaxFails
Typed == StoreTyped /\ MarksTyped /\ GraphsTyped /\ CountsTyped

LEMMA FilesListed == RuleLists \subseteq Lists
BY ViewsAssumption DEF Lists, Entry

(* An entry taken out of a sequence, and the two ends of the undo stack.     *)
LEMMA Taken ==
  ASSUME NEW V, NEW s \in Seq(V), NEW i \in DOMAIN s
  PROVE  RemoveAt(s, i) \in Seq(V)
<1>1. Len(s) \in Nat /\ i \in 1 .. Len(s) /\ \A k \in 1 .. Len(s) : s[k] \in V
  OBVIOUS
<1>2. SubSeq(s, 1, i - 1) \in Seq(V)
  <2>1. \A k \in 1 .. i - 1 : s[k] \in V
    BY <1>1
  <2>2. 1 \in Int /\ i - 1 \in Int
    BY <1>1
  <2>3. QED
    BY <2>1, <2>2, SubSeqProperties
<1>3. SubSeq(s, i + 1, Len(s)) \in Seq(V)
  <2>1. \A k \in i + 1 .. Len(s) : s[k] \in V
    BY <1>1
  <2>2. i + 1 \in Int /\ Len(s) \in Int
    BY <1>1
  <2>3. QED
    BY <2>1, <2>2, SubSeqProperties
<1>4. QED
  BY <1>2, <1>3 DEF RemoveAt

LEMMA Ends ==
  ASSUME NEW V, NEW s \in Seq(V), s # <<>>
  PROVE  Last(s) \in V /\ Front(s) \in Seq(V)
<1>1. Len(s) \in Nat \ {0} /\ \A k \in 1 .. Len(s) : s[k] \in V
  OBVIOUS
<1>2. Last(s) \in V
  BY <1>1 DEF Last
<1>3. \A k \in 1 .. Len(s) - 1 : s[k] \in V
  BY <1>1
<1>4. 1 \in Int /\ Len(s) - 1 \in Int
  BY <1>1
<1>5. SubSeq(s, 1, Len(s) - 1) \in Seq(V)
  BY <1>3, <1>4, SubSeqProperties
<1>6. QED
  BY <1>2, <1>5 DEF Front

(* The edits keep to the rules that are there.                               *)
LEMMA ToggleTyped ==
  ASSUME NEW list \in Lists, NEW i \in DOMAIN list
  PROVE  [list EXCEPT ![i].enabled = ~ @] \in Lists
<1> DEFINE e == [list[i] EXCEPT !.enabled = ~ @]
<1>1. list[i] \in Entry
  BY DEF Lists
<1>2. e \in Entry
  BY <1>1 DEF Entry
<1>3. [list EXCEPT ![i].enabled = ~ @] = [list EXCEPT ![i] = e]
  OBVIOUS
<1> HIDE DEF e
<1>4. QED
  BY <1>2, <1>3 DEF Lists

LEMMA DeleteTyped == ASSUME NEW list \in Lists, NEW D PROVE Without(list, D) \in Lists
BY WithoutIs DEF Lists

LEMMA MoveTyped ==
  ASSUME NEW list \in Lists, NEW i \in DOMAIN list
  PROVE  <<list[i]>> \o RemoveAt(list, i) \in Lists
<1>1. RemoveAt(list, i) \in Seq(Entry)
  BY Taken DEF Lists
<1>2. <<list[i]>> \in Seq(Entry)
  BY DEF Lists
<1>3. QED
  BY <1>1, <1>2 DEF Lists

(* A request puts a list under the key, if anything.                         *)
LEMMA AskTyped ==
  ASSUME GraphsTyped, NEW key \in Keys, NEW list \in Lists \cup {None}, AskIfMissing(key, list)
  PROVE  GraphsTyped'
<1> DEFINE e == [query[key] EXCEPT !.asked = list, !.failed = FALSE]
<1>1. query[key] \in Cache
  BY DEF GraphsTyped
<1>2. e \in Cache
  BY <1>1 DEF Cache
<1>3. query' = [query EXCEPT ![key] = e] \/ query' = query
  BY DEF AskIfMissing
<1> HIDE DEF e
<1>4. QED
  BY <1>2, <1>3 DEF GraphsTyped

LEMMA EntryTyped ==
  ASSUME GraphsTyped, NEW key \in Keys, NEW e \in Cache, query' = [query EXCEPT ![key] = e]
  PROVE  GraphsTyped'
BY DEF GraphsTyped

LEMMA SetRulesTyped ==
  ASSUME Typed, Counted, NEW list \in Lists \cup {None}, SetRules(list), undoStack' \in Seq(Lists)
  PROVE  Typed'
<1>1. rules' = list /\ tab' = tab /\ UNCHANGED counts
  BY DEF SetRules
<1>2. StoreTyped' /\ CountsTyped'
  BY <1>1 DEF Typed, StoreTyped, CountsTyped, counts
<1>3. CASE RenderRules(list)
  <2>1. timer' = list /\ shadowPairs' \in {{}, shadowPairs} /\ scans' = scans /\ query' = query
    BY <1>3 DEF RenderRules, graphs
  <2>2. MarksTyped' /\ GraphsTyped'
    BY <1>1, <2>1 DEF Typed, MarksTyped, GraphsTyped
  <2>3. QED
    BY <1>2, <2>2 DEF Typed
<1>4. CASE RenderExposure(list)
  <2>1. UNCHANGED marks /\ (AskIfMissing(debounced, list) \/ UNCHANGED query)
    BY <1>4 DEF RenderExposure
  <2>2. debounced \in Keys
    BY DEF Counted
  <2>3. GraphsTyped'
    BY <2>1, <2>2, AskTyped DEF Typed, GraphsTyped
  <2>4. MarksTyped'
    BY <1>1, <2>1 DEF Typed, MarksTyped, marks
  <2>5. QED
    BY <1>2, <2>3, <2>4 DEF Typed
<1>5. QED
  BY <1>3, <1>4 DEF SetRules

LEMMA CommitTyped ==
  ASSUME Typed, Counted, NEW list \in Lists, Commit(list)
  PROVE  Typed'
<1>1. rules \in Lists /\ undoStack \in Seq(Lists) /\ undoStack' = Append(undoStack, rules)
  BY DEF Commit, Typed, StoreTyped
<1>2. undoStack' \in Seq(Lists)
  BY <1>1
<1>3. QED
  BY <1>2, SetRulesTyped DEF Commit

LEMMA EditsTyped ==
  ASSUME Typed, Counted, Load \/ Close \/ Toggle \/ Delete \/ MoveToTop \/ Undo
  PROVE  Typed'
<1>0. rules # None => rules \in Lists
  BY DEF Typed, StoreTyped
<1>1. CASE Load
  <2>1. <<>> \in Seq(Lists)
    OBVIOUS
  <2>2. QED
    BY <1>1, <2>1, FilesListed, SetRulesTyped DEF Load
<1>2. CASE Close
  <2>1. <<>> \in Seq(Lists)
    OBVIOUS
  <2>2. QED
    BY <1>2, <2>1, SetRulesTyped DEF Close
<1>3. CASE Toggle
  <2>1. PICK i \in DOMAIN rules : Commit([rules EXCEPT ![i].enabled = ~ @])
    BY <1>3 DEF Toggle
  <2>2. [rules EXCEPT ![i].enabled = ~ @] \in Lists
    BY <1>0, <1>3, ToggleTyped DEF Toggle
  <2>3. QED
    BY <2>1, <2>2, CommitTyped
<1>4. CASE Delete
  <2>1. PICK indices \in SUBSET DOMAIN rules : Commit(Without(rules, indices))
    BY <1>4 DEF Delete
  <2>2. Without(rules, indices) \in Lists
    BY <1>0, <1>4, DeleteTyped DEF Delete
  <2>3. QED
    BY <2>1, <2>2, CommitTyped
<1>5. CASE MoveToTop
  <2>1. PICK i \in DOMAIN rules : Commit(<<rules[i]>> \o RemoveAt(rules, i))
    BY <1>5 DEF MoveToTop
  <2>2. <<rules[i]>> \o RemoveAt(rules, i) \in Lists
    BY <1>0, <1>5, MoveTyped DEF MoveToTop
  <2>3. QED
    BY <2>1, <2>2, CommitTyped
<1>6. CASE Undo
  <2>1. Last(undoStack) \in Lists /\ Front(undoStack) \in Seq(Lists)
    BY <1>6, Ends DEF Undo, Typed, StoreTyped
  <2>2. QED
    BY <1>6, <2>1, SetRulesTyped DEF Undo
<1>7. QED
  BY <1>1, <1>2, <1>3, <1>4, <1>5, <1>6

(* The marks are pairs of rows, whatever the lists are that were scanned.    *)
LEMMA PairsTyped == ASSUME NEW list \in Lists PROVE OvershadowPairs(list) \subseteq Pairs
<1>1. DOMAIN list \subseteq Nat
  BY DEF Lists
<1>2. OvershadowPairs(list) \subseteq [shadowed : DOMAIN list, shadower : DOMAIN list]
  BY DEF OvershadowPairs
<1>3. QED
  BY <1>1, <1>2 DEF Pairs

LEMMA RulesTabTyped ==
  ASSUME Typed, Counted, TimerFires \/ ScanReplies \/ OpenExposure \/ OpenRules
  PROVE  Typed'
<1>1. CASE TimerFires
  <2>1. timer \in Lists
    BY <1>1 DEF TimerFires, Typed, MarksTyped
  <2>2. scans' \in Seq(Lists)
    BY <1>1, <2>1 DEF TimerFires, Typed, MarksTyped
  <2>3. QED
    BY <1>1, <2>2 DEF TimerFires, Typed, StoreTyped, MarksTyped, GraphsTyped, CountsTyped,
                      store, graphs, counts
<1>2. CASE ScanReplies
  <2>1. PICK i \in DOMAIN scans :
          shadowPairs' = OvershadowPairs(scans[i]) /\ scans' = RemoveAt(scans, i)
    BY <1>2 DEF ScanReplies
  <2>2. scans \in Seq(Lists) /\ scans[i] \in Lists
    BY DEF Typed, MarksTyped
  <2>3. scans' \in Seq(Lists) /\ shadowPairs' \subseteq Pairs
    BY <2>1, <2>2, Taken, PairsTyped
  <2>4. QED
    BY <1>2, <2>3 DEF ScanReplies, Typed, StoreTyped, MarksTyped, GraphsTyped, CountsTyped,
                      store, graphs, counts
<1>3. CASE OpenExposure
  <2>1. revision \in Keys /\ rules \in Lists \cup {None}
    BY DEF Counted, Typed, StoreTyped
  <2>2. GraphsTyped'
    BY <1>3, <2>1, AskTyped DEF OpenExposure, Typed, GraphsTyped
  <2>3. MarksTyped' /\ StoreTyped'
    BY <1>3 DEF OpenExposure, Typed, MarksTyped, StoreTyped, store
  <2>4. CountsTyped'
    BY <1>3, ViewsAssumption DEF OpenExposure, Typed, CountsTyped
  <2>5. QED
    BY <2>2, <2>3, <2>4 DEF Typed
<1>4. CASE OpenRules
  <2>1. MarksTyped' /\ StoreTyped' /\ GraphsTyped'
    BY <1>4 DEF OpenRules, Typed, MarksTyped, StoreTyped, GraphsTyped, store, graphs
  <2>2. CountsTyped'
    BY <1>4, ViewsAssumption DEF OpenRules, Typed, CountsTyped
  <2>3. QED
    BY <2>1, <2>2 DEF Typed
<1>5. QED
  BY <1>1, <1>2, <1>3, <1>4

LEMMA ExposureTabTyped ==
  ASSUME Typed, Counted, DebounceFires \/ Refresh \/ GraphArrives \/ GraphFails \/ Collect
  PROVE  Typed'
<1>1. StoreTyped' /\ MarksTyped'
  BY DEF DebounceFires, Refresh, GraphArrives, GraphFails, Collect,
         Typed, StoreTyped, MarksTyped, store, marks
<1>2. CountsTyped'
  <2>1. /\ switches \in 0 .. MaxSwitches /\ refreshes \in 0 .. MaxRefreshes /\ fails \in 0 .. MaxFails
        /\ MaxRefreshes \in Nat /\ MaxFails \in Nat
    BY ViewsAssumption DEF Typed, CountsTyped
  <2>2. CASE Refresh
    BY <2>1, <2>2 DEF Refresh, CountsTyped
  <2>3. CASE GraphFails
    <3>1. fails < MaxFails /\ fails' = fails + 1 /\ UNCHANGED <<switches, refreshes>>
      BY <2>3, Zenon DEF GraphFails
    <3>2. QED
      BY <2>1, <3>1 DEF CountsTyped
  <2>4. CASE DebounceFires \/ GraphArrives \/ Collect
    BY <2>1, <2>4 DEF DebounceFires, GraphArrives, Collect, CountsTyped, counts
  <2>5. QED
    BY <2>2, <2>3, <2>4
<1>3. rules \in Lists \cup {None} /\ revision \in Keys /\ debounced \in Keys /\ DOMAIN query = Keys
  BY DEF Counted, Typed, StoreTyped
<1>4. \A k \in Keys : query[k] \in Cache
  BY DEF Typed, GraphsTyped
<1>5. CASE DebounceFires
  BY <1>1, <1>2, <1>3, <1>5, AskTyped DEF DebounceFires, Typed, GraphsTyped
<1>6. CASE Refresh
  <2> DEFINE e == [query[debounced] EXCEPT !.asked = rules,
                     !.failed = query[debounced].failed /\ query[debounced].graph # None]
  <2>1. query' = [query EXCEPT ![debounced] = e]
    BY <1>3, <1>6 DEF Refresh
  <2>2. e \in Cache
    BY <1>3, <1>4 DEF Cache
  <2> HIDE DEF e
  <2>3. QED
    BY <1>1, <1>2, <1>3, <2>1, <2>2, EntryTyped DEF Typed
<1>7. CASE GraphArrives
  <2>1. PICK k \in Keys : query' = [query EXCEPT ![k] = [Missing EXCEPT !.graph = query[k].asked]]
    BY <1>3, <1>7 DEF GraphArrives
  <2>2. [Missing EXCEPT !.graph = query[k].asked] \in Cache
    BY <1>4 DEF Missing, Cache
  <2>3. QED
    BY <1>1, <1>2, <2>1, <2>2, EntryTyped DEF Typed
<1>8. CASE GraphFails
  <2>1. PICK k \in Keys : query' = [query EXCEPT ![k].asked = None, ![k].failed = TRUE]
    BY <1>3, <1>8 DEF GraphFails
  <2> DEFINE e == [query[k] EXCEPT !.asked = None, !.failed = TRUE]
  <2>2. query' = [query EXCEPT ![k] = e]
    BY <1>3, <2>1
  <2>3. e \in Cache
    BY <1>4 DEF Cache
  <2> HIDE DEF e
  <2>4. QED
    BY <1>1, <1>2, <2>2, <2>3, EntryTyped DEF Typed
<1>9. CASE Collect
  <2>1. PICK k \in Keys : query' = [query EXCEPT ![k] = Missing]
    BY <1>3, <1>9 DEF Collect
  <2>2. Missing \in Cache
    BY DEF Missing, Cache
  <2>3. QED
    BY <1>1, <1>2, <2>1, <2>2, EntryTyped DEF Typed
<1>10. QED
  BY <1>5, <1>6, <1>7, <1>8, <1>9

LEMMA InitTyped == Init => Typed
BY ViewsAssumption DEF Init, Typed, StoreTyped, MarksTyped, GraphsTyped, CountsTyped,
                       Cache, Missing, Keys

LEMMA NextTyped == ASSUME Typed, Counted, [Next]_vars PROVE Typed'
<1>1. CASE UNCHANGED vars
  BY <1>1 DEF vars, store, marks, graphs, counts,
              Typed, StoreTyped, MarksTyped, GraphsTyped, CountsTyped
<1>2. QED
  BY <1>1, EditsTyped, RulesTabTyped, ExposureTabTyped DEF Next

(* Every variable has its type, whatever the order in which scans are        *)
(* answered; and the rules, wherever they are held, are rules of the files   *)
(* that were opened.                                                         *)
LEMMA SpecTyped == Spec => [](Typed /\ IInv)
<1>1. Typed /\ IInv /\ [Next]_vars => (Typed /\ IInv)'
  BY NextTyped, NextIInv DEF IInv
<1>2. QED
  BY InitTyped, InitIInv, <1>1, PTL DEF Spec

THEOREM ViewsTypeCorrect == Spec => []TypeOK
<1>1. Typed /\ IInv => TypeOK
  <2> SUFFICES ASSUME Typed, IInv PROVE TypeOK
    OBVIOUS
  <2> DEFINE L == Seq([rule : Rules, enabled : BOOLEAN])
  <2>1. Lists \subseteq L
    <3>1. Entry \subseteq [rule : Rules, enabled : BOOLEAN]
      BY DEF Entry
    <3>2. \A S, T : S \subseteq T => Seq(S) \subseteq Seq(T)
      OBVIOUS
    <3>3. QED
      BY <3>1, <3>2 DEF Lists
  <2> HIDE DEF L
  <2>2. rules \in L \cup {None} /\ timer \in L \cup {None}
    BY <2>1 DEF Typed, StoreTyped, MarksTyped
  <2>3. undoStack \in Seq(L) /\ scans \in Seq(L)
    BY <2>1 DEF Typed, StoreTyped, MarksTyped
  <2>4. query \in [0 .. MaxChanges -> [graph : L \cup {None}, asked : L \cup {None}, failed : BOOLEAN]]
    BY <2>1 DEF Typed, GraphsTyped, Cache, Keys
  <2>5. revision \in 0 .. MaxChanges /\ debounced \in 0 .. revision
    BY DEF IInv, Counted, Keys
  <2>6. /\ tab \in {"rules", "exposure"} /\ shadowPairs \subseteq [shadowed : Nat, shadower : Nat]
        /\ switches \in 0 .. MaxSwitches /\ refreshes \in 0 .. MaxRefreshes /\ fails \in 0 .. MaxFails
    BY DEF Typed, MarksTyped, CountsTyped, Pairs
  <2>7. QED
    BY <2>2, <2>3, <2>4, <2>5, <2>6 DEF TypeOK, L
<1>2. QED
  BY <1>1, SpecTyped, PTL

-----------------------------------------------------------------------------
(* Covering and matching are two algorithms.  For comparable entries an      *)
(* entry that covers another matches whatever that one matches.  First, of   *)
(* texts.                                                                    *)
Chars(s, t, u) == ToSet(s) \cup ToSet(t) \cup ToSet(u)

LEMMA TextsOver ==
  ASSUME NEW s, NEW t, NEW u, IsText(s), IsText(t), IsText(u)
  PROVE  s \in Seq(Chars(s, t, u)) /\ t \in Seq(Chars(s, t, u)) /\ u \in Seq(Chars(s, t, u))
<1>1. ToSet(s) \subseteq Chars(s, t, u) /\ ToSet(t) \subseteq Chars(s, t, u) /\ ToSet(u) \subseteq Chars(s, t, u)
  BY DEF Chars
<1>2. s \in Seq(ToSet(s)) /\ t \in Seq(ToSet(t)) /\ u \in Seq(ToSet(u))
  BY DEF IsText
<1>3. \A S, T : S \subseteq T => Seq(S) \subseteq Seq(T)
  BY SeqMonotonic
<1>4. QED
  BY <1>1, <1>2, <1>3

(* A narrower glob matches less.                                             *)
LEMMA NarrowerMatches ==
  ASSUME NEW e, NEW l, NEW t, IsText(e), IsText(l), IsText(t),
         IsGlob(e), IsGlob(l), GlobCovers(e, l), GlobMatches(l, t)
  PROVE  GlobMatches(e, t)
<1> DEFINE C == Chars(e, l, t)
<1>1. e \in Seq(C) /\ l \in Seq(C) /\ t \in Seq(C)
  BY TextsOver
<1> HIDE DEF C
<1>2. Matches(l, t)
  BY <1>1, GlobMatchesMeansMatches
<1>3. Matches(e, t)
  BY <1>1, <1>2, CoverMatches
<1>4. QED
  BY <1>1, <1>3, GlobMatchesMeansMatches

(* A text and a star match every text that begins with that text.            *)
LEMMA PrefixMatches ==
  ASSUME NEW S, NEW x \in Seq(S), NEW r \in Seq(S)
  PROVE  GlobMatches(x \o <<Star>>, x \o r)
<1> DEFINE n == Len(x)
           a == x \o <<Star>>
           u == x \o r
           cut == [k \in 1 .. (n + 2) |-> IF k <= n + 1 THEN k ELSE Len(u) + 1]
<1>1. n \in Nat /\ Len(r) \in Nat /\ Len(a) = n + 1 /\ Len(u) = n + Len(r)
  OBVIOUS
<1>2. a \in Seq(S \cup {Star}) /\ u \in Seq(S)
  OBVIOUS
<1>3. \A k \in 1 .. n : a[k] = x[k] /\ u[k] = x[k]
  OBVIOUS
<1>4. a[n + 1] = Star
  OBVIOUS
<1> HIDE DEF a, u, n
<1>5. cut \in Cuts(a, u)
  BY <1>1 DEF Cuts
<1>6. ASSUME NEW k \in 1 .. Len(a)
      PROVE  IF a[k] = Star THEN cut[k] <= cut[k + 1]
             ELSE cut[k + 1] = cut[k] + 1 /\ Accepts(a[k], u[cut[k]])
  <2>1. CASE k = n + 1
    BY <1>1, <1>4, <2>1
  <2>2. CASE k \in 1 .. n
    <3>1. cut[k] = k /\ cut[k + 1] = k + 1
      BY <1>1, <2>2
    <3>2. a[k] = u[k]
      BY <1>3, <2>2
    <3>3. k \in Nat
      OBVIOUS
    <3>4. QED
      BY <3>1, <3>2, <3>3 DEF Accepts
  <2>3. QED
    BY <1>1, <2>1, <2>2
<1>7. Fits(a, u, 1, cut)
  BY <1>6 DEF Fits
<1>8. cut[1] = 1 /\ cut[Len(a) + 1] = Len(u) + 1
  BY <1>1
<1> HIDE DEF cut
<1>9. Matches(a, u)
  BY <1>5, <1>7, <1>8 DEF Matches, MatchesFrom
<1>10. GlobMatches(a, u)
  BY <1>2, <1>9, GlobMatchesMeansMatches
<1>11. QED
  BY <1>10 DEF a, u

-----------------------------------------------------------------------------
(* Addresses.  What two octets agree on they agree on less finely, too.      *)
Agree(x, y, i) == x \div 2 ^ i = y \div 2 ^ i

LEMMA Halves ==
  ASSUME NEW x \in 0 .. 255, NEW y \in 0 .. 255, NEW k \in 0 .. 7, Agree(x, y, k)
  PROVE  Agree(x, y, k + 1)
<1>1. x \div 2 ^ k = y \div 2 ^ k
  BY DEF Agree
<1>2. CASE k = 0
  <2>1. 2 ^ k = 1 /\ 2 ^ (k + 1) = 2
    BY <1>2
  <2>2. x \div 1 = y \div 1 => x \div 2 = y \div 2
    OBVIOUS
  <2>3. x \div 2 ^ (k + 1) = y \div 2 ^ (k + 1)
    BY <1>1, <2>1, <2>2
  <2>4. QED
    BY <2>3 DEF Agree
<1>3. CASE k = 1
  <2>1. 2 ^ k = 2 /\ 2 ^ (k + 1) = 4
    BY <1>3
  <2>2. x \div 2 = y \div 2 => x \div 4 = y \div 4
    OBVIOUS
  <2>3. x \div 2 ^ (k + 1) = y \div 2 ^ (k + 1)
    BY <1>1, <2>1, <2>2
  <2>4. QED
    BY <2>3 DEF Agree
<1>4. CASE k = 2
  <2>1. 2 ^ k = 4 /\ 2 ^ (k + 1) = 8
    BY <1>4
  <2>2. x \div 4 = y \div 4 => x \div 8 = y \div 8
    OBVIOUS
  <2>3. x \div 2 ^ (k + 1) = y \div 2 ^ (k + 1)
    BY <1>1, <2>1, <2>2
  <2>4. QED
    BY <2>3 DEF Agree
<1>5. CASE k = 3
  <2>1. 2 ^ k = 8 /\ 2 ^ (k + 1) = 16
    BY <1>5
  <2>2. x \div 8 = y \div 8 => x \div 16 = y \div 16
    OBVIOUS
  <2>3. x \div 2 ^ (k + 1) = y \div 2 ^ (k + 1)
    BY <1>1, <2>1, <2>2
  <2>4. QED
    BY <2>3 DEF Agree
<1>6. CASE k = 4
  <2>1. 2 ^ k = 16 /\ 2 ^ (k + 1) = 32
    BY <1>6
  <2>2. x \div 16 = y \div 16 => x \div 32 = y \div 32
    OBVIOUS
  <2>3. x \div 2 ^ (k + 1) = y \div 2 ^ (k + 1)
    BY <1>1, <2>1, <2>2
  <2>4. QED
    BY <2>3 DEF Agree
<1>7. CASE k = 5
  <2>1. 2 ^ k = 32 /\ 2 ^ (k + 1) = 64
    BY <1>7
  <2>2. x \div 32 = y \div 32 => x \div 64 = y \div 64
    OBVIOUS
  <2>3. x \div 2 ^ (k + 1) = y \div 2 ^ (k + 1)
    BY <1>1, <2>1, <2>2
  <2>4. QED
    BY <2>3 DEF Agree
<1>8. CASE k = 6
  <2>1. 2 ^ k = 64 /\ 2 ^ (k + 1) = 128
    BY <1>8
  <2>2. x \div 64 = y \div 64 => x \div 128 = y \div 128
    OBVIOUS
  <2>3. x \div 2 ^ (k + 1) = y \div 2 ^ (k + 1)
    BY <1>1, <2>1, <2>2
  <2>4. QED
    BY <2>3 DEF Agree
<1>9. CASE k = 7
  <2>1. 2 ^ k = 128 /\ 2 ^ (k + 1) = 256
    BY <1>9
  <2>2. x \div 128 = y \div 128 => x \div 256 = y \div 256
    OBVIOUS
  <2>3. x \div 2 ^ (k + 1) = y \div 2 ^ (k + 1)
    BY <1>1, <2>1, <2>2
  <2>4. QED
    BY <2>3 DEF Agree
<1>10. k = 0 \/ k = 1 \/ k = 2 \/ k = 3 \/ k = 4 \/ k = 5 \/ k = 6 \/ k = 7
  OBVIOUS
<1>11. QED
  BY <1>2, <1>3, <1>4, <1>5, <1>6, <1>7, <1>8, <1>9, <1>10

LEMMA Coarser ==
  ASSUME NEW x \in 0 .. 255, NEW y \in 0 .. 255, NEW i \in 0 .. 8, NEW j \in 0 .. 8,
         i <= j, Agree(x, y, i)
  PROVE  Agree(x, y, j)
<1> SUFFICES ASSUME ~ Agree(x, y, j) PROVE FALSE
  OBVIOUS
<1> DEFINE T == {k \in i .. 8 : ~ Agree(x, y, k)}
<1>1. T \in SUBSET Nat /\ j \in T
  OBVIOUS
<1> HIDE DEF T
<1>2. PICK m \in T : \A n \in T : m <= n
  BY <1>1, Least
<1> USE DEF T
<1>3. m \in i .. 8 /\ ~ Agree(x, y, m)
  BY <1>2
<1>4. m # i
  BY <1>3
<1>5. m - 1 \in i .. 8 /\ m - 1 \in 0 .. 7 /\ (m - 1) + 1 = m /\ ~ (m <= m - 1)
  BY <1>3, <1>4
<1>6. Agree(x, y, m - 1)
  BY <1>2, <1>5
<1>7. Agree(x, y, (m - 1) + 1)
  BY <1>5, <1>6, Halves
<1>8. QED
  BY <1>3, <1>5, <1>7

Bits(k, n) == IF n <= 8 * (k - 1) THEN 8 ELSE IF n >= 8 * k THEN 0 ELSE 8 * k - n

LEMMA InCidrAgrees ==
  ASSUME NEW p, NEW q, NEW n
  PROVE  InCidr(p, q, n) <=> \A k \in 1 .. 4 : Agree(p[k], q[k], Bits(k, n))
BY DEF InCidr, Block, Agree, Bits

LEMMA OctetsAre ==
  ASSUME NEW q \in Quads, NEW k \in 1 .. 4 PROVE q[k] \in Numbers /\ q[k] \in 0 .. 255
<1>1. q[k] \in Numbers
  BY DEF Quads
<1>2. Numbers \subseteq 0 .. 255
  BY MatcherAssumption
<1>3. QED
  BY <1>1, <1>2

LEMMA BlockWithin ==
  ASSUME NEW ip \in Quads, NEW p \in Quads, NEW q \in Quads, NEW m \in 0 .. 32, NEW n \in 0 .. 32,
         n >= m, InCidr(ip, p, n), InCidr(p, q, m)
  PROVE  InCidr(ip, q, m)
<1>1. ASSUME NEW k \in 1 .. 4 PROVE Agree(ip[k], q[k], Bits(k, m))
  <2>1. ip[k] \in 0 .. 255 /\ p[k] \in 0 .. 255
    BY OctetsAre
  <2>2. Bits(k, m) \in 0 .. 8 /\ Bits(k, n) \in 0 .. 8 /\ Bits(k, n) <= Bits(k, m)
    BY DEF Bits
  <2>3. Agree(ip[k], p[k], Bits(k, n)) /\ Agree(p[k], q[k], Bits(k, m))
    BY InCidrAgrees
  <2>4. Agree(ip[k], p[k], Bits(k, m))
    BY <2>1, <2>2, <2>3, Coarser
  <2>5. QED
    BY <2>3, <2>4 DEF Agree
<1>2. QED
  BY <1>1, InCidrAgrees

(* A block of whole octets fixes them.                                       *)
LEMMA WholeOctets ==
  ASSUME NEW ip \in Quads, NEW q, NEW m \in 1 .. 4, InCidr(ip, q, 8 * m),
         NEW k \in 1 .. m, q[k] \in 0 .. 255
  PROVE  ip[k] = q[k]
<1>1. k \in 1 .. 4 /\ 8 * m >= 8 * k /\ ~ (8 * m <= 8 * (k - 1))
  OBVIOUS
<1>2. Bits(k, 8 * m) = 0
  BY <1>1 DEF Bits
<1>3. Agree(ip[k], q[k], 0)
  BY <1>1, <1>2, InCidrAgrees
<1>4. ip[k] \in 0 .. 255
  BY <1>1, OctetsAre
<1>5. 2 ^ 0 = 1
  OBVIOUS
<1>6. ip[k] \div 1 = q[k] \div 1
  BY <1>3, <1>5 DEF Agree
<1>7. \A x \in 0 .. 255 : x \div 1 = x
  OBVIOUS
<1>8. QED
  BY <1>4, <1>6, <1>7

(* What addresses are written with.                                          *)
AddressChars == {"."} \cup UNION {ToSet(Spelled[n]) : n \in Numbers}
Writings == Seq(AddressChars)

LEMMA Regroup ==
  ASSUME NEW x \in Writings, NEW y \in Writings, NEW z \in Writings
  PROVE  (x \o y) \o z = x \o (y \o z)
BY ConcatAssociative DEF Writings

LEMMA Ended == ASSUME NEW x \in Writings PROVE x \o <<>> = x
BY ConcatEmptySeq DEF Writings

LEMMA Closed == ASSUME NEW x \in Writings, NEW y \in Writings PROVE x \o y \in Writings
BY ConcatProperties DEF Writings

LEMMA Spellings == ASSUME NEW n \in Numbers PROVE Spelled[n] \in Writings /\ <<".">> \in Writings
<1>1. Spelled[n] \in Seq(ToSet(Spelled[n]))
  BY TextAssumption DEF IsText
<1>2. ToSet(Spelled[n]) \subseteq AddressChars /\ "." \in AddressChars
  BY DEF AddressChars
<1>3. \A S, T : S \subseteq T => Seq(S) \subseteq Seq(T)
  BY SeqMonotonic
<1>4. <<".">> \in Seq(AddressChars)
  BY <1>2
<1>5. QED
  BY <1>1, <1>2, <1>3, <1>4 DEF Writings

(* An address that has the given first octets begins with their text.        *)
StartsWith(u, x) == \E r \in Writings : u = x \o r

LEMMA DottedBegins ==
  ASSUME NEW q \in Quads, NEW ns \in Seq(Numbers), Len(ns) \in 1 .. 3,
         \A k \in 1 .. Len(ns) : q[k] = ns[k]
  PROVE  /\ Dotted(ns) \in Writings
         /\ StartsWith(Dotted(q), Dotted(ns) \o <<".">>)
<1> DEFINE a == Spelled[q[1]]
           b == Spelled[q[2]]
           c == Spelled[q[3]]
           d == Spelled[q[4]]
           dot == <<".">>
<1>1. q[1] \in Numbers /\ q[2] \in Numbers /\ q[3] \in Numbers /\ q[4] \in Numbers
  BY OctetsAre
<1>2. a \in Writings /\ b \in Writings /\ c \in Writings /\ d \in Writings /\ dot \in Writings
  BY <1>1, Spellings
<1>3. DOMAIN q = 1 .. 4
  BY DEF Quads
<1>4. Dotted(q) = ((a \o (dot \o b)) \o (dot \o c)) \o (dot \o d)
  <2>1. 2 \in DOMAIN q /\ 3 \in DOMAIN q /\ 4 \in DOMAIN q
    BY <1>3
  <2>2. Spelled[q[1]] = a /\ Spelled[q[2]] = b /\ Spelled[q[3]] = c /\ Spelled[q[4]] = d
    OBVIOUS
  <2> HIDE DEF a, b, c, d
  <2>3. QED
    BY <2>1, <2>2 DEF Dotted
<1>5. DOMAIN ns = 1 .. Len(ns)
  OBVIOUS
<1>6. Len(ns) = 1 => Dotted(ns) = ((a \o <<>>) \o <<>>) \o <<>>
  <2> SUFFICES ASSUME Len(ns) = 1 PROVE Dotted(ns) = ((a \o <<>>) \o <<>>) \o <<>>
    OBVIOUS
  <2>1. 1 \in DOMAIN ns /\ 2 \notin DOMAIN ns /\ 3 \notin DOMAIN ns /\ 4 \notin DOMAIN ns
    BY <1>5
  <2>2. Spelled[ns[1]] = a
    BY <1>5, <2>1
  <2> HIDE DEF a
  <2>3. QED
    BY <2>1, <2>2 DEF Dotted
<1>7. Len(ns) = 2 => Dotted(ns) = ((a \o (dot \o b)) \o <<>>) \o <<>>
  <2> SUFFICES ASSUME Len(ns) = 2 PROVE Dotted(ns) = ((a \o (dot \o b)) \o <<>>) \o <<>>
    OBVIOUS
  <2>1. 1 \in DOMAIN ns /\ 2 \in DOMAIN ns /\ 3 \notin DOMAIN ns /\ 4 \notin DOMAIN ns
    BY <1>5
  <2>2. Spelled[ns[1]] = a /\ Spelled[ns[2]] = b
    BY <1>5, <2>1
  <2> HIDE DEF a, b
  <2>3. QED
    BY <2>1, <2>2 DEF Dotted
<1>8. Len(ns) = 3 => Dotted(ns) = ((a \o (dot \o b)) \o (dot \o c)) \o <<>>
  <2> SUFFICES ASSUME Len(ns) = 3 PROVE Dotted(ns) = ((a \o (dot \o b)) \o (dot \o c)) \o <<>>
    OBVIOUS
  <2>1. 1 \in DOMAIN ns /\ 2 \in DOMAIN ns /\ 3 \in DOMAIN ns /\ 4 \notin DOMAIN ns
    BY <1>5
  <2>2. Spelled[ns[1]] = a /\ Spelled[ns[2]] = b /\ Spelled[ns[3]] = c
    BY <1>5, <2>1
  <2> HIDE DEF a, b, c
  <2>3. QED
    BY <2>1, <2>2 DEF Dotted
<1> HIDE DEF a, b, c, d, dot
<1> DEFINE ab == a \o (dot \o b)
           abc == ab \o (dot \o c)
<1>9. /\ dot \o b \in Writings /\ dot \o c \in Writings /\ dot \o d \in Writings
      /\ ab \in Writings
  BY <1>2, Closed
<1>10. abc \in Writings
  BY <1>9, Closed
<1>20. ab = a \o (dot \o b) /\ abc = ab \o (dot \o c)
  OBVIOUS
<1>11. Dotted(q) = abc \o (dot \o d)
  BY <1>4
<1>12. /\ Len(ns) = 1 => Dotted(ns) = a
       /\ Len(ns) = 2 => Dotted(ns) = ab
       /\ Len(ns) = 3 => Dotted(ns) = abc
  BY <1>2, <1>6, <1>7, <1>8, <1>9, <1>10, Ended
<1> HIDE DEF ab, abc
<1>13. abc \o (dot \o d) = (abc \o dot) \o d
  BY <1>2, <1>10, Regroup
<1>14. abc \o (dot \o d) = (ab \o dot) \o (c \o (dot \o d))
  <2>1. abc = (ab \o dot) \o c
    <3>1. ab \in Writings /\ dot \in Writings /\ c \in Writings
      BY <1>2, <1>9
    <3>2. (ab \o dot) \o c = ab \o (dot \o c)
      BY <3>1, Regroup
    <3>3. QED
      BY <1>20, <3>2
  <2>2. ab \o dot \in Writings
    BY <1>2, <1>9, Closed
  <2>3. ((ab \o dot) \o c) \o (dot \o d) = (ab \o dot) \o (c \o (dot \o d))
    <3> DEFINE u == ab \o dot
               v == dot \o d
    <3>1. u \in Writings /\ c \in Writings /\ v \in Writings
      BY <1>2, <1>9, <2>2
    <3> HIDE DEF u, v
    <3>2. (u \o c) \o v = u \o (c \o v)
      BY <3>1, Regroup
    <3>3. QED
      BY <3>2 DEF u, v
  <2>4. QED
    BY <2>1, <2>3
<1>15. abc \o (dot \o d) = (a \o dot) \o ((b \o (dot \o c)) \o (dot \o d))
  <2>1. ab = (a \o dot) \o b
    BY <1>2, <1>20, Regroup
  <2>2. a \o dot \in Writings /\ b \o (dot \o c) \in Writings
    BY <1>2, <1>9, Closed
  <2>3. ((a \o dot) \o b) \o (dot \o c) = (a \o dot) \o (b \o (dot \o c))
    <3> DEFINE dc == dot \o c
               ad == a \o dot
    <3>1. ad \in Writings /\ b \in Writings /\ dc \in Writings
      BY <1>2, <1>9, <2>2
    <3> HIDE DEF dc, ad
    <3>2. (ad \o b) \o dc = ad \o (b \o dc)
      BY <3>1, Regroup
    <3>3. QED
      BY <3>2 DEF dc, ad
  <2>4. ((a \o dot) \o (b \o (dot \o c))) \o (dot \o d) = (a \o dot) \o ((b \o (dot \o c)) \o (dot \o d))
    <3> DEFINE u == a \o dot
               v == b \o (dot \o c)
               z == dot \o d
    <3>1. u \in Writings /\ v \in Writings /\ z \in Writings
      BY <1>9, <2>2
    <3> HIDE DEF u, v, z
    <3>2. (u \o v) \o z = u \o (v \o z)
      BY <3>1, Regroup
    <3>3. QED
      BY <3>2 DEF u, v, z
  <2>5. QED
    BY <1>20, <2>1, <2>3, <2>4
<1>16. CASE Len(ns) = 1
  <2>1. (b \o (dot \o c)) \o (dot \o d) \in Writings
    BY <1>2, <1>9, Closed
  <2>2. StartsWith(Dotted(q), a \o dot)
    BY <1>11, <1>15, <2>1 DEF StartsWith
  <2>3. QED
    BY <1>2, <1>12, <1>16, <2>2 DEF dot
<1>17. CASE Len(ns) = 2
  <2>1. c \o (dot \o d) \in Writings
    BY <1>2, <1>9, Closed
  <2>2. StartsWith(Dotted(q), ab \o dot)
    BY <1>11, <1>14, <2>1 DEF StartsWith
  <2>3. QED
    BY <1>9, <1>12, <1>17, <2>2 DEF dot
<1>18. CASE Len(ns) = 3
  <2>1. StartsWith(Dotted(q), abc \o dot)
    BY <1>2, <1>11, <1>13 DEF StartsWith
  <2>2. QED
    BY <1>10, <1>12, <1>18, <2>1 DEF dot
<1>19. QED
  BY <1>16, <1>17, <1>18

(* A wildcard is a glob, and matches the addresses of its block.             *)
LEMMA WildcardMatches ==
  ASSUME NEW e, NEW re \in ParseWildcard(e)
  PROVE  /\ IsGlob(e)
         /\ \A ip \in Quads : InCidr(ip, re[1], re[2]) => GlobMatches(e, Dotted(ip))
<1>1. PICK ns \in BoundedSeq(Numbers, 3) :
        /\ ns # <<>> /\ e \in {Dotted(ns) \o <<".", Star>>, Dotted(ns) \o <<Star>>}
        /\ re = <<[k \in 1 .. 4 |-> IF k <= Len(ns) THEN ns[k] ELSE 0], 8 * Len(ns)>>
  BY DEF ParseWildcard
<1>2. ns \in Seq(Numbers) /\ Len(ns) \in 1 .. 3
  <2>1. PICK m \in 0 .. 3 : ns \in [1 .. m -> Numbers]
    BY <1>1 DEF BoundedSeq, SeqOf
  <2>2. ns \in Seq(Numbers) /\ Len(ns) = m
    BY <2>1
  <2>3. m # 0
    BY <1>1, <2>2
  <2>4. QED
    BY <2>2, <2>3
<1>3. \A k \in 1 .. Len(ns) : re[1][k] = ns[k] /\ ns[k] \in 0 .. 255
  <2> TAKE k \in 1 .. Len(ns)
  <2>1. Numbers \subseteq 0 .. 255
    BY MatcherAssumption
  <2>2. k \in 1 .. 4 /\ k <= Len(ns) /\ ns[k] \in Numbers
    BY <1>2
  <2>3. re[1] = [j \in 1 .. 4 |-> IF j <= Len(ns) THEN ns[j] ELSE 0]
    BY <1>1
  <2>4. re[1][k] = ns[k]
    BY <2>2, <2>3
  <2>5. QED
    BY <2>1, <2>2, <2>4
<1> DEFINE x == Dotted(ns)
<1>4. ASSUME NEW ip \in Quads, InCidr(ip, re[1], re[2])
      PROVE  x \in Writings /\ StartsWith(Dotted(ip), x \o <<".">>)
  <2>1. InCidr(ip, re[1], 8 * Len(ns)) /\ Len(ns) \in 1 .. 4
    BY <1>1, <1>2, <1>4
  <2>2. ASSUME NEW k \in 1 .. Len(ns) PROVE ip[k] = re[1][k]
    <3> DEFINE q == re[1]
               m == Len(ns)
    <3>1. InCidr(ip, q, 8 * m) /\ m \in 1 .. 4 /\ k \in 1 .. m
      BY <2>1, <2>2
    <3>2. q[k] \in 0 .. 255
      BY <1>3, <2>2
    <3> HIDE DEF q, m
    <3>3. ip[k] = q[k]
      BY <3>1, <3>2, WholeOctets
    <3>4. QED
      BY <3>3 DEF q
  <2>3. \A k \in 1 .. Len(ns) : ip[k] = ns[k]
    BY <1>3, <2>2
  <2>4. QED
    BY <1>2, <2>3, DottedBegins
<1>5. x \in Writings
  <2>1. 0 \in Numbers /\ Numbers \subseteq 0 .. 255
    BY MatcherAssumption
  <2> DEFINE ip == [k \in 1 .. 4 |-> IF k <= Len(ns) THEN ns[k] ELSE 0]
  <2>2. ip \in Quads /\ \A k \in 1 .. Len(ns) : ip[k] = ns[k]
    BY <1>2, <2>1 DEF Quads
  <2> HIDE DEF ip
  <2>3. QED
    BY <1>2, <2>2, DottedBegins
<1>6. e = x \o <<".", Star>> \/ e = x \o <<Star>>
  BY <1>1
<1> HIDE DEF x
<1>7. x \in Seq(AddressChars)
  BY <1>5 DEF Writings
<1>8. (x \o <<".">>) \o <<Star>> = x \o <<".", Star>>
  BY <1>7
<1>9. IsGlob(e)
  <2>1. /\ Len(x) \in Nat
        /\ Len(x) + 2 \in DOMAIN (x \o <<".", Star>>) /\ (x \o <<".", Star>>)[Len(x) + 2] = Star
        /\ Len(x) + 1 \in DOMAIN (x \o <<Star>>) /\ (x \o <<Star>>)[Len(x) + 1] = Star
    BY <1>7
  <2>2. QED
    BY <1>6, <2>1 DEF IsGlob
<1>10. ASSUME NEW ip \in Quads, InCidr(ip, re[1], re[2]) PROVE GlobMatches(e, Dotted(ip))
  <2>1. PICK r \in Writings : Dotted(ip) = (x \o <<".">>) \o r
    BY <1>4, <1>10 DEF StartsWith
  <2>2. "." \in AddressChars
    BY DEF AddressChars
  <2>3. <<".">> \in Writings
    BY <2>2 DEF Writings
  <2>4. x \o <<".">> \in Seq(AddressChars) /\ r \in Seq(AddressChars) /\ <<".">> \o r \in Seq(AddressChars)
    BY <1>5, <2>1, <2>3, Closed DEF Writings
  <2>5. (x \o <<".">>) \o r = x \o (<<".">> \o r)
    BY <1>5, <2>1, <2>3, Regroup
  <2>6. GlobMatches((x \o <<".">>) \o <<Star>>, (x \o <<".">>) \o r)
    BY <2>4, PrefixMatches
  <2>7. GlobMatches(x \o <<Star>>, x \o (<<".">> \o r))
    BY <1>7, <2>4, PrefixMatches
  <2>8. QED
    BY <1>6, <1>8, <2>1, <2>5, <2>6, <2>7
<1>11. QED
  BY <1>9, <1>10

-----------------------------------------------------------------------------
(* What a parse gives, and of what.                                          *)
LEMMA AddressIs ==
  ASSUME NEW s, NEW q \in ParseIpv4(s)
  PROVE  q \in Quads /\ s = Dotted(q)
BY DEF ParseIpv4, Read, QuadTexts

LEMMA BlockIs ==
  ASSUME NEW s, NEW n \in ParseCidr(s)
  PROVE  n[1] \in Quads /\ n[2] \in 0 .. 32
<1>1. PICK v \in CidrTexts : n = v[1]
  BY DEF ParseCidr, Read
<1> DEFINE Text(w, k) == w[2] \o <<"/">> \o Spelled[k]
<1>2. CidrTexts = {<<<<w[1], k>>, Text(w, k)>> : w \in QuadTexts, k \in Numbers \cap 0 .. 32}
  BY DEF CidrTexts
<1> HIDE DEF Text
<1>3. PICK w \in QuadTexts, k \in Numbers \cap 0 .. 32 : v = <<<<w[1], k>>, Text(w, k)>>
  BY <1>1, <1>2
<1>4. w[1] \in Quads
  BY <1>3 DEF QuadTexts
<1>5. QED
  BY <1>1, <1>3, <1>4

LEMMA WildcardIs ==
  ASSUME NEW s, NEW n \in ParseWildcard(s)
  PROVE  n[1] \in Quads /\ n[2] \in 0 .. 32
<1>1. PICK ns \in BoundedSeq(Numbers, 3) :
        n = <<[k \in 1 .. 4 |-> IF k <= Len(ns) THEN ns[k] ELSE 0], 8 * Len(ns)>>
  BY DEF ParseWildcard
<1>2. PICK m \in 0 .. 3 : ns \in [1 .. m -> Numbers]
  BY <1>1 DEF BoundedSeq, SeqOf
<1>3. ns \in Seq(Numbers) /\ Len(ns) = m
  BY <1>2
<1>4. 0 \in Numbers
  BY MatcherAssumption
<1>5. n[1] = [k \in 1 .. 4 |-> IF k <= m THEN ns[k] ELSE 0] /\ n[2] = 8 * m
  BY <1>1, <1>3
<1>6. \A k \in 1 .. 4 : (IF k <= m THEN ns[k] ELSE 0) \in Numbers
  BY <1>2, <1>4
<1>7. n[1] \in [1 .. 4 -> Numbers]
  BY <1>5, <1>6
<1>8. n[2] \in 0 .. 32
  BY <1>5
<1>9. QED
  BY <1>7, <1>8 DEF Quads

LEMMA RangeIs ==
  ASSUME NEW s, NEW n \in ParseRange(s)
  PROVE  n[1] \in Quads /\ n[2] \in 0 .. 32
<1>1. CASE n \in ParseCidr(s)
  BY <1>1, BlockIs
<1>2. CASE n \in ParseWildcard(s)
  BY <1>2, WildcardIs
<1>3. CASE n \in {<<q, 32>> : q \in ParseIpv4(s)}
  <2>1. PICK q \in ParseIpv4(s) : n = <<q, 32>>
    BY <1>3
  <2>2. QED
    BY <2>1, AddressIs
<1>4. QED
  BY <1>1, <1>2, <1>3 DEF ParseRange

(* A range of 32 bits is one address.                                        *)
LEMMA OneAddress ==
  ASSUME NEW ip \in Quads, NEW q \in Quads, InCidr(ip, q, 32)
  PROVE  ip = q
<1>1. ASSUME NEW k \in 1 .. 4 PROVE ip[k] = q[k]
  <2>1. q[k] \in 0 .. 255
    BY OctetsAre
  <2> DEFINE m == 4
  <2>2. InCidr(ip, q, 8 * m) /\ m \in 1 .. 4 /\ k \in 1 .. m
    <3>1. 8 * m = 32
      OBVIOUS
    <3>2. QED
      BY <3>1
  <2> HIDE DEF m
  <2>3. QED
    BY <2>1, <2>2, WholeOctets
<1>2. QED
  BY <1>1 DEF Quads

-----------------------------------------------------------------------------
(* What an entry matches when it covers, comparably, one that matches.       *)

(* An address is in the range of every entry that matches it.                *)
LEMMA HostInRange ==
  ASSUME NEW l, NEW h \in Hosts, TargetMatches(l, h), ~ IsGlob(l), NEW rl \in ParseRange(l),
         \A x, y \in ParseRange(l) : x = y
  PROVE  \E ip \in ParseIpv4(h) : InCidr(ip, rl[1], rl[2])
<1>1. rl[1] \in Quads
  BY RangeIs
<1>2. CASE rl \in ParseCidr(l)
  <2>1. ParseCidr(h) = {}
    BY TextAssumption
  <2>2. l # h
    BY <1>2, <2>1
  <2>3. PICK net \in ParseCidr(l), ip \in ParseIpv4(h) : InCidr(ip, net[1], net[2])
    BY <2>2 DEF TargetMatches
  <2>4. net \in ParseRange(l)
    BY DEF ParseRange
  <2>5. net = rl
    BY <2>4
  <2>6. QED
    BY <2>3, <2>5
<1>3. CASE rl \in ParseWildcard(l)
  BY <1>3, WildcardMatches
<1>4. CASE rl \in {<<q, 32>> : q \in ParseIpv4(l)}
  <2>1. PICK q \in ParseIpv4(l) : rl = <<q, 32>>
    BY <1>4
  <2>2. CASE l = h
    <3>1. q \in ParseIpv4(h)
      BY <2>1, <2>2
    <3>2. InCidr(q, rl[1], rl[2])
      BY <2>1 DEF InCidr
    <3>3. QED
      BY <3>1, <3>2
  <2>3. CASE l # h
    <3>1. PICK net \in ParseCidr(l), ip \in ParseIpv4(h) : InCidr(ip, net[1], net[2])
      BY <2>3 DEF TargetMatches
    <3>2. net \in ParseRange(l)
      BY DEF ParseRange
    <3>3. net = rl
      BY <3>2
    <3>4. QED
      BY <3>1, <3>3
  <2>4. QED
    BY <2>2, <2>3
<1>5. QED
  BY <1>2, <1>3, <1>4 DEF ParseRange

LEMMA RangeSound ==
  ASSUME NEW e, NEW l, NEW h \in Hosts, TargetMatches(l, h), ~ IsGlob(l),
         NEW re \in ParseRange(e), NEW rl \in ParseRange(l),
         \A x, y \in ParseRange(l) : x = y,
         rl[2] >= re[2], InCidr(rl[1], re[1], re[2])
  PROVE  TargetMatches(e, h)
<1>1. PICK ip \in ParseIpv4(h) : InCidr(ip, rl[1], rl[2])
  BY HostInRange
<1>2. ip \in Quads /\ h = Dotted(ip)
  BY AddressIs
<1>3. re[1] \in Quads /\ re[2] \in 0 .. 32 /\ rl[1] \in Quads /\ rl[2] \in 0 .. 32
  BY RangeIs
<1>4. InCidr(ip, re[1], re[2])
  <2> DEFINE p == rl[1]
             q == re[1]
             n == rl[2]
             m == re[2]
  <2>1. p \in Quads /\ q \in Quads /\ n \in 0 .. 32 /\ m \in 0 .. 32
    BY <1>3
  <2>2. n >= m /\ InCidr(ip, p, n) /\ InCidr(p, q, m)
    BY <1>1
  <2> HIDE DEF p, q, n, m
  <2>3. InCidr(ip, q, m)
    BY <1>2, <2>1, <2>2, BlockWithin
  <2>4. QED
    BY <2>3 DEF q, m
<1>5. CASE re \in ParseCidr(e)
  BY <1>1, <1>4, <1>5 DEF TargetMatches
<1>6. CASE re \in ParseWildcard(e)
  <2>1. IsGlob(e) /\ GlobMatches(e, Dotted(ip))
    BY <1>2, <1>4, <1>6, WildcardMatches
  <2>2. QED
    BY <1>2, <2>1 DEF TargetMatches
<1>7. CASE re \in {<<q, 32>> : q \in ParseIpv4(e)}
  <2>1. PICK q \in ParseIpv4(e) : re = <<q, 32>>
    BY <1>7
  <2>2. q \in Quads /\ e = Dotted(q)
    BY AddressIs
  <2>3. InCidr(ip, q, 32)
    BY <1>4, <2>1
  <2>4. ip = q
    BY <1>2, <2>2, <2>3, OneAddress
  <2>5. e = h
    BY <1>2, <2>2, <2>4
  <2>6. QED
    BY <2>5 DEF TargetMatches
<1>8. QED
  BY <1>5, <1>6, <1>7 DEF ParseRange

LEMMA TargetSound ==
  ASSUME NEW a \in Rules, NEW b \in Rules, NEW e \in Body[a].targets, NEW l \in Body[b].targets,
         NEW h \in Hosts, TargetCovers(e, l), TargetsComparable(e, l), TargetMatches(l, h)
  PROVE  TargetMatches(e, h)
<1>1. IsText(e) /\ IsText(l) /\ IsText(h) /\ ~ IsGlob(h)
  BY TextAssumption
<1>2. (ParseCidr(l) # {} => ~ IsGlob(l)) /\ \A x, y \in ParseRange(l) : x = y
  BY TextAssumption
<1>3. ParseCidr(l) \subseteq ParseRange(l)
  BY DEF ParseRange
<1>4. CASE e = l
  BY <1>4
<1>5. CASE IsGlob(e) /\ IsGlob(l) /\ GlobCovers(e, l)
  <2>1. GlobMatches(l, h)
    BY <1>1, <1>2, <1>5 DEF TargetMatches
  <2>2. GlobMatches(e, h)
    BY <1>1, <1>5, <2>1, NarrowerMatches
  <2>3. QED
    BY <1>5, <2>2 DEF TargetMatches
<1>6. CASE ~ IsGlob(l) /\ \E re \in ParseRange(e), rl \in ParseRange(l) :
             rl[2] >= re[2] /\ InCidr(rl[1], re[1], re[2])
  BY <1>2, <1>6, RangeSound
<1>7. CASE IsGlob(e) /\ ~ IsGlob(l) /\ ParseCidr(l) = {} /\ GlobEntryCovers(e, l)
  <2>1. l = h
    BY <1>7 DEF TargetMatches
  <2>2. GlobMatches(e, l)
    BY <1>7 DEF GlobEntryCovers
  <2>3. QED
    BY <1>7, <2>1, <2>2 DEF TargetMatches
<1>8. QED
  BY <1>4, <1>5, <1>6, <1>7 DEF TargetCovers, TargetsComparable, GlobEntryCovers

(* A bare name is its own last part, and has no other.                       *)
LEMMA BareIsWhole ==
  ASSUME NEW s, IsText(s), IsBare(s)
  PROVE  Basename(s) = s
<1>1. s \in Seq(ToSet(s)) /\ Len(s) \in Nat
  BY DEF IsText
<1>2. \A i \in 1 .. Len(s) : s[i] \in ToSet(s)
  BY <1>1
<1>3. \A i \in 1 .. Len(s) : s[i] \notin Separators
  BY <1>2 DEF IsBare
<1>4. SelectLastInSeq(s, LAMBDA c : c \in Separators) = 0
  BY <1>3 DEF SelectLastInSeq
<1>5. Basename(s) = SubSeq(s, 0 + 1, Len(s))
  BY <1>4 DEF Basename
<1>6. SubSeq(s, 1, Len(s)) = s
  BY <1>1
<1>7. QED
  BY <1>5, <1>6

LEMMA ApplicationSound ==
  ASSUME NEW a \in Rules, NEW b \in Rules, NEW e \in Body[a].applications,
         NEW l \in Body[b].applications, NEW p \in Programs,
         ApplicationCovers(e, l), ApplicationsComparable(e, l), ApplicationMatches(l, p)
  PROVE  ApplicationMatches(e, p)
<1>1. IsText(e) /\ IsText(l) /\ IsText(p) /\ e # NoText
  BY TextAssumption
<1>2. CASE e = l
  BY <1>2
<1>3. CASE IsGlob(e) /\ IsGlob(l) /\ GlobCovers(e, l)
  <2>1. GlobMatches(l, p)
    BY <1>3 DEF ApplicationMatches
  <2>2. QED
    BY <1>1, <1>3, <2>1, NarrowerMatches DEF ApplicationMatches
<1>4. CASE IsGlob(e) /\ ~ IsGlob(l) /\ ~ IsBare(l) /\ GlobMatches(e, l)
  <2>1. l = p
    BY <1>4 DEF ApplicationMatches
  <2>2. QED
    BY <1>4, <2>1 DEF ApplicationMatches
<1>5. CASE ~ IsGlob(e) /\ IsBare(e) /\ ~ IsGlob(l) /\ e = Basename(l)
  <2>1. e = Basename(p)
    <3>1. l = IF IsBare(l) THEN Basename(p) ELSE p
      BY <1>5 DEF ApplicationMatches
    <3>2. IsBare(l) => e = l
      BY <1>1, <1>5, BareIsWhole
    <3>3. QED
      BY <1>5, <3>1, <3>2
  <2>2. QED
    BY <1>1, <1>5, <2>1 DEF ApplicationMatches
<1>6. QED
  BY <1>2, <1>3, <1>4, <1>5 DEF ApplicationCovers, ApplicationsComparable, GlobEntryCovers

-----------------------------------------------------------------------------
(* So a rule that covers another by comparable entries matches whatever the  *)
(* other matches.                                                            *)
LEMMA ListSound ==
  ASSUME NEW es, NEW ls, NEW given, NEW covers, NEW me, NEW ml,
         ListCovers(es, ls, covers), ListMatches(ls, given, ml),
         given => \A e \in es, l \in ls : covers[e][l] /\ ml[l] => me[e]
  PROVE  ListMatches(es, given, me)
BY DEF ListCovers, ListMatches

LEMMA PortsNat == Ports \subseteq Nat
<1>1. Ports \subseteq 1 .. LastPort
  BY MatcherAssumption
<1>2. QED
  BY <1>1

LEMMA PortsSound ==
  ASSUME NEW e \in Nat \X Nat, NEW l \in Nat \X Nat, NEW port \in Nat,
         PortCovers(e, l), PortMatches(l, port)
  PROVE  PortMatches(e, port)
<1>1. /\ Low(e) \in Nat /\ Low(l) \in Nat /\ High(e) \in Nat /\ High(l) \in Nat
  BY DEF Low, High
<1>2. Low(e) <= Low(l) /\ High(e) >= High(l) /\ Low(l) <= port /\ port <= High(l)
  BY DEF PortCovers, PortMatches
<1>3. Low(e) <= port /\ port <= High(e)
  BY <1>1, <1>2
<1>4. QED
  BY <1>3 DEF PortMatches

LEMMA CoverSound ==
  ASSUME NEW a \in Rules, NEW b \in Rules, NEW c \in Candidates,
         <<a, b>> \in ReliablyCovered, <<b, c>> \in Catches
  PROVE  <<a, c>> \in Catches
<1>1. RuleCovers(Body[a], Body[b]) /\ RuleMatches(Body[b], c)
  BY DEF ReliablyCovered, Covered, Catches
<1>2. /\ c.host # NoText => c.host \in Hosts
      /\ c.application # NoText => c.application \in Programs
      /\ c.port # NoPort => c.port \in Ports
  BY DEF Candidates
<1>3. ListMatches(Body[a].targets, c.host # NoText,
                  [e \in Body[a].targets |-> TargetMatches(e, c.host)])
  <2> DEFINE ca == [e \in Body[a].targets |-> [l \in Body[b].targets |->
                      TargetCovers(e, l) /\ TargetsComparable(e, l)]]
             ma == [e \in Body[a].targets |-> TargetMatches(e, c.host)]
             mb == [e \in Body[b].targets |-> TargetMatches(e, c.host)]
  <2>1. ListCovers(Body[a].targets, Body[b].targets, ca) /\ ListMatches(Body[b].targets, c.host # NoText, mb)
    BY <1>1 DEF ReliablyCovered, RuleMatches
  <2>2. ASSUME c.host # NoText, NEW e \in Body[a].targets, NEW l \in Body[b].targets, ca[e][l], mb[l]
        PROVE  ma[e]
    <3>1. TargetCovers(e, l) /\ TargetsComparable(e, l) /\ TargetMatches(l, c.host)
      BY <2>2
    <3>2. TargetMatches(e, c.host)
      BY <1>2, <2>2, <3>1, TargetSound
    <3>3. QED
      BY <3>2
  <2> HIDE DEF ca, ma, mb
  <2>3. ListMatches(Body[a].targets, c.host # NoText, ma)
    BY <2>1, <2>2, ListSound
  <2>4. QED
    BY <2>3 DEF ma
<1>4. ListMatches(Body[a].applications, c.application # NoText,
                  [e \in Body[a].applications |-> ApplicationMatches(e, c.application)])
  <2> DEFINE ca == [e \in Body[a].applications |-> [l \in Body[b].applications |->
                      ApplicationCovers(e, l) /\ ApplicationsComparable(e, l)]]
             ma == [e \in Body[a].applications |-> ApplicationMatches(e, c.application)]
             mb == [e \in Body[b].applications |-> ApplicationMatches(e, c.application)]
  <2>1. /\ ListCovers(Body[a].applications, Body[b].applications, ca)
        /\ ListMatches(Body[b].applications, c.application # NoText, mb)
    BY <1>1 DEF ReliablyCovered, RuleMatches
  <2>2. ASSUME c.application # NoText, NEW e \in Body[a].applications,
               NEW l \in Body[b].applications, ca[e][l], mb[l]
        PROVE  ma[e]
    <3>1. ApplicationCovers(e, l) /\ ApplicationsComparable(e, l) /\ ApplicationMatches(l, c.application)
      BY <2>2
    <3>2. ApplicationMatches(e, c.application)
      BY <1>2, <2>2, <3>1, ApplicationSound
    <3>3. QED
      BY <3>2
  <2> HIDE DEF ca, ma, mb
  <2>3. ListMatches(Body[a].applications, c.application # NoText, ma)
    BY <2>1, <2>2, ListSound
  <2>4. QED
    BY <2>3 DEF ma
<1>5. ListMatches(Body[a].ports, c.port # NoPort, [e \in Body[a].ports |-> PortMatches(e, c.port)])
  <2> DEFINE ca == [e \in Body[a].ports |-> [l \in Body[b].ports |-> PortCovers(e, l)]]
             ma == [e \in Body[a].ports |-> PortMatches(e, c.port)]
             mb == [e \in Body[b].ports |-> PortMatches(e, c.port)]
  <2>1. ListCovers(Body[a].ports, Body[b].ports, ca) /\ ListMatches(Body[b].ports, c.port # NoPort, mb)
    BY <1>1 DEF RuleCovers, RuleMatches
  <2>2. ASSUME c.port # NoPort, NEW e \in Body[a].ports, NEW l \in Body[b].ports, ca[e][l], mb[l]
        PROVE  ma[e]
    <3>1. PortCovers(e, l) /\ PortMatches(l, c.port)
      BY <2>2
    <3>2. e \in Nat \X Nat /\ l \in Nat \X Nat
      BY MatcherAssumption
    <3>3. c.port \in Nat
      BY <1>2, <2>2, PortsNat
    <3>4. PortMatches(e, c.port)
      BY <3>1, <3>2, <3>3, PortsSound
    <3>5. QED
      BY <3>4
  <2> HIDE DEF ca, ma, mb
  <2>3. ListMatches(Body[a].ports, c.port # NoPort, ma)
    BY <2>1, <2>2, ListSound
  <2>4. QED
    BY <2>3 DEF ma
<1>6. RuleMatches(Body[a], c)
  BY <1>3, <1>4, <1>5 DEF RuleMatches
<1>7. QED
  BY <1>6 DEF Catches

(* The rows of a list that the detector names because of such a rule.        *)
DeadIn(list) ==
  {p.shadowed : p \in {q \in OvershadowPairs(list) :
     <<list[q.shadower].rule, list[q.shadowed].rule>> \in ReliablyCovered}}

(* Such a row never decides a connection.                                    *)
LEMMA DeadLoses ==
  ASSUME NEW list \in Lists, NEW c \in Candidates, NEW i \in DeadIn(list)
  PROVE  /\ i \in DOMAIN list /\ i \notin Winner(list, c)
         /\ list[i].enabled
         /\ <<list[i].rule, c>> \in Catches =>
              \E j \in 1 .. i - 1 : list[j].enabled /\ <<list[j].rule, c>> \in Catches
<1>1. PICK p \in OvershadowPairs(list) :
        /\ i = p.shadowed
        /\ <<list[p.shadower].rule, list[p.shadowed].rule>> \in ReliablyCovered
  BY DEF DeadIn
<1> DEFINE j == p.shadower
<1>2. /\ i \in DOMAIN list /\ j \in DOMAIN list /\ list[i].enabled
      /\ j < i /\ list[j].enabled /\ <<list[j].rule, list[i].rule>> \in ReliablyCovered
  BY <1>1 DEF OvershadowPairs
<1> HIDE DEF j
<1>3. /\ DOMAIN list \subseteq Nat \ {0} /\ list[i] \in Entry /\ list[j] \in Entry
  BY <1>2 DEF Lists
<1>4. list[i].rule \in Rules /\ list[j].rule \in Rules
  BY <1>3 DEF Entry
<1>5. j \in 1 .. i - 1
  <2>1. i \in Nat \ {0} /\ j \in Nat \ {0}
    BY <1>2, <1>3
  <2>2. QED
    BY <1>2, <2>1
<1>6. <<list[i].rule, c>> \in Catches => <<list[j].rule, c>> \in Catches
  BY <1>2, <1>4, CoverSound
<1>7. QED
  BY <1>2, <1>5, <1>6 DEF Winner

(* What the mark on a row says: whatever edits, undos, tab switches and late *)
(* scans went before, once nothing is pending no connection meets first a    *)
(* rule that is marked because of comparable entries.  It rests on scans     *)
(* being answered in order, and on nothing else.                             *)
THEOREM MarkedRulesNeverWin == ASSUME Ordered PROVE Spec => []MarkedNeverWins
<1>1. Typed /\ MarksCurrent => MarkedNeverWins
  <2> SUFFICES ASSUME Typed, MarksCurrent, MarksSettled, NEW c \in Candidates
               PROVE  Winner(rules, c) \cap Dead = {}
    BY DEF MarkedNeverWins
  <2>1. rules \in Lists /\ shadowPairs = OvershadowPairs(rules)
    BY DEF Typed, StoreTyped, MarksCurrent, MarksSettled
  <2>2. Dead = DeadIn(rules)
    BY <2>1 DEF Dead, DeadIn
  <2>3. \A i \in DeadIn(rules) : i \notin Winner(rules, c)
    BY <2>1, DeadLoses
  <2>4. QED
    BY <2>2, <2>3
<1>2. Ordered
  OBVIOUS
<1>3. Spec => []MarksCurrent
  BY <1>2, MarksAreCurrent
<1>4. QED
  BY <1>1, <1>3, SpecTyped, PTL

-----------------------------------------------------------------------------
(* The rows of a list that would decide about c if they came first.          *)
Catching(list, c) == {i \in DOMAIN list : list[i].enabled /\ <<list[i].rule, c>> \in Catches}

LEMMA WinnerIsFirst ==
  ASSUME NEW list \in Lists, NEW c, NEW i
  PROVE  i \in Winner(list, c) <=> i \in Catching(list, c) /\ \A k \in Catching(list, c) : i <= k
<1>1. DOMAIN list = 1 .. Len(list) /\ Len(list) \in Nat
  BY DEF Lists
<1>2. ASSUME i \in DOMAIN list
      PROVE  (\A k \in 1 .. i - 1 : ~(list[k].enabled /\ <<list[k].rule, c>> \in Catches))
               <=> \A k \in Catching(list, c) : i <= k
  <2>1. i \in Nat /\ \A k \in DOMAIN list : k \in Nat /\ (~(i <= k) => k \in 1 .. i - 1)
    BY <1>1, <1>2
  <2>2. \A k \in 1 .. i - 1 : k \in DOMAIN list /\ ~(i <= k)
    BY <1>1, <1>2
  <2>3. QED
    BY <2>1, <2>2 DEF Catching
<1>3. QED
  BY <1>2 DEF Winner, Catching

(* Among the other rows there is one that comes no later than any that       *)
(* catches.                                                                  *)
LEMMA KeptCatches ==
  ASSUME NEW list \in Lists, NEW c \in Candidates, Catching(list, c) # {}
  PROVE  \E w \in Catching(list, c) \ DeadIn(list) :
           \A i \in Catching(list, c) : w <= i
<1>1. DOMAIN list = 1 .. Len(list) /\ Len(list) \in Nat
  BY DEF Lists
<1>2. Catching(list, c) \in SUBSET Nat
  BY <1>1 DEF Catching
<1>3. PICK w \in Catching(list, c) : \A i \in Catching(list, c) : w <= i
  BY <1>2, Least
<1>4. w \in Winner(list, c)
  BY <1>3, WinnerIsFirst
<1>5. w \notin DeadIn(list)
  BY <1>4, DeadLoses
<1>6. QED
  BY <1>3, <1>5

LEMMA DeletingKeeps ==
  ASSUME NEW list \in Lists, NEW c \in Candidates, NEW D \in SUBSET DeadIn(list)
  PROVE  Outcome(Without(list, D), c) = Outcome(list, c)
<1> DEFINE kept == DOMAIN list \ D
           m == Cardinality(kept)
           t == Without(list, D)
<1>1. t \in Seq(Entry) /\ KeepsRows(t, list, kept, m)
  <2>1. list \in Seq(Entry)
    BY DEF Lists
  <2>2. QED
    BY <2>1, WithoutIs
<1> HIDE DEF t, m
<1>2. PICK row \in [1 .. m -> kept] :
        /\ \A k \in 1 .. m : t[k] = list[row[k]]
        /\ \A j, k \in 1 .. m : j < k => row[j] < row[k]
        /\ \A i \in kept : \E k \in 1 .. m : row[k] = i
  BY <1>1 DEF KeepsRows
<1>3. DOMAIN list \subseteq Nat /\ t \in Lists /\ DOMAIN t = 1 .. m /\ m \in Nat
  BY <1>1 DEF Lists, KeepsRows
<1>4. \A k \in 1 .. m : row[k] \in kept /\ row[k] \in Nat /\ k \in Nat
  BY <1>2, <1>3
<1>5. \A k \in 1 .. m : k \in Catching(t, c) <=> row[k] \in Catching(list, c)
  BY <1>2, <1>3, <1>4 DEF Catching
<1>6. \A j, k \in 1 .. m : row[j] <= row[k] => j <= k
  BY <1>2, <1>4
<1>7. \A j, k \in 1 .. m : j <= k => row[j] <= row[k]
  <2> SUFFICES ASSUME NEW j \in 1 .. m, NEW k \in 1 .. m, j <= k PROVE row[j] <= row[k]
    OBVIOUS
  <2>1. CASE j = k
    BY <1>4, <2>1
  <2>2. CASE j < k
    BY <1>2, <1>4, <2>2
  <2>3. QED
    BY <1>4, <2>1, <2>2
<1>8. ASSUME NEW i \in Winner(list, c)
      PROVE  \E k \in Winner(t, c) : t[k] = list[i]
  <2>1. i \in DOMAIN list /\ i \notin D
    BY <1>8, DeadLoses DEF Winner
  <2>2. PICK k \in 1 .. m : row[k] = i
    BY <1>2, <2>1
  <2>3. i \in Catching(list, c) /\ \A l \in Catching(list, c) : i <= l
    BY WinnerIsFirst
  <2>4. k \in Catching(t, c)
    BY <1>5, <2>2, <2>3
  <2>5. ASSUME NEW l \in Catching(t, c) PROVE k <= l
    <3>1. l \in 1 .. m
      BY <1>3 DEF Catching
    <3>2. QED
      BY <1>5, <1>6, <2>2, <2>3, <3>1
  <2>6. k \in Winner(t, c)
    BY <1>3, <2>4, <2>5, WinnerIsFirst
  <2>7. QED
    BY <1>2, <2>2, <2>6
<1>9. ASSUME NEW k \in Winner(t, c)
      PROVE  \E i \in Winner(list, c) : list[i] = t[k]
  <2>1. k \in Catching(t, c) /\ \A l \in Catching(t, c) : k <= l
    BY <1>3, WinnerIsFirst
  <2>2. k \in 1 .. m
    BY <1>3, <2>1 DEF Catching
  <2>3. row[k] \in Catching(list, c)
    BY <1>5, <2>1, <2>2
  <2>4. PICK w \in Catching(list, c) \ DeadIn(list) :
          \A i \in Catching(list, c) : w <= i
    BY <2>3, KeptCatches
  <2>5. w \in kept
    BY <2>4 DEF Catching
  <2>6. PICK l \in 1 .. m : row[l] = w
    BY <1>2, <2>5
  <2>7. l \in Catching(t, c)
    BY <1>5, <2>4, <2>6
  <2>8. row[k] <= w
    BY <1>7, <2>1, <2>2, <2>6, <2>7
  <2>9. w \in Nat /\ row[k] \in Nat
    BY <1>3, <1>4, <2>2, <2>5
  <2>10. row[k] = w
    BY <2>3, <2>4, <2>8, <2>9
  <2>11. w \in Winner(list, c)
    BY <2>4, WinnerIsFirst
  <2>12. QED
    BY <1>2, <2>2, <2>10, <2>11
<1>10. Outcome(t, c) = Outcome(list, c)
  BY <1>8, <1>9 DEF Outcome
<1>11. QED
  BY <1>10 DEF t

(* What the marks invite to: deleting any of those rows, in one step,        *)
(* changes what happens to no connection.  Each row that goes has one before *)
(* it that stays and takes the same connections, because the first row that  *)
(* takes one is never such a row.                                            *)
THEOREM MarkedRulesMayGo == ASSUME Ordered PROVE Spec => MarkedMayGo
<1> DEFINE Going == MarksSettled /\ (\E indices \in SUBSET Dead : rules' = Without(rules, indices))
           Kept == \A c \in Candidates : Outcome(rules', c) = Outcome(rules, c)
<1>1. Typed /\ MarksCurrent => (Going => Kept)
  <2> SUFFICES ASSUME Typed, MarksCurrent, Going, NEW c \in Candidates
               PROVE  Outcome(rules', c) = Outcome(rules, c)
    OBVIOUS
  <2>1. rules \in Lists /\ shadowPairs = OvershadowPairs(rules)
    BY DEF Typed, StoreTyped, MarksCurrent, MarksSettled
  <2>2. PICK D \in SUBSET Dead : rules' = Without(rules, D)
    OBVIOUS
  <2>3. Dead = DeadIn(rules)
    BY <2>1 DEF Dead, DeadIn
  <2>4. QED
    BY <2>1, <2>2, <2>3, DeletingKeeps
<1>2. Ordered
  OBVIOUS
<1>3. Spec => []MarksCurrent
  BY <1>2, MarksAreCurrent
<1> HIDE DEF Going, Kept
<1>4. Spec => [][Going => Kept]_vars
  BY <1>1, <1>3, SpecTyped, PTL
<1>5. QED
  BY <1>4, PTL DEF MarkedMayGo, Going, Kept
-----------------------------------------------------------------------------
(* The data of a profile. *)
Row == [rule : Rules, enabled : BOOLEAN]

LEMMA ProfileRows ==
  ASSUME NEW q \in Profiles
  PROVE  /\ q.rules \in Seq(Row) /\ Len(q.rules) \in Nat /\ DOMAIN q.rules = 1 .. Len(q.rules)
         /\ \A i \in DOMAIN q.rules : q.rules[i].rule \in Rules
<1>1. q.rules \in Seq(Row)
  BY ExposureAssumption DEF Row
<1>2. \A i \in DOMAIN q.rules : q.rules[i] \in Row
  <2>1. \A S : q.rules \in Seq(S) => \A i \in DOMAIN q.rules : q.rules[i] \in S
    OBVIOUS
  <2>2. QED
    BY <1>1, <2>1
<1>3. \A i \in DOMAIN q.rules : q.rules[i].rule \in Rules
  BY <1>2 DEF Row
<1>4. Len(q.rules) \in Nat /\ DOMAIN q.rules = 1 .. Len(q.rules)
  BY <1>1
<1>5. QED
  BY <1>1, <1>3, <1>4

(* The names of a profile are finitely many, so each has a bucket.           *)
LEMMA NamesFinite == ASSUME NEW q \in Profiles PROVE IsFiniteSet(NamesIn(q.rules))
<1> DEFINE n == Len(q.rules)
           A == {BodyAt(q.rules, i).applications : i \in DOMAIN q.rules}
           f == [i \in 1 .. n |-> BodyAt(q.rules, i).applications]
           g == [e \in UNION A |-> NamedBy(e)]
           B == {NamedBy(e) : e \in UNION A}
<1>1. n \in Nat /\ DOMAIN q.rules = 1 .. n /\ \A i \in 1 .. n : q.rules[i].rule \in Rules
  BY ProfileRows
<1>2. f \in Surjection(1 .. n, A)
  BY <1>1 DEF Surjection
<1>3. IsFiniteSet(1 .. n)
  BY <1>1, FS_Interval
<1>4. \A T \in A : IsFiniteSet(T)
  BY <1>1, ExposureAssumption DEF BodyAt
<1> HIDE DEF f, n
<1>5. IsFiniteSet(A)
  BY <1>2, <1>3, FS_Surjection
<1>6. IsFiniteSet(UNION A)
  <2> HIDE DEF A
  <2>1. QED
    BY <1>4, <1>5, FS_UNION
<1>7. g \in Surjection(UNION A, B)
  BY DEF Surjection
<1>8. IsFiniteSet(B)
  <2> HIDE DEF A, B, g
  <2>1. QED
    BY <1>6, <1>7, FS_Surjection
<1>9. \A T \in B : IsFiniteSet(T)
  <2>1. \A x : IsFiniteSet({x}) /\ IsFiniteSet({x} \ {NoText})
    BY FS_Singleton, FS_Difference
  <2>2. IsFiniteSet({})
    BY FS_EmptySet
  <2>3. \A e : NamedBy(e) = {} \/ NamedBy(e) = {Basename(e)} \ {NoText}
    BY DEF NamedBy
  <2>4. QED
    BY <2>1, <2>2, <2>3
<1>10. IsFiniteSet(UNION B)
  <2> HIDE DEF B
  <2>1. QED
    BY <1>8, <1>9, FS_UNION
<1>11. IsFiniteSet(Hints)
  BY ExposureAssumption
<1>12. IsFiniteSet(Hints \cup UNION B)
  <2> HIDE DEF B
  <2>1. QED
    BY <1>10, <1>11, FS_Union
<1>13. NamesIn(q.rules) = Hints \cup UNION B
  BY DEF NamesIn
<1>14. QED
  BY <1>12, <1>13

(* The sequence of a finite set: each member once.                           *)
LEMMA SequenceOfSet ==
  ASSUME NEW S, IsFiniteSet(S)
  PROVE  /\ SetToSeq(S) \in Seq(S) /\ Len(SetToSeq(S)) \in Nat
         /\ \A x \in S : \E i \in 1 .. Len(SetToSeq(S)) : SetToSeq(S)[i] = x
         /\ \A i, j \in 1 .. Len(SetToSeq(S)) : SetToSeq(S)[i] = SetToSeq(S)[j] => i = j
<1> DEFINE n == Cardinality(S)
           s == SetToSeq(S)
<1>1. n \in Nat /\ ExistsBijection(1 .. n, S)
  BY FS_CardinalityType
<1>2. \E f \in [1 .. n -> S] : IsInjective(f)
  BY <1>1 DEF ExistsBijection, Bijection, Injection
<1>3. s \in [1 .. n -> S] /\ IsInjective(s)
  BY <1>2 DEF SetToSeq
<1> HIDE DEF n, s
<1>4. s \in Injection(1 .. n, S)
  BY <1>3 DEF Injection
<1>5. IsFiniteSet(1 .. n) /\ Cardinality(1 .. n) = n
  <2>1. \A l \in Nat : IsFiniteSet(1 .. l) /\ Cardinality(1 .. l) = l
    BY FS_Interval
  <2>2. QED
    BY <1>1, <2>1
<1>6. s \in Surjection(1 .. n, S)
  BY <1>4, <1>5, FS_Injection DEF n
<1>7. s \in Seq(S) /\ Len(s) = n
  BY <1>1, <1>3
<1>8. \A x \in S : \E i \in 1 .. n : s[i] = x
  BY <1>6 DEF Surjection
<1>9. \A i, j \in 1 .. n : s[i] = s[j] => i = j
  BY <1>3 DEF IsInjective
<1>10. QED
  BY <1>1, <1>7, <1>8, <1>9 DEF s

(* There is a bucket for each name, and one for all others.                  *)
LEMMA BucketsAre ==
  ASSUME NEW q \in Profiles
  PROVE  /\ Unlisted \notin NamesIn(q.rules)
         /\ Len(Buckets(q.rules)) \in Nat \ {0}
         /\ DOMAIN Buckets(q.rules) = 1 .. Len(Buckets(q.rules))
         /\ \A i \in DOMAIN Buckets(q.rules) : Buckets(q.rules)[i] \in NamesIn(q.rules) \cup {Unlisted}
         /\ \A x \in NamesIn(q.rules) \cup {Unlisted} :
              \E i \in DOMAIN Buckets(q.rules) : Buckets(q.rules)[i] = x
         /\ \A i, j \in DOMAIN Buckets(q.rules) : Buckets(q.rules)[i] = Buckets(q.rules)[j] => i = j
<1> DEFINE S == NamesIn(q.rules)
           s == SetToSeq(S)
           b == Buckets(q.rules)
<1>1. IsFiniteSet(S)
  BY NamesFinite
<1>2. Unlisted \notin S
  <2>1. NoText \notin Hints
    BY ExposureAssumption
  <2>2. QED
    BY <2>1 DEF NamesIn, NamedBy, Unlisted
<1> HIDE DEF S
<1>3. /\ s \in Seq(S) /\ Len(s) \in Nat
      /\ \A x \in S : \E i \in 1 .. Len(s) : s[i] = x
      /\ \A i, j \in 1 .. Len(s) : s[i] = s[j] => i = j
  BY <1>1, SequenceOfSet
<1>4. b = s \o <<Unlisted>>
  BY DEF Buckets, S
<1> HIDE DEF s, b
<1>5. /\ Len(b) = Len(s) + 1 /\ DOMAIN b = 1 .. Len(s) + 1
      /\ \A i \in 1 .. Len(s) : b[i] = s[i]
      /\ b[Len(s) + 1] = Unlisted
  BY <1>3, <1>4
<1>6. \A i \in 1 .. Len(s) + 1 : i \in 1 .. Len(s) \/ i = Len(s) + 1
  BY <1>3
<1>7. \A i \in 1 .. Len(s) : b[i] \in S
  BY <1>3, <1>5
<1>8. \A i \in DOMAIN b : b[i] \in S \cup {Unlisted}
  BY <1>5, <1>6, <1>7
<1>9. Len(s) + 1 \in 1 .. Len(s) + 1 /\ \A i \in 1 .. Len(s) : i \in 1 .. Len(s) + 1
  BY <1>3
<1>10. \A x \in S \cup {Unlisted} : \E i \in DOMAIN b : b[i] = x
  BY <1>3, <1>5, <1>9
<1>11. \A i, j \in DOMAIN b : b[i] = b[j] => i = j
  BY <1>2, <1>3, <1>5, <1>6, <1>7
<1>12. Len(b) \in Nat \ {0} /\ DOMAIN b = 1 .. Len(b)
  BY <1>3, <1>5
<1>13. QED
  BY <1>2, <1>8, <1>10, <1>11, <1>12 DEF b, S

(* Where the enabled rules stand.                                            *)
LEMMA Positions ==
  ASSUME NEW q \in Profiles
  PROVE  LET on == EnabledIn(q.rules)
         IN  /\ on \in SUBSET (1 .. Len(q.rules)) /\ Cardinality(on) \in Nat
             /\ DOMAIN RuleRefs(q.rules) = 1 .. Cardinality(on)
             /\ \A i \in on : /\ Position(q.rules, i) \in 1 .. Cardinality(on)
                              /\ RuleRefs(q.rules)[Position(q.rules, i)] = i
             /\ \A i, j \in on : i < j <=> Position(q.rules, i) < Position(q.rules, j)
<1> DEFINE on == EnabledIn(q.rules)
           n == Len(q.rules)
           m == Cardinality(on)
<1>1. n \in Nat /\ DOMAIN q.rules = 1 .. n
  BY ProfileRows
<1>2. on \in SUBSET (1 .. n)
  BY <1>1 DEF EnabledIn
<1> HIDE DEF on, n
<1>3. m \in Nat /\ \A i \in on : i \in Nat
  BY <1>1, <1>2, SetOfRows
<1>4. /\ \A i \in on : Rank(on, i) \in 1 .. m
      /\ \A i, j \in on : i < j => Rank(on, i) < Rank(on, j)
  BY <1>1, <1>2, RankGrows
<1>5. \A i \in on : Rank(on, i) \in Nat
  BY <1>3, <1>4
<1>6. \A i, j \in on : i < j <=> Rank(on, i) < Rank(on, j)
  <2> SUFFICES ASSUME NEW i \in on, NEW j \in on PROVE i < j <=> Rank(on, i) < Rank(on, j)
    OBVIOUS
  <2>1. i \in Nat /\ j \in Nat /\ Rank(on, i) \in Nat /\ Rank(on, j) \in Nat
    BY <1>3, <1>5
  <2>2. (i < j => Rank(on, i) < Rank(on, j)) /\ (j < i => Rank(on, j) < Rank(on, i))
    BY <1>4
  <2>3. i = j => Rank(on, i) = Rank(on, j)
    OBVIOUS
  <2>4. QED
    BY <2>1, <2>2, <2>3
<1>7. \A i, j \in on : Rank(on, i) = Rank(on, j) => i = j
  <2> SUFFICES ASSUME NEW i \in on, NEW j \in on, Rank(on, i) = Rank(on, j) PROVE i = j
    OBVIOUS
  <2>1. i \in Nat /\ j \in Nat /\ Rank(on, i) \in Nat
    BY <1>3, <1>5
  <2>2. ~(i < j) /\ ~(j < i)
    BY <1>4, <2>1
  <2>3. QED
    BY <2>1, <2>2
<1>8. RuleRefs(q.rules) = [k \in 1 .. m |-> CHOOSE i \in on : Rank(on, i) = k]
  BY DEF RuleRefs, Position, on
<1>9. \A i \in on : (CHOOSE j \in on : Rank(on, j) = Rank(on, i)) = i
  BY <1>7
<1>10. \A i \in on : RuleRefs(q.rules)[Rank(on, i)] = i
  BY <1>4, <1>8, <1>9
<1>11. \A i \in on : Position(q.rules, i) = Rank(on, i)
  BY DEF Position, on
<1>12. DOMAIN RuleRefs(q.rules) = 1 .. m
  BY <1>8
<1>13. /\ \A i \in on : Position(q.rules, i) \in 1 .. m /\ RuleRefs(q.rules)[Position(q.rules, i)] = i
       /\ \A i, j \in on : i < j <=> Position(q.rules, i) < Position(q.rules, j)
  BY <1>4, <1>6, <1>10, <1>11
<1>14. QED
  BY <1>2, <1>3, <1>12, <1>13 DEF on, n

-----------------------------------------------------------------------------
(* The double loop of build_flows.  R is the profile's rules, on the enabled *)
(* ones.  The inductive invariant: the lanes of the buckets before this one, *)
(* and of this one for the rules before the next, are all there, and no      *)
(* others; what has been seen is the ports of this bucket's lanes, each with *)
(* a bright lane of a rule before the next; a dim lane has a bright one      *)
(* beside it, of an earlier rule or of an earlier token of the same rule.    *)
R  == profile.rules
On == EnabledIn(R)

LabelsAt(i) == Labels(R[i].rule)

IsLane(f, i, name, k) ==
  /\ f.process = name /\ f.rule = Position(R, i) /\ f.at = k /\ f.port = LabelsAt(i)[k]
  /\ f.exit = BodyAt(R, i).action

(* The turns of the two loops that are over. *)
Over(b, i) == b < bucket \/ (b = bucket /\ i < next)

LoopTyped ==
  /\ profile \in Profiles /\ processes = Buckets(R)
  /\ bucket \in DOMAIN processes /\ next \in 1 .. Len(R) + 1

LanesThere ==
  \A b \in DOMAIN processes, i \in On :
    Over(b, i) /\ MatchesBucket(BodyAt(R, i), processes[b]) =>
      \A k \in DOMAIN LabelsAt(i) : \E f \in flows : IsLane(f, i, processes[b], k)

LaneSet ==
  [process : ToSet(processes), rule : DOMAIN RuleRefs(R), at : Nat, port : PortGroups(R),
   exit : Channels(R), first : BOOLEAN]

NoOthers ==
  \A f \in flows :
    /\ f \in LaneSet
    /\ \E b \in DOMAIN processes, i \in On :
         /\ Over(b, i) /\ MatchesBucket(BodyAt(R, i), processes[b])
         /\ \E k \in DOMAIN LabelsAt(i) : IsLane(f, i, processes[b], k)

OneEach ==
  \A f, g \in flows : f.process = g.process /\ f.rule = g.rule /\ f.at = g.at => f = g

SeenIs == seen = {f.port : f \in {g \in flows : g.process = Current}}

Bright(g, name, l) == g.process = name /\ g.port = l /\ g.first

SeenBright ==
  \A l \in seen : \E g \in flows :
    Bright(g, Current, l) /\ \E j \in On : j < next /\ g.rule = Position(R, j)

Behind(f, g) == g.rule < f.rule \/ (g.rule = f.rule /\ g.at < f.at)

DimBehindBright ==
  \A f \in flows : ~ f.first => \E g \in flows : Bright(g, f.process, f.port) /\ Behind(f, g)

FlowsInv ==
  LoopTyped /\ LanesThere /\ NoOthers /\ OneEach /\ SeenIs /\ SeenBright /\ DimBehindBright

LEMMA InitFlows == FlowsInit => FlowsInv
<1> SUFFICES ASSUME FlowsInit PROVE FlowsInv
  OBVIOUS
<1>1. profile \in Profiles /\ processes = Buckets(R) /\ bucket = 1 /\ next = 1
      /\ seen = {} /\ flows = {}
  BY DEF FlowsInit, R
<1>2. Len(R) \in Nat /\ Len(processes) \in Nat \ {0} /\ DOMAIN processes = 1 .. Len(processes)
      /\ On \in SUBSET (1 .. Len(R))
  BY <1>1, ProfileRows, BucketsAre, Positions DEF R, On
<1>3. LoopTyped
  BY <1>1, <1>2 DEF LoopTyped
<1>4. LanesThere
  <2>1. \A b \in DOMAIN processes, i \in On : ~ Over(b, i)
    BY <1>1, <1>2 DEF Over
  <2>2. QED
    BY <2>1 DEF LanesThere
<1>5. QED
  BY <1>1, <1>3, <1>4 DEF FlowsInv, NoOthers, OneEach, SeenIs, SeenBright, DimBehindBright

(* A fact that the steps keep using: the numbers.                            *)
LEMMA LoopNumbers ==
  ASSUME LoopTyped
  PROVE  /\ Len(R) \in Nat /\ DOMAIN R = 1 .. Len(R)
         /\ next \in Nat /\ bucket \in Nat
         /\ DOMAIN processes = 1 .. Len(processes) /\ Len(processes) \in Nat
         /\ \A b \in DOMAIN processes : b \in Nat
         /\ \A b, d \in DOMAIN processes : processes[b] = processes[d] => b = d
         /\ \A i \in On : i \in Nat /\ i \in DOMAIN R /\ Position(R, i) \in Nat
                          /\ Position(R, i) \in DOMAIN RuleRefs(R)
         /\ \A i, j \in On : i < j <=> Position(R, i) < Position(R, j)
         /\ \A i, j \in On : Position(R, i) = Position(R, j) => i = j
<1>1. profile \in Profiles /\ processes = Buckets(R) /\ bucket \in DOMAIN processes
      /\ next \in 1 .. Len(R) + 1
  BY DEF LoopTyped
<1>2. Len(R) \in Nat /\ DOMAIN R = 1 .. Len(R)
  BY <1>1, ProfileRows DEF R
<1>3. /\ Len(processes) \in Nat /\ DOMAIN processes = 1 .. Len(processes)
      /\ \A b, d \in DOMAIN processes : processes[b] = processes[d] => b = d
  BY <1>1, BucketsAre DEF R
<1>4. /\ On \in SUBSET (1 .. Len(R)) /\ Cardinality(On) \in Nat
      /\ DOMAIN RuleRefs(R) = 1 .. Cardinality(On)
      /\ \A i \in On : Position(R, i) \in 1 .. Cardinality(On) /\ RuleRefs(R)[Position(R, i)] = i
      /\ \A i, j \in On : i < j <=> Position(R, i) < Position(R, j)
  BY <1>1, Positions DEF R, On
<1>5. \A i, j \in On : Position(R, i) = Position(R, j) => i = j
  BY <1>4
<1>6. next \in Nat /\ bucket \in Nat
  BY <1>1, <1>2, <1>3
<1>7. \A i \in On : i \in Nat /\ i \in DOMAIN R /\ Position(R, i) \in Nat
                    /\ Position(R, i) \in DOMAIN RuleRefs(R)
  BY <1>2, <1>4
<1>8. QED
  BY <1>2, <1>3, <1>4, <1>5, <1>6, <1>7

LEMMA StutterFlows == ASSUME FlowsInv, UNCHANGED flowsVars PROVE FlowsInv'
BY DEF FlowsInv, flowsVars, LoopTyped, LanesThere, NoOthers, OneEach, SeenIs, SeenBright,
       DimBehindBright, R, On, LabelsAt, IsLane, Over, LaneSet, Bright, Behind, Current

(* The next bucket starts with nothing seen, and no lane is its own.         *)
LEMMA NextBucketFlows == ASSUME FlowsInv, NextBucket PROVE FlowsInv'
<1>1. /\ next > Len(R) /\ bucket < Len(processes) /\ bucket' = bucket + 1 /\ next' = 1 /\ seen' = {}
      /\ profile' = profile /\ processes' = processes /\ flows' = flows
  BY DEF NextBucket, R
<1>2. LoopTyped
  BY DEF FlowsInv
<1>3. R' = R /\ On' = On
  BY <1>1 DEF R, On
<1>4. /\ Len(R) \in Nat /\ DOMAIN R = 1 .. Len(R) /\ next \in Nat /\ bucket \in Nat
      /\ DOMAIN processes = 1 .. Len(processes) /\ Len(processes) \in Nat
      /\ \A i \in On : i \in Nat /\ i \in DOMAIN R
      /\ \A b \in DOMAIN processes : b \in Nat
      /\ \A b, d \in DOMAIN processes : processes[b] = processes[d] => b = d
  BY <1>2, LoopNumbers
<1>5. LoopTyped'
  <2>1. bucket' \in DOMAIN processes
    BY <1>1, <1>2, <1>4 DEF LoopTyped
  <2>2. next' \in 1 .. Len(R) + 1
    BY <1>1, <1>4
  <2>3. QED
    BY <1>1, <1>2, <1>3, <2>1, <2>2 DEF LoopTyped
<1>6. ASSUME NEW b \in DOMAIN processes, NEW i \in On PROVE Over(b, i)' <=> Over(b, i)
  <2>1. b \in Nat /\ i \in Nat /\ i < next /\ ~(i < 1)
    BY <1>1, <1>4
  <2>2. Over(b, i)' <=> b < bucket + 1
    BY <1>1, <2>1 DEF Over
  <2>3. b < bucket + 1 <=> b < bucket \/ b = bucket
    BY <1>4, <2>1
  <2>4. QED
    BY <2>1, <2>2, <2>3 DEF Over
<1>7. LanesThere'
  BY <1>1, <1>3, <1>6 DEF FlowsInv, LanesThere, IsLane, LabelsAt
<1>8. NoOthers'
  BY <1>1, <1>3, <1>6 DEF FlowsInv, NoOthers, IsLane, LaneSet, LabelsAt
<1>9. OneEach' /\ DimBehindBright' /\ SeenBright'
  BY <1>1 DEF FlowsInv, OneEach, DimBehindBright, SeenBright, Bright, Behind
<1>10. SeenIs'
  <2>1. ASSUME NEW f \in flows, f.process = processes[bucket'] PROVE FALSE
    <3>1. PICK b \in DOMAIN processes, i \in On : Over(b, i) /\ f.process = processes[b]
      BY DEF FlowsInv, NoOthers, IsLane
    <3>2. b = bucket'
      <4>1. bucket' \in DOMAIN processes
        BY <1>1, <1>5 DEF LoopTyped
      <4>2. QED
        BY <1>4, <2>1, <3>1, <4>1
    <3>3. b \in Nat /\ b = bucket + 1
      BY <1>1, <1>4, <3>2
    <3>4. QED
      BY <1>4, <3>1, <3>3 DEF Over
  <2>2. QED
    BY <1>1, <2>1 DEF SeenIs, Current
<1>11. QED
  BY <1>5, <1>7, <1>8, <1>9, <1>10 DEF FlowsInv

(* Port lists. *)
LEMMA LabelsAre ==
  ASSUME LoopTyped, NEW i \in DOMAIN R
  PROVE  /\ LabelsAt(i) \in Seq(DOMAIN Span \cup {AnyPort})
         /\ Len(LabelsAt(i)) \in Nat /\ DOMAIN LabelsAt(i) = 1 .. Len(LabelsAt(i))
         /\ DOMAIN LabelsAt(i) \subseteq Nat
         /\ BodyAt(R, i).ports = {} =>
              /\ 1 \in DOMAIN LabelsAt(i) /\ LabelsAt(i)[1] = AnyPort
         /\ BodyAt(R, i).ports # {} =>
              /\ \A k \in DOMAIN LabelsAt(i) : /\ LabelsAt(i)[k] # AnyPort
                                              /\ Span[LabelsAt(i)[k]] \in BodyAt(R, i).ports
              /\ \A e \in BodyAt(R, i).ports : \E k \in DOMAIN LabelsAt(i) : e = Span[LabelsAt(i)[k]]
<1> DEFINE list == PortList[R[i].rule]
<1>1. R[i].rule \in Rules /\ BodyAt(R, i) = Body[R[i].rule]
  BY ProfileRows DEF LoopTyped, R, BodyAt
<1>2. list \in Seq(DOMAIN Span \ {AnyPort}) /\ BodyAt(R, i).ports = {Span[l] : l \in ToSet(list)}
  BY <1>1, ExposureAssumption DEF AnyPort
<1>3. LabelsAt(i) = IF list = <<>> THEN <<AnyPort>> ELSE list
  BY DEF LabelsAt, Labels
<1> HIDE DEF list
<1>4. ToSet(list) = {list[k] : k \in DOMAIN list}
  BY DEF ToSet
<1>5. CASE list = <<>>
  <2>1. BodyAt(R, i).ports = {}
    BY <1>2, <1>4, <1>5
  <2>2. LabelsAt(i) = <<AnyPort>>
    BY <1>3, <1>5
  <2>3. /\ <<AnyPort>> \in Seq(DOMAIN Span \cup {AnyPort}) /\ Len(<<AnyPort>>) = 1
        /\ DOMAIN <<AnyPort>> = 1 .. 1 /\ <<AnyPort>>[1] = AnyPort
    OBVIOUS
  <2>4. QED
    BY <2>1, <2>2, <2>3
<1>6. CASE list # <<>>
  <2>1. LabelsAt(i) = list
    BY <1>3, <1>6
  <2>2. Len(list) \in Nat /\ DOMAIN list = 1 .. Len(list) /\ 1 \in DOMAIN list
    BY <1>2, <1>6
  <2>3. \A k \in DOMAIN list : list[k] \in DOMAIN Span \ {AnyPort}
    BY <1>2
  <2>4. list \in Seq(DOMAIN Span \cup {AnyPort})
    BY <1>2
  <2>5. Span[list[1]] \in BodyAt(R, i).ports
    BY <1>2, <1>4, <2>2
  <2>6. \A k \in DOMAIN list : Span[list[k]] \in BodyAt(R, i).ports
    BY <1>2, <1>4
  <2>7. \A e \in BodyAt(R, i).ports : \E k \in DOMAIN list : e = Span[list[k]]
    BY <1>2, <1>4
  <2>8. QED
    BY <2>1, <2>2, <2>3, <2>4, <2>5, <2>6, <2>7
<1>7. QED
  BY <1>5, <1>6

(* The lanes that the turn of a rule adds.                                   *)
New == IF Visited(next) THEN LanesOf(R, next, Current) ELSE {}
Before(k) == {LabelsAt(next)[m] : m \in 1 .. k - 1}
NewLane(k) ==
  [process |-> Current, rule |-> Position(R, next), at |-> k, port |-> LabelsAt(next)[k],
   exit |-> BodyAt(R, next).action, first |-> LabelsAt(next)[k] \notin seen \cup Before(k)]

LEMMA NewLanes ==
  ASSUME LoopTyped, next \in DOMAIN R
  PROVE  /\ \A f \in New :
              /\ next \in On /\ MatchesBucket(BodyAt(R, next), Current)
              /\ \E k \in DOMAIN LabelsAt(next) : f = NewLane(k)
         /\ next \in On /\ MatchesBucket(BodyAt(R, next), Current) =>
              \A k \in DOMAIN LabelsAt(next) : NewLane(k) \in New
         /\ \A k : NewLane(k).process = Current /\ NewLane(k).rule = Position(R, next)
                   /\ NewLane(k).at = k
                   /\ NewLane(k).port = LabelsAt(next)[k] /\ NewLane(k).exit = BodyAt(R, next).action
                   /\ (NewLane(k).first <=> LabelsAt(next)[k] \notin seen \cup Before(k))
         /\ next \in On => \A k \in DOMAIN LabelsAt(next) : NewLane(k) \in LaneSet
<1>1. next \in On <=> R[next].enabled
  BY DEF On, EnabledIn
<1>2. next \in On => BodyAt(R, next).action \in Channels(R)
  BY DEF Channels, On
<1>3. Visited(next) <=> next \in On /\ MatchesBucket(BodyAt(R, next), Current)
  BY <1>1, <1>2 DEF Visited, R
<1>4. LanesOf(R, next, Current) = {NewLane(k) : k \in DOMAIN LabelsAt(next)}
  BY DEF LanesOf, NewLane, LabelsAt, Before
<1>5. \A k : NewLane(k).process = Current /\ NewLane(k).rule = Position(R, next)
             /\ NewLane(k).at = k
             /\ NewLane(k).port = LabelsAt(next)[k] /\ NewLane(k).exit = BodyAt(R, next).action
             /\ (NewLane(k).first <=> LabelsAt(next)[k] \notin seen \cup Before(k))
  BY DEF NewLane
<1>6. ASSUME next \in On, NEW k \in DOMAIN LabelsAt(next) PROVE NewLane(k) \in LaneSet
  <2>1. Current \in ToSet(processes)
    BY DEF LoopTyped, Current, ToSet
  <2>2. Position(R, next) \in DOMAIN RuleRefs(R)
    BY <1>6, LoopNumbers
  <2>3. LabelsAt(next)[k] \in PortGroups(R)
    BY <1>6 DEF PortGroups, On, LabelsAt, ToSet
  <2>4. BodyAt(R, next).action \in Channels(R)
    BY <1>2, <1>6
  <2>5. k \in Nat
    BY LabelsAre
  <2>6. QED
    BY <2>1, <2>2, <2>3, <2>4, <2>5 DEF NewLane, LaneSet
<1>7. QED
  BY <1>3, <1>4, <1>5, <1>6 DEF New

(* Of the new lanes with one label the first is bright, unless the label has *)
(* been seen.                                                                *)
LEMMA FirstIsBright ==
  ASSUME LoopTyped, next \in DOMAIN R, NEW k \in DOMAIN LabelsAt(next), LabelsAt(next)[k] \notin seen
  PROVE  \E m \in DOMAIN LabelsAt(next) :
           m <= k /\ LabelsAt(next)[m] = LabelsAt(next)[k] /\ NewLane(m).first
<1> DEFINE T == {m \in DOMAIN LabelsAt(next) : LabelsAt(next)[m] = LabelsAt(next)[k]}
<1>1. /\ DOMAIN LabelsAt(next) \subseteq Nat /\ Len(LabelsAt(next)) \in Nat
      /\ DOMAIN LabelsAt(next) = 1 .. Len(LabelsAt(next))
  BY LabelsAre
<1>2. T \in SUBSET Nat /\ k \in T
  BY <1>1
<1> HIDE DEF T
<1>3. PICK m \in T : \A n \in T : m <= n
  BY <1>2, Least
<1> USE DEF T
<1>4. m \in DOMAIN LabelsAt(next) /\ LabelsAt(next)[m] = LabelsAt(next)[k] /\ m <= k
  BY <1>2, <1>3
<1>5. ASSUME NEW n \in 1 .. m - 1, LabelsAt(next)[n] = LabelsAt(next)[k] PROVE FALSE
  <2>1. n \in DOMAIN LabelsAt(next) /\ n < m /\ n \in Nat /\ m \in Nat
    BY <1>1, <1>4
  <2>2. m <= n
    BY <1>3, <1>5, <2>1
  <2>3. QED
    BY <2>1, <2>2
<1>6. LabelsAt(next)[m] \notin seen \cup Before(m)
  BY <1>4, <1>5 DEF Before
<1>7. QED
  BY <1>4, <1>6 DEF NewLane

LEMMA VisitRuleFlows == ASSUME FlowsInv, VisitRule PROVE FlowsInv'
<1>1. /\ next \in DOMAIN R /\ next' = next + 1 /\ bucket' = bucket
      /\ profile' = profile /\ processes' = processes
      /\ flows' = flows \cup New /\ seen' = seen \cup {f.port : f \in New}
  BY DEF VisitRule, New, R
<1>2. LoopTyped
  BY DEF FlowsInv
<1>3. R' = R /\ On' = On /\ Current' = Current
  BY <1>1 DEF R, On, Current
<1>4. /\ Len(R) \in Nat /\ DOMAIN R = 1 .. Len(R) /\ next \in Nat /\ bucket \in Nat
      /\ bucket \in DOMAIN processes /\ Current = processes[bucket]
      /\ \A i \in On : i \in Nat /\ i \in DOMAIN R /\ Position(R, i) \in Nat
      /\ \A b \in DOMAIN processes : b \in Nat
      /\ \A b, d \in DOMAIN processes : processes[b] = processes[d] => b = d
      /\ \A i, j \in On : i < j <=> Position(R, i) < Position(R, j)
      /\ \A i, j \in On : Position(R, i) = Position(R, j) => i = j
  BY <1>2, LoopNumbers DEF LoopTyped, Current
<1>5. /\ \A f \in New :
           /\ next \in On /\ MatchesBucket(BodyAt(R, next), Current)
           /\ \E k \in DOMAIN LabelsAt(next) : f = NewLane(k)
      /\ next \in On /\ MatchesBucket(BodyAt(R, next), Current) =>
           \A k \in DOMAIN LabelsAt(next) : NewLane(k) \in New
      /\ \A k : NewLane(k).process = Current /\ NewLane(k).rule = Position(R, next)
                /\ NewLane(k).at = k
                /\ NewLane(k).port = LabelsAt(next)[k] /\ NewLane(k).exit = BodyAt(R, next).action
                /\ (NewLane(k).first <=> LabelsAt(next)[k] \notin seen \cup Before(k))
      /\ next \in On => \A k \in DOMAIN LabelsAt(next) : NewLane(k) \in LaneSet
  BY <1>1, <1>2, NewLanes
<1> HIDE DEF New
<1>6. LoopTyped'
  <2>1. next' \in 1 .. Len(R) + 1
    BY <1>1, <1>4
  <2>2. QED
    BY <1>1, <1>2, <1>3, <2>1 DEF LoopTyped
<1>7. ASSUME NEW b \in DOMAIN processes, NEW i \in On
      PROVE  Over(b, i)' <=> Over(b, i) \/ (b = bucket /\ i = next)
  <2>1. b \in Nat /\ i \in Nat /\ next \in Nat /\ bucket \in Nat
    BY <1>4
  <2>2. Over(b, i)' <=> b < bucket \/ (b = bucket /\ i < next + 1)
    BY <1>1 DEF Over
  <2>3. i < next + 1 <=> i < next \/ i = next
    BY <2>1
  <2>4. QED
    BY <2>1, <2>2, <2>3 DEF Over
<1>8. \A f \in flows : f \in LaneSet
                       /\ \E b \in DOMAIN processes, i \in On :
                            /\ Over(b, i) /\ MatchesBucket(BodyAt(R, i), processes[b])
                            /\ \E k \in DOMAIN LabelsAt(i) : IsLane(f, i, processes[b], k)
  BY DEF FlowsInv, NoOthers
<1>9. LanesThere'
  <2> SUFFICES ASSUME NEW b \in DOMAIN processes, NEW i \in On, Over(b, i)',
                      MatchesBucket(BodyAt(R, i), processes[b]), NEW k \in DOMAIN LabelsAt(i)
               PROVE  \E f \in flows' : IsLane(f, i, processes[b], k)
    BY <1>1, <1>3 DEF LanesThere, IsLane, LabelsAt
  <2>1. CASE Over(b, i)
    BY <1>1, <2>1 DEF FlowsInv, LanesThere
  <2>2. CASE b = bucket /\ i = next
    <3>1. NewLane(k) \in New
      BY <1>4, <1>5, <2>2
    <3>2. IsLane(NewLane(k), i, processes[b], k)
      BY <1>4, <1>5, <2>2 DEF IsLane
    <3>3. QED
      BY <1>1, <3>1, <3>2
  <2>3. QED
    BY <1>7, <2>1, <2>2
<1>10. NoOthers'
  <2> SUFFICES ASSUME NEW f \in flows'
               PROVE  /\ f \in LaneSet
                      /\ \E b \in DOMAIN processes, i \in On :
                           /\ Over(b, i)' /\ MatchesBucket(BodyAt(R, i), processes[b])
                           /\ \E k \in DOMAIN LabelsAt(i) : IsLane(f, i, processes[b], k)
    BY <1>1, <1>3 DEF NoOthers, LaneSet, IsLane, LabelsAt
  <2>1. CASE f \in flows
    BY <1>7, <1>8, <2>1
  <2>2. CASE f \in New
    <3>1. PICK k \in DOMAIN LabelsAt(next) : f = NewLane(k)
      BY <1>5, <2>2
    <3>2. next \in On /\ MatchesBucket(BodyAt(R, next), processes[bucket])
      BY <1>4, <1>5, <2>2
    <3>3. IsLane(f, next, processes[bucket], k) /\ f \in LaneSet
      BY <1>4, <1>5, <3>1, <3>2 DEF IsLane
    <3>4. PICK b \in DOMAIN processes, i \in On : b = bucket /\ i = next
      BY <1>4, <3>2
    <3>5. Over(b, i)'
      BY <1>7, <3>4
    <3>6. QED
      BY <3>2, <3>3, <3>4, <3>5
  <2>3. QED
    BY <1>1, <2>1, <2>2
<1>11. ASSUME NEW f \in flows, f.process = Current
       PROVE  \E i \in On : i < next /\ f.rule = Position(R, i)
  <2>1. PICK b \in DOMAIN processes, i \in On :
          Over(b, i) /\ f.process = processes[b] /\ f.rule = Position(R, i)
    BY <1>8 DEF IsLane
  <2>2. b = bucket
    BY <1>4, <1>11, <2>1
  <2>3. i < next
    BY <1>4, <2>1, <2>2 DEF Over
  <2>4. QED
    BY <2>1, <2>3
<1>12. OneEach'
  <2> SUFFICES ASSUME NEW f \in flows', NEW g \in flows',
                      f.process = g.process, f.rule = g.rule, f.at = g.at
               PROVE  f = g
    BY DEF OneEach
  <2>1. CASE f \in flows /\ g \in flows
    BY <2>1 DEF FlowsInv, OneEach
  <2>2. CASE f \in New /\ g \in New
    BY <1>5, <2>2
  <2>3. ASSUME NEW x \in flows, NEW y \in New, x.process = y.process, x.rule = y.rule
        PROVE  FALSE
    <3>1. y.process = Current /\ y.rule = Position(R, next) /\ next \in On
      BY <1>5
    <3>2. PICK i \in On : i < next /\ x.rule = Position(R, i)
      BY <1>11, <2>3, <3>1
    <3>3. i = next
      BY <1>4, <2>3, <3>1, <3>2
    <3>4. QED
      BY <1>4, <3>2, <3>3
  <2>4. QED
    BY <1>1, <2>1, <2>2, <2>3
<1>13. SeenIs'
  <2>1. {f.port : f \in {g \in flows' : g.process = Current}}
          = {f.port : f \in {g \in flows : g.process = Current}} \cup {f.port : f \in New}
    BY <1>1, <1>5
  <2>2. QED
    BY <1>1, <1>3, <2>1 DEF FlowsInv, SeenIs
<1>14. SeenBright'
  <2> SUFFICES ASSUME NEW l \in seen'
               PROVE  \E g \in flows' : Bright(g, Current, l)
                                        /\ \E j \in On : j < next + 1 /\ g.rule = Position(R, j)
    BY <1>1, <1>3 DEF SeenBright, Bright
  <2>1. CASE l \in seen
    <3>1. PICK g \in flows : Bright(g, Current, l) /\ \E j \in On : j < next /\ g.rule = Position(R, j)
      BY <2>1 DEF FlowsInv, SeenBright
    <3>2. \A j \in On : j < next => j < next + 1
      BY <1>4
    <3>3. QED
      BY <1>1, <3>1, <3>2
  <2>2. CASE l \notin seen
    <3>1. PICK f \in New : l = f.port
      BY <1>1, <2>2
    <3>2. PICK k \in DOMAIN LabelsAt(next) : f = NewLane(k)
      BY <1>5
    <3>3. LabelsAt(next)[k] = l
      BY <1>5, <3>1, <3>2
    <3>4. PICK m \in DOMAIN LabelsAt(next) : LabelsAt(next)[m] = l /\ NewLane(m).first
      BY <1>1, <1>2, <2>2, <3>3, FirstIsBright
    <3>5. next \in On /\ NewLane(m) \in New
      BY <1>5
    <3>6. Bright(NewLane(m), Current, l) /\ NewLane(m).rule = Position(R, next)
      BY <1>5, <3>4 DEF Bright
    <3>7. next < next + 1
      BY <1>4
    <3>8. QED
      BY <1>1, <3>5, <3>6, <3>7
  <2>3. QED
    BY <2>1, <2>2
<1>15. DimBehindBright'
  <2> SUFFICES ASSUME NEW f \in flows', ~ f.first
               PROVE  \E g \in flows' : Bright(g, f.process, f.port) /\ Behind(f, g)
    BY DEF DimBehindBright, Bright, Behind
  <2>1. CASE f \in flows
    BY <1>1, <2>1 DEF FlowsInv, DimBehindBright
  <2>2. CASE f \in New
    <3>1. PICK k \in DOMAIN LabelsAt(next) : f = NewLane(k)
      BY <1>5, <2>2
    <3>2. /\ f.process = Current /\ f.rule = Position(R, next) /\ f.at = k
          /\ f.port = LabelsAt(next)[k] /\ next \in On
      BY <1>5, <2>2, <3>1
    <3>3. CASE f.port \in seen
      <4>1. PICK g \in flows : Bright(g, Current, f.port)
                               /\ \E j \in On : j < next /\ g.rule = Position(R, j)
        BY <3>3 DEF FlowsInv, SeenBright
      <4>2. g.rule < f.rule
        BY <1>4, <3>2, <4>1
      <4>3. QED
        BY <1>1, <3>2, <4>1, <4>2 DEF Behind
    <3>4. CASE f.port \notin seen
      <4>1. PICK m \in DOMAIN LabelsAt(next) :
              m <= k /\ LabelsAt(next)[m] = f.port /\ NewLane(m).first
        BY <1>1, <1>2, <3>2, <3>4, FirstIsBright
      <4>2. m # k
        BY <2>2, <3>1, <4>1
      <4>3. m \in Nat /\ k \in Nat
        BY <1>1, <1>2, LabelsAre
      <4>4. m < k
        BY <4>1, <4>2, <4>3
      <4>5. NewLane(m) \in New
        BY <1>5, <2>2
      <4>6. Bright(NewLane(m), f.process, f.port) /\ Behind(f, NewLane(m))
        BY <1>5, <3>2, <4>1, <4>4 DEF Bright, Behind
      <4>7. QED
        BY <1>1, <4>5, <4>6
    <3>5. QED
      BY <3>3, <3>4
  <2>3. QED
    BY <1>1, <2>1, <2>2
<1>16. QED
  BY <1>6, <1>9, <1>10, <1>12, <1>13, <1>14, <1>15 DEF FlowsInv

LEMMA BuiltFlows == FlowsSpec => []FlowsInv
<1>1. FlowsInv /\ [FlowsNext]_flowsVars => FlowsInv'
  BY StutterFlows, NextBucketFlows, VisitRuleFlows DEF FlowsNext
<1>2. QED
  BY InitFlows, <1>1, PTL DEF FlowsSpec

(* Every lane joins columns of the graph, and there is one per process, rule *)
(* and token of its port list.                                               *)
THEOREM FlowsTypeCorrect == FlowsSpec => []FlowsTypeOK
<1>1. FlowsInv => FlowsTypeOK
  BY DEF FlowsInv, FlowsTypeOK, LoopTyped, SeenIs, NoOthers, OneEach, LaneSet, R
<1>2. QED
  BY <1>1, BuiltFlows, PTL

-----------------------------------------------------------------------------
(* The finished graph beside the simulator.  What a rule that catches a      *)
(* connection has to do with the bucket and the labels the connection is in. *)
Caught(i, c) == i \in On /\ <<R[i].rule, c>> \in Catches

LEMMA BodyOfRow ==
  ASSUME LoopTyped, NEW i \in DOMAIN R
  PROVE  /\ BodyAt(R, i) = Body[R[i].rule] /\ R[i].rule \in Rules
         /\ \A e \in BodyAt(R, i).targets \cup BodyAt(R, i).applications : IsText(e)
<1>1. R[i].rule \in Rules
  BY ProfileRows DEF LoopTyped, R
<1>2. BodyAt(R, i) = Body[R[i].rule]
  BY DEF BodyAt
<1>3. QED
  BY <1>1, <1>2, TextAssumption

LEMMA ConnectionHas ==
  ASSUME NEW c \in Connections
  PROVE  /\ c \in Candidates /\ c.application \in Programs /\ c.port # NoPort
         /\ IsText(c.application) /\ Basename(c.application) # NoText
<1>1. c \in Candidates /\ c.application # NoText /\ c.port # NoPort
  BY DEF Connections
<1>2. c.application \in Programs
  BY <1>1 DEF Candidates
<1>3. QED
  BY <1>1, <1>2, ExposureAssumption, TextAssumption

LEMMA BucketIsThere ==
  ASSUME LoopTyped, NEW c \in Connections
  PROVE  /\ \E b \in DOMAIN processes : processes[b] = BucketOf(c)
         /\ Basename(c.application) \in NamesIn(R) <=> BucketOf(c) # Unlisted
         /\ BucketOf(c) # Unlisted => BucketOf(c) = Basename(c.application)
<1> DEFINE name == Basename(c.application)
<1>1. name # Unlisted
  BY ConnectionHas DEF Unlisted
<1>2. /\ \A i \in DOMAIN processes : processes[i] \in NamesIn(R) \cup {Unlisted}
      /\ \A x \in NamesIn(R) \cup {Unlisted} : \E i \in DOMAIN processes : processes[i] = x
  BY BucketsAre DEF LoopTyped, R
<1>3. name \in ToSet(processes) <=> name \in NamesIn(R)
  BY <1>1, <1>2 DEF ToSet
<1>4. BucketOf(c) = IF name \in ToSet(processes) THEN name ELSE Unlisted
  BY DEF BucketOf
<1> HIDE DEF name
<1>5. \E b \in DOMAIN processes : processes[b] = BucketOf(c)
  BY <1>2, <1>3, <1>4
<1>6. QED
  BY <1>1, <1>3, <1>4, <1>5 DEF name

LEMMA CaughtHasBucket ==
  ASSUME LoopTyped, NEW c \in Connections, NEW i, Caught(i, c)
  PROVE  MatchesBucket(BodyAt(R, i), BucketOf(c))
<1> DEFINE name == Basename(c.application)
           body == BodyAt(R, i)
<1>1. i \in DOMAIN R
  BY DEF Caught, On, EnabledIn
<1>2. body = Body[R[i].rule] /\ \A e \in body.applications : IsText(e)
  BY <1>1, BodyOfRow
<1>3. RuleMatches(Body[R[i].rule], c)
  BY DEF Caught, Catches
<1> HIDE DEF body
<1>4. body.applications = {} \/ \E e \in body.applications : ApplicationMatches(e, c.application)
  BY <1>2, <1>3 DEF RuleMatches, ListMatches
<1>5. IsText(c.application) /\ name # NoText
  BY ConnectionHas
<1>6. /\ name \in NamesIn(R) <=> BucketOf(c) # Unlisted
      /\ BucketOf(c) # Unlisted => BucketOf(c) = name
  BY BucketIsThere
<1>7. ASSUME NEW e \in body.applications, IsGlob(e), GlobMatches(e, c.application)
      PROVE  MatchesBucket(body, BucketOf(c))
  <2>1. IsBare(c.application)
    BY <1>1, <1>7 DEF Connections, R, body
  <2>2. name = c.application
    BY <1>5, <2>1, BareIsWhole
  <2>3. QED
    BY <1>6, <1>7, <2>2 DEF MatchesBucket
<1>8. ASSUME NEW e \in body.applications, ~ IsGlob(e), e # NoText,
             e = IF IsBare(e) THEN Basename(c.application) ELSE c.application
      PROVE  MatchesBucket(body, BucketOf(c))
  <2>1. Basename(e) = name
    BY <1>2, <1>8, BareIsWhole
  <2>2. name \in NamedBy(e)
    BY <1>5, <1>8, <2>1 DEF NamedBy
  <2>3. name \in NamesIn(R)
    BY <1>1, <2>2 DEF NamesIn, body
  <2>4. BucketOf(c) = name /\ BucketOf(c) # Unlisted
    BY <1>6, <2>3
  <2>5. QED
    BY <2>2, <2>4 DEF MatchesBucket
<1>9. QED
  BY <1>4, <1>7, <1>8 DEF ApplicationMatches, MatchesBucket, body

LEMMA CaughtHasLabel ==
  ASSUME LoopTyped, NEW c \in Connections, NEW i, Caught(i, c)
  PROVE  \E k \in DOMAIN LabelsAt(i) :
           LabelsAt(i)[k] = AnyPort \/ PortMatches(Span[LabelsAt(i)[k]], c.port)
<1>1. i \in DOMAIN R
  BY DEF Caught, On, EnabledIn
<1>2. BodyAt(R, i) = Body[R[i].rule]
  BY <1>1, BodyOfRow
<1>3. RuleMatches(Body[R[i].rule], c)
  BY DEF Caught, Catches
<1>4. BodyAt(R, i).ports = {} \/ \E e \in BodyAt(R, i).ports : PortMatches(e, c.port)
  BY <1>2, <1>3 DEF RuleMatches, ListMatches
<1>5. LoopTyped
  OBVIOUS
<1>6. QED
  BY <1>1, <1>4, <1>5, LabelsAre

LEMMA WinnerIsCaught ==
  ASSUME LoopTyped, NEW c, NEW i \in Winner(R, c)
  PROVE  /\ Caught(i, c) /\ i \in DOMAIN R
         /\ \A k : Caught(k, c) => i <= k
<1>1. i \in DOMAIN R /\ Caught(i, c)
  BY DEF Winner, Caught, On, EnabledIn
<1>2. ASSUME NEW k, Caught(k, c) PROVE i <= k
  <2>1. k \in DOMAIN R /\ R[k].enabled /\ <<R[k].rule, c>> \in Catches
    BY <1>2 DEF Caught, On, EnabledIn
  <2>2. k \notin 1 .. (i - 1)
    BY <2>1 DEF Winner
  <2>3. DOMAIN R = 1 .. Len(R) /\ Len(R) \in Nat
    BY LoopNumbers
  <2>4. QED
    BY <1>1, <2>1, <2>2, <2>3
<1>3. QED
  BY <1>1, <1>2

(* No traffic is missing from the finished graph: for every profile,         *)
(* whatever rule the simulator says wins a connection has a lane for the     *)
(* connection's process and port, to the exit of the rule.                   *)
THEOREM WinnersHaveLanes == FlowsSpec => []WinnerHasLane
<1>1. FlowsInv => WinnerHasLane
  <2> SUFFICES ASSUME FlowsInv, Done, NEW c \in Connections, NEW i \in Winner(R, c)
               PROVE  \E f \in Carrying(i, c) : f.exit = BodyAt(R, i).action
    BY DEF WinnerHasLane, R
  <2>1. LoopTyped
    BY DEF FlowsInv
  <2>2. Caught(i, c)
    BY <2>1, WinnerIsCaught
  <2>3. i \in On
    BY <2>2 DEF Caught
  <2>4. PICK b \in DOMAIN processes : processes[b] = BucketOf(c)
    BY <2>1, BucketIsThere
  <2>5. MatchesBucket(BodyAt(R, i), processes[b])
    BY <2>1, <2>2, <2>4, CaughtHasBucket
  <2>6. PICK k \in DOMAIN LabelsAt(i) :
          LabelsAt(i)[k] = AnyPort \/ PortMatches(Span[LabelsAt(i)[k]], c.port)
    BY <2>1, <2>2, CaughtHasLabel
  <2>7. Over(b, i)
    <3>1. next > Len(R) /\ bucket = Len(processes)
      BY DEF Done, R
    <3>2. /\ b \in 1 .. Len(processes) /\ Len(processes) \in Nat
          /\ i \in 1 .. Len(R) /\ Len(R) \in Nat /\ next \in Nat
      BY <2>1, <2>3, LoopNumbers
    <3>3. QED
      BY <3>1, <3>2 DEF Over
  <2>8. PICK f \in flows : IsLane(f, i, processes[b], k)
    BY <2>3, <2>5, <2>7 DEF FlowsInv, LanesThere
  <2>9. RuleRefs(R)[Position(R, i)] = i
    BY <2>1, <2>3, Positions DEF LoopTyped, On, R
  <2>10. f \in Carrying(i, c)
    BY <2>4, <2>6, <2>8, <2>9 DEF Carrying, IsLane, R
  <2>11. QED
    BY <2>8, <2>10 DEF IsLane
<1>2. QED
  BY <1>1, BuiltFlows, PTL

(* A rule before the winner that has a bright lane beside the winner's dim   *)
(* one would catch the connection, too, but for its targets, the paths of    *)
(* its programs or, with the unlisted processes, its programs.               *)
LEMMA PlainRuleCatches ==
  ASSUME LoopTyped, NEW c \in Connections, NEW j \in On, NEW k \in DOMAIN LabelsAt(j),
         LabelsAt(j)[k] = AnyPort \/ PortMatches(Span[LabelsAt(j)[k]], c.port),
         MatchesBucket(BodyAt(R, j), BucketOf(c)),
         BodyAt(R, j).targets = {},
         \A e \in BodyAt(R, j).applications : IsBare(e) /\ BucketOf(c) # Unlisted
  PROVE  Caught(j, c)
<1> DEFINE body == BodyAt(R, j)
           name == Basename(c.application)
<1>1. j \in DOMAIN R
  BY DEF On, EnabledIn
<1>2. /\ body = Body[R[j].rule] /\ R[j].rule \in Rules
      /\ \A e \in body.applications : IsText(e)
  BY <1>1, BodyOfRow
<1>3. c \in Candidates /\ c.application # NoText /\ c.port # NoPort
      /\ IsText(c.application) /\ name # NoText
  BY ConnectionHas DEF Connections
<1>4. ListMatches(body.targets, c.host # NoText, [e \in body.targets |-> TargetMatches(e, c.host)])
  BY DEF ListMatches
<1>5. body.applications = {} \/ \E e \in body.applications : ApplicationMatches(e, c.application)
  <2>1. SUFFICES ASSUME body.applications # {}
                 PROVE  \E e \in body.applications : ApplicationMatches(e, c.application)
    OBVIOUS
  <2>2. BucketOf(c) # Unlisted /\ BucketOf(c) = name
    BY <2>1, BucketIsThere
  <2>3. PICK e \in body.applications :
          name \in NamedBy(e) \/ (IsGlob(e) /\ GlobMatches(e, name))
    BY <2>1, <2>2 DEF MatchesBucket
  <2>4. IsBare(e) /\ IsText(e)
    BY <1>2, <2>3
  <2>5. CASE name \in NamedBy(e)
    <3>1. ~ IsGlob(e) /\ name = Basename(e)
      BY <2>5 DEF NamedBy
    <3>2. Basename(e) = e
      BY <2>4, BareIsWhole
    <3>3. QED
      BY <1>3, <2>4, <3>1, <3>2 DEF ApplicationMatches
  <2>6. CASE IsGlob(e) /\ GlobMatches(e, name)
    <3>1. IsBare(c.application)
      BY <1>1, <2>6 DEF Connections, R
    <3>2. name = c.application
      BY <1>3, <3>1, BareIsWhole
    <3>3. QED
      BY <2>6, <3>2 DEF ApplicationMatches
  <2>7. QED
    BY <2>3, <2>5, <2>6
<1>6. body.ports = {} \/ \E e \in body.ports : PortMatches(e, c.port)
  BY <1>1, LabelsAre
<1> HIDE DEF body
<1>7. RuleMatches(body, c)
  BY <1>3, <1>4, <1>5, <1>6 DEF RuleMatches, ListMatches
<1>8. <<R[j].rule, c>> \in Catches
  BY <1>2, <1>3, <1>7 DEF Catches
<1>9. QED
  BY <1>8 DEF Caught

(* A dim lane that does carry a connection is dim because of a bright lane   *)
(* for the same process and port: one that the same rule has for an earlier  *)
(* token, or one of an earlier rule that does not take every connection of   *)
(* the bucket.                                                               *)
THEOREM DimLanesHaveReasons == FlowsSpec => []DimLanesExplained
<1>1. FlowsInv => DimLanesExplained
  <2> DEFINE Partial(g, f) ==
        LET rule == BodyAt(R, RuleRefs(R)[g.rule])
        IN rule.targets # {} \/ \E e \in rule.applications : ~ IsBare(e) \/ f.process = Unlisted
  <2> SUFFICES ASSUME FlowsInv, Done, NEW c \in Connections, NEW i \in Winner(R, c),
                      NEW f \in Carrying(i, c), ~ f.first
               PROVE  \E g \in flows : /\ g.process = f.process /\ g.port = f.port /\ g.first
                                       /\ \/ g.rule = f.rule /\ g.at < f.at
                                          \/ g.rule < f.rule /\ Partial(g, f)
    BY DEF DimLanesExplained, R
  <2>1. LoopTyped
    BY DEF FlowsInv
  <2>2. i \in On /\ \A k : Caught(k, c) => i <= k
    BY <2>1, WinnerIsCaught DEF Caught
  <2>3. /\ f \in flows /\ f.process = BucketOf(c) /\ RuleRefs(R)[f.rule] = i
        /\ f.port = AnyPort \/ PortMatches(Span[f.port], c.port)
    BY DEF Carrying, R
  <2>4. PICK g \in flows : Bright(g, f.process, f.port) /\ Behind(f, g)
    BY <2>3 DEF FlowsInv, DimBehindBright
  <2>5. \A x \in flows : \E j \in On : \E k \in DOMAIN LabelsAt(j) :
          MatchesBucket(BodyAt(R, j), x.process) /\ x.rule = Position(R, j) /\ x.port = LabelsAt(j)[k]
    BY DEF FlowsInv, NoOthers, IsLane
  <2>6. PICK j \in On : /\ MatchesBucket(BodyAt(R, j), g.process) /\ g.rule = Position(R, j)
                        /\ \E k \in DOMAIN LabelsAt(j) : g.port = LabelsAt(j)[k]
    BY <2>5
  <2>7. \A k \in On : RuleRefs(R)[Position(R, k)] = k
    BY <2>1, Positions DEF LoopTyped, On, R
  <2>8. f.rule = Position(R, i)
    BY <2>3, <2>5, <2>7
  <2>9. CASE g.rule = f.rule /\ g.at < f.at
    BY <2>4, <2>9 DEF Bright
  <2>10. CASE g.rule < f.rule
    <3>1. j < i
      BY <2>1, <2>2, <2>6, <2>8, <2>10, LoopNumbers
    <3>2. ~ Caught(j, c)
      <4>1. i \in Nat /\ j \in Nat
        BY <2>1, <2>2, <2>6, LoopNumbers
      <4>2. QED
        BY <2>2, <3>1, <4>1
    <3>3. RuleRefs(R)[g.rule] = j
      BY <2>6, <2>7
    <3>4. ~ (BodyAt(R, j).targets = {}
              /\ \A e \in BodyAt(R, j).applications : IsBare(e) /\ BucketOf(c) # Unlisted)
      <4>1. PICK k \in DOMAIN LabelsAt(j) : g.port = LabelsAt(j)[k]
        BY <2>6
      <4>2. MatchesBucket(BodyAt(R, j), BucketOf(c))
            /\ (LabelsAt(j)[k] = AnyPort \/ PortMatches(Span[LabelsAt(j)[k]], c.port))
        BY <2>3, <2>4, <2>6, <4>1 DEF Bright
      <4>3. QED
        BY <2>1, <2>6, <3>2, <4>2, PlainRuleCatches
    <3>5. Partial(g, f)
      BY <2>3, <3>3, <3>4
    <3> HIDE DEF Partial
    <3>6. QED
      BY <2>4, <2>10, <3>5 DEF Bright
  <2> HIDE DEF Partial
  <2>11. QED
    BY <2>4, <2>9, <2>10 DEF Behind
<1>2. QED
  BY <1>1, BuiltFlows, PTL

-----------------------------------------------------------------------------
(* What the absence of findings means.                                       *)
LEMMA BitsBounded == ASSUME NEW e, IsText(e) PROVE TargetBits(e) \in Int /\ TargetBits(e) <= 32
<1> DEFINE dots == {k \in 1 .. Len(e) - 1 : e[k] = "." /\ \E m \in (k + 1) .. Len(e) - 1 : e[m] # "."}
           prefix == CHOOSE n \in PrefixOf(e) : TRUE
<1>1. Len(e) \in Nat
  BY DEF IsText
<1>2. dots \in SUBSET (1 .. Len(e))
  BY <1>1
<1>3. PrefixOf(e) # {} => prefix \in Nat
  <2>1. \A n \in PrefixOf(e) : n \in Nat
    <3>1. PrefixOf(e) \subseteq Numbers \cap 0 .. 32
      BY DEF PrefixOf
    <3>2. \A n \in Numbers \cap 0 .. 32 : n \in Nat
      OBVIOUS
    <3>3. QED
      BY <3>1, <3>2
  <2> HIDE DEF prefix
  <2>2. PrefixOf(e) # {} => prefix \in PrefixOf(e)
    BY DEF prefix
  <2>3. QED
    BY <2>1, <2>2
<1>4. TargetBits(e) = IF e = <<Star>> THEN 32
                      ELSE IF PrefixOf(e) # {} THEN 32 - prefix
                      ELSE IF ~ IsGlob(e) THEN 0
                      ELSE IF e[Len(e)] = Star /\ Cardinality(dots) <= 2 THEN 32 - 8 * (Cardinality(dots) + 1)
                      ELSE 24
  BY DEF TargetBits
<1> HIDE DEF dots, prefix
<1>5. Cardinality(dots) \in Nat
  BY <1>1, <1>2, SetOfRows
<1>6. 32 - 8 * (Cardinality(dots) + 1) \in Int /\ 32 - 8 * (Cardinality(dots) + 1) <= 32
  BY <1>5
<1>7. QED
  BY <1>3, <1>4, <1>6

(* A rule whose only constraint is `*` in its targets counts as wide.        *)
LEMMA StarIsWide ==
  ASSUME NEW r \in Rules, <<Star>> \in Body[r].targets,
         Body[r].applications = {}, Body[r].ports = {}
  PROVE  r \in WideRules
<1> DEFINE bits == {TargetBits(e) : e \in Body[r].targets}
<1>1. \A x \in bits : x \in Int /\ x <= 32
  BY BitsBounded, TextAssumption
<1>2. 32 \in bits
  BY DEF TargetBits
<1> HIDE DEF bits
<1>3. \E x \in bits : \A y \in bits : x >= y
  BY <1>1, <1>2
<1>4. Max(bits) \in bits /\ \A y \in bits : Max(bits) >= y
  BY <1>3 DEF Max
<1>5. Widest(bits, 32) = 32
  BY <1>1, <1>2, <1>4 DEF Widest
<1>6. Widest({PortBits(e) : e \in Body[r].ports}, 16) = 16
      /\ Widest({AppBits(e) : e \in Body[r].applications}, 16) = 16
  BY DEF Widest
<1>7. Breadth(Body[r]) = 64
  BY <1>5, <1>6 DEF Breadth, bits
<1>8. QED
  BY <1>7 DEF WideRules

(* What is not reported is not there.                                        *)
LEMMA NothingReported ==
  ASSUME Reported \cap {"missing_default_deny", "blanket_direct",
                        "any_target_direct", "wide_breadth_direct"} = {}
  PROVE  /\ HasDefaultDeny(R)
         /\ \A i \in DirectRules(R) : ~ IsCatchAll(BodyAt(R, i)) /\ ~ AnyTarget(BodyAt(R, i))
                                      /\ R[i].rule \notin WideRules
<1>1. \A f \in RuleFindings(R) : f.kind \in Reported
  BY DEF Reported, Findings, R
<1>2. HasDefaultDeny(R)
  <2>1. ~ HasDefaultDeny(R) => Finding("missing_default_deny", "high", {}) \in RuleFindings(R)
    BY DEF RuleFindings
  <2>2. Finding("missing_default_deny", "high", {}).kind = "missing_default_deny"
    BY DEF Finding
  <2>3. QED
    BY <1>1, <2>1, <2>2
<1>3. ASSUME NEW i \in DirectRules(R) PROVE ~ IsCatchAll(BodyAt(R, i))
  <2>1. IsCatchAll(BodyAt(R, i)) => Finding("blanket_direct", "critical", {i}) \in RuleFindings(R)
    BY <1>3 DEF RuleFindings
  <2>2. Finding("blanket_direct", "critical", {i}).kind = "blanket_direct"
    BY DEF Finding
  <2>3. QED
    BY <1>1, <2>1, <2>2
<1>4. ASSUME NEW i \in DirectRules(R) PROVE ~ AnyTarget(BodyAt(R, i))
  <2>1. AnyTarget(BodyAt(R, i)) => Finding("any_target_direct", "high", {i}) \in RuleFindings(R)
    BY <1>4 DEF RuleFindings
  <2>2. Finding("any_target_direct", "high", {i}).kind = "any_target_direct"
    BY DEF Finding
  <2>3. QED
    BY <1>1, <2>1, <2>2
<1>5. ASSUME NEW i \in DirectRules(R) PROVE R[i].rule \notin WideRules
  <2>1. R[i].rule \in WideRules /\ ~ IsCatchAll(BodyAt(R, i)) =>
          Finding("wide_breadth_direct", "medium", {i}) \in RuleFindings(R)
    BY <1>5 DEF RuleFindings
  <2>2. Finding("wide_breadth_direct", "medium", {i}).kind = "wide_breadth_direct"
    BY DEF Finding
  <2>3. QED
    BY <1>1, <1>3, <2>1, <2>2
<1>6. QED
  BY <1>2, <1>3, <1>4, <1>5

(* The catch-all rule that denies catches every connection, so some rule     *)
(* comes first.                                                              *)
LEMMA DefaultWins ==
  ASSUME LoopTyped, HasDefaultDeny(R), NEW c \in Candidates
  PROVE  Winner(R, c) # {}
<1> DEFINE T == {i \in DOMAIN R : R[i].enabled /\ <<R[i].rule, c>> \in Catches}
<1>1. PICK i \in On : IsCatchAll(BodyAt(R, i))
  BY DEF HasDefaultDeny, On
<1>2. i \in DOMAIN R /\ R[i].enabled
  BY DEF On, EnabledIn
<1>3. BodyAt(R, i) = Body[R[i].rule] /\ R[i].rule \in Rules
  BY <1>2, BodyOfRow
<1>4. RuleMatches(Body[R[i].rule], c)
  BY <1>1, <1>3 DEF IsCatchAll, RuleMatches, ListMatches
<1>5. i \in T
  BY <1>2, <1>3, <1>4 DEF Catches
<1>6. DOMAIN R = 1 .. Len(R) /\ Len(R) \in Nat
  BY LoopNumbers
<1>7. T \in SUBSET Nat
  BY <1>6
<1> HIDE DEF T
<1>8. PICK w \in T : \A k \in T : w <= k
  BY <1>5, <1>7, Least
<1>9. \A k \in 1 .. (w - 1) : k \in DOMAIN R /\ ~(w <= k)
  BY <1>6, <1>7, <1>8 DEF T
<1>10. w \in Winner(R, c)
  BY <1>8, <1>9 DEF Winner, T
<1>11. QED
  BY <1>10

(* A profile without a finding about default deny or wide Direct rules: for  *)
(* every vocabulary, every connection meets a rule, and goes out directly    *)
(* only to a host that the rule names by something other than `*`.           *)
THEOREM QuietProfilesNameHosts == FlowsSpec => []QuietMeansNamed
<1>1. FlowsInv => QuietMeansNamed
  <2> SUFFICES ASSUME FlowsInv,
                      Reported \cap {"missing_default_deny", "blanket_direct",
                                     "any_target_direct", "wide_breadth_direct"} = {},
                      NEW c \in Candidates
               PROVE  /\ Winner(R, c) # {}
                      /\ \A i \in Winner(R, c) :
                           BodyAt(R, i).action = Direct => <<R[i].rule, c.host>> \in Naming
    BY DEF QuietMeansNamed, R
  <2>1. LoopTyped
    BY DEF FlowsInv
  <2>2. /\ HasDefaultDeny(R)
        /\ \A i \in DirectRules(R) : ~ IsCatchAll(BodyAt(R, i)) /\ ~ AnyTarget(BodyAt(R, i))
                                     /\ R[i].rule \notin WideRules
    BY NothingReported
  <2>3. Winner(R, c) # {}
    BY <2>1, <2>2, DefaultWins
  <2>4. ASSUME NEW i \in Winner(R, c), BodyAt(R, i).action = Direct
        PROVE  <<R[i].rule, c.host>> \in Naming
    <3> DEFINE body == BodyAt(R, i)
    <3>1. Caught(i, c) /\ i \in DOMAIN R
      BY <2>1, WinnerIsCaught
    <3>2. i \in DirectRules(R)
      BY <2>4, <3>1 DEF DirectRules, Caught, On
    <3>3. body = Body[R[i].rule] /\ R[i].rule \in Rules
      BY <2>1, <3>1, BodyOfRow
    <3>4. RuleMatches(Body[R[i].rule], c)
      BY <3>1 DEF Caught, Catches
    <3>5. ~ IsCatchAll(body) /\ ~ AnyTarget(body) /\ R[i].rule \notin WideRules
      BY <2>2, <3>2
    <3> HIDE DEF body
    <3>6. body.targets # {} /\ <<Star>> \notin body.targets
      BY <3>3, <3>5, StarIsWide DEF IsCatchAll, AnyTarget
    <3>7. PICK e \in body.targets : TargetMatches(e, c.host)
      BY <3>3, <3>4, <3>6 DEF RuleMatches, ListMatches
    <3>8. c.host \in Hosts \cup {NoText} /\ e # <<Star>>
      BY <3>6, <3>7 DEF Candidates
    <3>9. QED
      BY <3>3, <3>7, <3>8 DEF Naming
  <2>5. QED
    BY <2>3, <2>4
<1>2. QED
  BY <1>1, BuiltFlows, PTL

-----------------------------------------------------------------------------
(* The glob loop.  While it reads the text, the answer is whether the rest  *)
(* of the pattern matches the rest of the text, or matches when the last    *)
(* star takes more than it has.  Earlier stars need not be remembered: if   *)
(* the last star could take more, the present piece would match further to  *)
(* the right (LastStar), and so any star passed next reaches that match,    *)
(* too.                                                                     *)

Later(u, b) == (b + 1) .. (Len(u) + 1)

LastStar(q, u, i, j, s, b) ==
  s # 0 =>
    /\ q[s] = Star
    /\ b <= j
    /\ \A k \in Later(u, b) : MatchesFrom(q, u, s + 1, k) =>
         \E l \in Later(u, j) : MatchesFrom(q, u, i, l)

Remaining(q, u, i, j, s, b) ==
  \/ MatchesFrom(q, u, i, j)
  \/ s # 0 /\ \E k \in Later(u, b) : MatchesFrom(q, u, s + 1, k)

LoopInv ==
  /\ LoopTypeOK
  /\ phase = "text" =>
       /\ LastStar(pattern, text, pi, ti, star, back)
       /\ Matches(pattern, text) <=> Remaining(pattern, text, pi, ti, star, back)
  /\ phase = "rest" =>
       ti = Len(text) + 1 /\ (Matches(pattern, text) <=> MatchesFrom(pattern, text, pi, ti))
  /\ AnswerRight

LEMMA LoopLengths ==
  ASSUME LoopTypeOK
  PROVE  /\ Len(pattern) \in Nat /\ Len(text) \in Nat
         /\ pattern \in Seq(Letters \cup {Star, Query}) /\ text \in Seq(Letters)
         /\ \A i \in 1 .. Len(text) : text[i] # Star
BY LoopAssumption DEF LoopTypeOK

(* The loop starts with the question itself. *)
LEMMA InitLoop == LoopInit => LoopInv
<1> SUFFICES ASSUME LoopInit PROVE LoopInv
  OBVIOUS
<1>1. Len(pattern) \in Nat /\ Len(text) \in Nat
  BY LoopAssumption DEF LoopInit
<1>2. /\ pattern \in Patterns /\ text \in Texts
      /\ phase = "text" /\ star = 0 /\ back = 1 /\ pi = 1 /\ ti = 1 /\ result = FALSE
  BY DEF LoopInit
<1>3. 1 \in 1 .. (Len(pattern) + 1) /\ 1 \in 1 .. (Len(text) + 1) /\ 0 \in 0 .. Len(pattern)
  BY <1>1
<1>4. LoopTypeOK
  BY <1>2, <1>3 DEF LoopTypeOK
<1>5. LastStar(pattern, text, pi, ti, star, back)
  BY <1>2 DEF LastStar
<1>6. Matches(pattern, text) <=> Remaining(pattern, text, pi, ti, star, back)
  BY <1>2 DEF Matches, Remaining
<1>7. QED
  BY <1>2, <1>4, <1>5, <1>6 DEF LoopInv, AnswerRight

(* A character that fits: the match from here is the match from the next,  *)
(* and the same holds wherever the last star would begin later.            *)
LEMMA TakeLoop == ASSUME LoopInv, Take PROVE LoopInv'
<1>1. /\ LoopTypeOK /\ phase = "text" /\ phase' = "text"
      /\ ti <= Len(text) /\ pi <= Len(pattern)
      /\ pi' = pi + 1 /\ ti' = ti + 1
      /\ pattern' = pattern /\ text' = text /\ star' = star /\ back' = back /\ result' = result
  BY DEF LoopInv, Take, MoreText, OnPiece
<1>2. /\ Len(pattern) \in Nat /\ Len(text) \in Nat
      /\ pattern \in Seq(Letters \cup {Star, Query}) /\ text \in Seq(Letters)
      /\ \A i \in 1 .. Len(text) : text[i] # Star
  BY <1>1, LoopLengths
<1>3. /\ pi \in 1 .. Len(pattern) /\ ti \in 1 .. Len(text)
      /\ star \in 0 .. Len(pattern) /\ back \in 1 .. (Len(text) + 1)
  BY <1>1, <1>2 DEF LoopTypeOK
<1>4. pattern[pi] # Star /\ Accepts(pattern[pi], text[ti])
  <2>1. Accepts(pattern[pi], text[ti])
    BY DEF Take, OnPiece
  <2>2. QED
    BY <2>1, <1>2, <1>3 DEF Accepts, Star, Query
<1>5. LoopTypeOK'
  <2>1. pi + 1 \in 1 .. (Len(pattern) + 1) /\ ti + 1 \in 1 .. (Len(text) + 1)
    BY <1>2, <1>3
  <2>2. QED
    BY <1>1, <2>1 DEF LoopTypeOK
<1>6. MatchesFrom(pattern, text, pi, ti) <=> MatchesFrom(pattern, text, pi + 1, ti + 1)
  BY <1>2, <1>3, <1>4, FromPiece
<1>7. LastStar(pattern, text, pi + 1, ti + 1, star, back)
  <2> SUFFICES ASSUME star # 0
               PROVE  /\ pattern[star] = Star
                      /\ back <= ti + 1
                      /\ \A k \in Later(text, back) : MatchesFrom(pattern, text, star + 1, k) =>
                           \E l \in Later(text, ti + 1) : MatchesFrom(pattern, text, pi + 1, l)
    BY DEF LastStar
  <2>1. /\ pattern[star] = Star /\ back <= ti
        /\ \A k \in Later(text, back) : MatchesFrom(pattern, text, star + 1, k) =>
             \E l \in Later(text, ti) : MatchesFrom(pattern, text, pi, l)
    BY <1>1 DEF LoopInv, LastStar
  <2>2. ASSUME NEW l \in Later(text, ti), MatchesFrom(pattern, text, pi, l)
        PROVE  \E m \in Later(text, ti + 1) : MatchesFrom(pattern, text, pi + 1, m)
    <3>1. l \in 1 .. (Len(text) + 1)
      BY <1>2, <1>3 DEF Later
    <3>2. l <= Len(text) /\ MatchesFrom(pattern, text, pi + 1, l + 1)
      BY <3>1, <2>2, <1>2, <1>3, <1>4, FromPiece
    <3>3. l + 1 \in Later(text, ti + 1)
      BY <3>2, <1>2, <1>3 DEF Later
    <3>4. QED
      BY <3>2, <3>3
  <2>3. back <= ti + 1
    BY <2>1, <1>2, <1>3
  <2>4. QED
    BY <2>1, <2>2, <2>3
<1>8. Matches(pattern, text) <=> Remaining(pattern, text, pi + 1, ti + 1, star, back)
  BY <1>1, <1>6 DEF LoopInv, Remaining
<1>9. QED
  BY <1>1, <1>5, <1>7, <1>8 DEF LoopInv, AnswerRight

(* A star: it may begin with no character, and with more of them it covers  *)
(* whatever the star before it could still have taken.                      *)
LEMMA PassStarLoop == ASSUME LoopInv, PassStar PROVE LoopInv'
<1>1. /\ LoopTypeOK /\ phase = "text" /\ phase' = "text"
      /\ ti <= Len(text) /\ pi <= Len(pattern) /\ pattern[pi] = Star
      /\ pi' = pi + 1 /\ ti' = ti /\ star' = pi /\ back' = ti
      /\ pattern' = pattern /\ text' = text /\ result' = result
  BY DEF LoopInv, PassStar, MoreText, OnStar
<1>2. /\ Len(pattern) \in Nat /\ Len(text) \in Nat
      /\ pattern \in Seq(Letters \cup {Star, Query}) /\ text \in Seq(Letters)
  BY <1>1, LoopLengths
<1>3. /\ pi \in 1 .. Len(pattern) /\ ti \in 1 .. Len(text)
      /\ star \in 0 .. Len(pattern) /\ back \in 1 .. (Len(text) + 1)
  BY <1>1, <1>2 DEF LoopTypeOK
<1>4. LoopTypeOK'
  <2>1. pi + 1 \in 1 .. (Len(pattern) + 1) /\ pi \in 0 .. Len(pattern) /\ ti \in 1 .. (Len(text) + 1)
    BY <1>2, <1>3
  <2>2. QED
    BY <1>1, <2>1 DEF LoopTypeOK
<1>5. LastStar(pattern, text, pi + 1, ti, pi, ti)
  BY <1>1, <1>2, <1>3 DEF LastStar
<1>6. ASSUME NEW l \in Later(text, ti), MatchesFrom(pattern, text, pi, l)
      PROVE  \E m \in Later(text, ti) : MatchesFrom(pattern, text, pi + 1, m)
  <2>1. l \in 1 .. (Len(text) + 1) /\ l > ti
    BY <1>2, <1>3 DEF Later
  <2>2. PICK m \in l .. (Len(text) + 1) : MatchesFrom(pattern, text, pi + 1, m)
    BY <1>1, <1>2, <1>3, <1>6, <2>1, FromStar
  <2>3. m \in Later(text, ti)
    BY <2>1, <1>2, <1>3 DEF Later
  <2>4. QED
    BY <2>2, <2>3
<1>7. MatchesFrom(pattern, text, pi, ti) <=>
        \/ MatchesFrom(pattern, text, pi + 1, ti)
        \/ \E m \in Later(text, ti) : MatchesFrom(pattern, text, pi + 1, m)
  <2>1. MatchesFrom(pattern, text, pi, ti) <=>
          \E m \in ti .. (Len(text) + 1) : MatchesFrom(pattern, text, pi + 1, m)
    BY <1>1, <1>2, <1>3, FromStar, SMTT(30)
  <2>2. \A m : m \in ti .. (Len(text) + 1) <=> m = ti \/ m \in Later(text, ti)
    BY <1>2, <1>3 DEF Later
  <2>3. QED
    BY <2>1, <2>2
<1>8. Matches(pattern, text) <=> Remaining(pattern, text, pi + 1, ti, pi, ti)
  <2>1. Matches(pattern, text) <=> Remaining(pattern, text, pi, ti, star, back)
    BY <1>1 DEF LoopInv
  <2>2. (star # 0 /\ \E k \in Later(text, back) : MatchesFrom(pattern, text, star + 1, k)) =>
          \E m \in Later(text, ti) : MatchesFrom(pattern, text, pi + 1, m)
    BY <1>1, <1>6 DEF LoopInv, LastStar
  <2>3. pi # 0
    BY <1>3
  <2>4. QED
    BY <2>1, <2>2, <2>3, <1>7 DEF Remaining
<1>9. QED
  BY <1>1, <1>4, <1>5, <1>8 DEF LoopInv, AnswerRight

(* Neither a fitting character nor a star: no match from here. *)
LEMMA NoMatchHere ==
  ASSUME LoopTypeOK, MoreText, ~ OnPiece, ~ OnStar
  PROVE  ~ MatchesFrom(pattern, text, pi, ti)
<1>1. /\ Len(pattern) \in Nat /\ Len(text) \in Nat
      /\ pattern \in Seq(Letters \cup {Star, Query}) /\ text \in Seq(Letters)
  BY LoopLengths
<1>2. ti \in 1 .. Len(text) /\ ti \in 1 .. (Len(text) + 1) /\ pi \in 1 .. (Len(pattern) + 1)
  BY <1>1 DEF LoopTypeOK, MoreText
<1>3. CASE pi = Len(pattern) + 1
  BY <1>1, <1>2, <1>3, FromEnd
<1>4. CASE pi # Len(pattern) + 1
  <2>1. pi \in 1 .. Len(pattern)
    BY <1>1, <1>2, <1>4
  <2>2. pattern[pi] # Star /\ ~ Accepts(pattern[pi], text[ti])
    BY <2>1, <1>1 DEF OnPiece, OnStar
  <2>3. QED
    BY <2>1, <2>2, <1>1, <1>2, FromPiece
<1>5. QED
  BY <1>3, <1>4

(* Going back: with no match from here, the last star must take more, and   *)
(* the next length to try is one more than it has.                          *)
LEMMA GoBackLoop == ASSUME LoopInv, GoBack PROVE LoopInv'
<1>1. /\ LoopTypeOK /\ phase = "text" /\ phase' = "text"
      /\ ti <= Len(text) /\ star # 0
      /\ pi' = star + 1 /\ ti' = back + 1 /\ star' = star /\ back' = back + 1
      /\ pattern' = pattern /\ text' = text /\ result' = result
  BY DEF LoopInv, GoBack, MoreText
<1>2. /\ Len(pattern) \in Nat /\ Len(text) \in Nat
  BY <1>1, LoopLengths
<1>3. /\ star \in 0 .. Len(pattern) /\ back \in 1 .. (Len(text) + 1) /\ ti \in 1 .. Len(text)
  BY <1>1, <1>2 DEF LoopTypeOK
<1>4. back <= ti /\ pattern[star] = Star
  BY <1>1 DEF LoopInv, LastStar
<1>5. LoopTypeOK'
  <2>1. star + 1 \in 1 .. (Len(pattern) + 1) /\ back + 1 \in 1 .. (Len(text) + 1)
    BY <1>2, <1>3, <1>4
  <2>2. QED
    BY <1>1, <2>1 DEF LoopTypeOK
<1>6. LastStar(pattern, text, star + 1, back + 1, star, back + 1)
  BY <1>2, <1>3, <1>4 DEF LastStar
<1>7. Matches(pattern, text) <=> Remaining(pattern, text, star + 1, back + 1, star, back + 1)
  <2>1. Matches(pattern, text) <=> Remaining(pattern, text, pi, ti, star, back)
    BY <1>1 DEF LoopInv
  <2>2. ~ MatchesFrom(pattern, text, pi, ti)
    BY <1>1, NoMatchHere DEF GoBack
  <2>3. \A k : k \in Later(text, back) <=> k = back + 1 \/ k \in Later(text, back + 1)
    BY <1>2, <1>3, <1>4 DEF Later
  <2>4. QED
    BY <2>1, <2>2, <2>3, <1>1 DEF Remaining
<1>8. QED
  BY <1>1, <1>5, <1>6, <1>7 DEF LoopInv, AnswerRight

LEMMA GiveUpLoop == ASSUME LoopInv, GiveUp PROVE LoopInv'
<1>1. /\ LoopTypeOK /\ phase = "text" /\ phase' = "done" /\ star = 0 /\ result' = FALSE
      /\ pattern' = pattern /\ text' = text /\ pi' = pi /\ ti' = ti /\ star' = star /\ back' = back
  BY DEF LoopInv, GiveUp, MoreText
<1>2. LoopTypeOK'
  BY <1>1 DEF LoopTypeOK
<1>3. ~ Matches(pattern, text)
  <2>1. ~ MatchesFrom(pattern, text, pi, ti)
    BY <1>1, NoMatchHere DEF GiveUp
  <2>2. QED
    BY <1>1, <2>1 DEF LoopInv, Remaining
<1>4. Matches(pattern, text)' <=> Matches(pattern, text)
  BY <1>1
<1>5. QED
  BY <1>1, <1>2, <1>3, <1>4 DEF LoopInv, AnswerRight

(* The text is over: no star can take more of it. *)
LEMMA TextEndsLoop == ASSUME LoopInv, TextEnds PROVE LoopInv'
<1>1. /\ LoopTypeOK /\ phase = "text" /\ phase' = "rest" /\ ti > Len(text)
      /\ pattern' = pattern /\ text' = text /\ pi' = pi /\ ti' = ti /\ star' = star /\ back' = back
      /\ result' = result
  BY DEF LoopInv, TextEnds
<1>2. LoopTypeOK'
  BY <1>1 DEF LoopTypeOK
<1>3. ti = Len(text) + 1
  <2>1. Len(text) \in Nat
    BY <1>1, LoopLengths
  <2>2. QED
    BY <1>1, <2>1 DEF LoopTypeOK
<1>4. Matches(pattern, text) <=> MatchesFrom(pattern, text, pi, ti)
  <2>1. Matches(pattern, text) <=> Remaining(pattern, text, pi, ti, star, back)
    BY <1>1 DEF LoopInv
  <2>2. \A k \in Later(text, back) : star # 0 /\ MatchesFrom(pattern, text, star + 1, k) =>
          \E l \in Later(text, ti) : MatchesFrom(pattern, text, pi, l)
    BY <1>1 DEF LoopInv, LastStar
  <2>3. Later(text, ti) = {}
    <3>1. Len(text) \in Nat
      BY <1>1, LoopLengths
    <3>2. QED
      BY <3>1, <1>3 DEF Later
  <2>4. QED
    BY <2>1, <2>2, <2>3 DEF Remaining
<1>5. QED
  BY <1>1, <1>2, <1>3, <1>4 DEF LoopInv, AnswerRight

(* A star that stands where the text is over takes nothing. *)
LEMMA SkipStarLoop == ASSUME LoopInv, SkipStar PROVE LoopInv'
<1>1. /\ LoopTypeOK /\ phase = "rest" /\ phase' = "rest" /\ pi' = pi + 1
      /\ pi <= Len(pattern) /\ pattern[pi] = Star
      /\ pattern' = pattern /\ text' = text /\ ti' = ti /\ star' = star /\ back' = back
      /\ result' = result
  BY DEF LoopInv, SkipStar
<1>2. /\ Len(pattern) \in Nat /\ Len(text) \in Nat
      /\ pattern \in Seq(Letters \cup {Star, Query}) /\ text \in Seq(Letters)
  BY <1>1, LoopLengths
<1>3. pi \in 1 .. Len(pattern) /\ pi + 1 \in 1 .. (Len(pattern) + 1)
  BY <1>1, <1>2 DEF LoopTypeOK
<1>4. LoopTypeOK'
  BY <1>1, <1>3 DEF LoopTypeOK
<1>5. ti = Len(text) + 1 /\ (Matches(pattern, text) <=> MatchesFrom(pattern, text, pi, ti))
  BY <1>1 DEF LoopInv
<1>6. MatchesFrom(pattern, text, pi, ti) <=> MatchesFrom(pattern, text, pi + 1, ti)
  <2>1. MatchesFrom(pattern, text, pi, ti) <=>
          \E k \in ti .. (Len(text) + 1) : MatchesFrom(pattern, text, pi + 1, k)
    BY <1>1, <1>2, <1>3, <1>5, FromStar
  <2>2. \A k : k \in ti .. (Len(text) + 1) <=> k = ti
    BY <1>2, <1>5
  <2>3. QED
    BY <2>1, <2>2
<1>7. QED
  BY <1>1, <1>4, <1>5, <1>6 DEF LoopInv, AnswerRight

LEMMA AnswerLoop == ASSUME LoopInv, Answer PROVE LoopInv'
<1>1. /\ LoopTypeOK /\ phase = "rest" /\ phase' = "done" /\ result' = (pi > Len(pattern))
      /\ ~ (pi <= Len(pattern) /\ pattern[pi] = Star)
      /\ pattern' = pattern /\ text' = text /\ pi' = pi /\ ti' = ti /\ star' = star /\ back' = back
  BY DEF LoopInv, Answer
<1>2. /\ Len(pattern) \in Nat /\ Len(text) \in Nat
      /\ pattern \in Seq(Letters \cup {Star, Query}) /\ text \in Seq(Letters)
  BY <1>1, LoopLengths
<1>3. pi \in 1 .. (Len(pattern) + 1) /\ ti \in 1 .. (Len(text) + 1)
  BY <1>1 DEF LoopTypeOK
<1>4. LoopTypeOK'
  BY <1>1, <1>2, <1>3 DEF LoopTypeOK
<1>5. ti = Len(text) + 1 /\ (Matches(pattern, text) <=> MatchesFrom(pattern, text, pi, ti))
  BY <1>1 DEF LoopInv
<1>6. CASE pi = Len(pattern) + 1
  <2>1. Matches(pattern, text)
    BY <1>2, <1>3, <1>5, <1>6, FromEnd
  <2>2. result' = TRUE
    <3>1. pi > Len(pattern)
      BY <1>2, <1>6
    <3>2. QED
      BY <1>1, <3>1, Zenon
  <2>3. QED
    BY <1>1, <1>4, <2>1, <2>2 DEF LoopInv, AnswerRight
<1>7. CASE pi # Len(pattern) + 1
  <2>1. pi \in 1 .. Len(pattern) /\ ~ (ti <= Len(text))
    BY <1>2, <1>3, <1>5, <1>7
  <2>2. ~ Matches(pattern, text)
    BY <2>1, <1>1, <1>2, <1>3, <1>5, FromPiece
  <2>3. ~ result'
    <3>1. ~ (pi > Len(pattern))
      BY <1>2, <2>1
    <3>2. QED
      BY <1>1, <3>1, Zenon
  <2>4. QED
    BY <1>1, <1>4, <2>2, <2>3 DEF LoopInv, AnswerRight
<1>8. QED
  BY <1>6, <1>7

LEMMA StutterLoop == ASSUME LoopInv, UNCHANGED loopVars PROVE LoopInv'
BY DEF loopVars, LoopInv, LoopTypeOK, AnswerRight

(* The invariant holds in every state. *)
LEMMA LoopInvariant == LoopSpec => []LoopInv
<1>1. LoopInit => LoopInv
  BY InitLoop
<1>2. LoopInv /\ [LoopNext]_loopVars => LoopInv'
  BY TakeLoop, PassStarLoop, GoBackLoop, GiveUpLoop, TextEndsLoop, SkipStarLoop,
     AnswerLoop, StutterLoop DEF LoopNext
<1>3. QED
  BY <1>1, <1>2, PTL DEF LoopSpec

(* No index leaves the pattern or the text: the loop of glob_match_inner    *)
(* reads no character that is not there.                                    *)
THEOREM LoopTypeCorrect == LoopSpec => []LoopTypeOK
<1>1. LoopInv => LoopTypeOK
  BY DEF LoopInv
<1>2. QED
  BY <1>1, LoopInvariant, PTL

(* The loop's answer is the one that trying every length for every star     *)
(* would give, though it remembers only the last one.                       *)
THEOREM LoopAnswerRight == LoopSpec => []AnswerRight
<1>1. LoopInv => AnswerRight
  BY DEF LoopInv
<1>2. QED
  BY <1>1, LoopInvariant, PTL

(* For every alphabet, a glob that glob_covers_glob takes to cover another  *)
(* matches every text for which the loop lets the other match.              *)
THEOREM CoveringIsSound == LoopSpec => []GlobCoverSound
<1>1. LoopInv => GlobCoverSound
  <2>1. SUFFICES ASSUME LoopInv, phase = "done", result, IsGlob(pattern),
                        NEW q \in Patterns, IsGlob(q), GlobCovers(q, pattern)
                 PROVE  Matches(q, text)
    BY DEF GlobCoverSound
  <2>2. Matches(pattern, text)
    BY <2>1 DEF LoopInv, AnswerRight
  <2>3. /\ pattern \in Seq(Letters \cup {Star, Query}) /\ q \in Seq(Letters \cup {Star, Query})
        /\ text \in Seq(Letters)
    BY <2>1, LoopAssumption DEF LoopInv, LoopTypeOK
  <2>4. QED
    BY <2>1, <2>2, <2>3, CoverMatches
<1>2. QED
  BY <1>1, LoopInvariant, PTL
=============================================================================
