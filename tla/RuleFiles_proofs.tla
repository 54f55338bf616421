-------------------------- MODULE RuleFiles_proofs --------------------------
(***************************************************************************)
(* Proofs about RuleFiles, for any directories, file names, rules and      *)
(* commands under way.                                                     *)
(***************************************************************************)
EXTENDS RuleFiles, TLAPS

(* A save or delete of the file has taken effect and not been answered. *)
Pending(ps, d, n) == \E o \in Ops : ps[o].pc = "done" /\ ps[o].dir = d /\ ps[o].name = n

(* What a scan has of a file is what the file holds. *)
Sees(user, text, n) == {r \in user : r.source = n} = Parsed(n, text)

(* The settings are what the commands meant, and so is what a command that *)
(* has loaded them is about to save.                                       *)
Uncrossed ==
  ~overlapped =>
    /\ settings = last
    /\ setDir.pc = "loaded" => settings # Garbage /\ setDir.s.llm = settings.llm
    /\ setLlm.pc = "loaded" => settings # Garbage /\ setLlm.s.dir = settings.dir

(* A scan of the catalogue has what it read, unless an answer is pending   *)
(* that will restart it.                                                   *)
ScanTrue ==
  LET c == scan["catalog"]
  IN  c.pc = "reading" /\ ~missed =>
        /\ c.dir = settings.dir
        /\ \A n \in Names \ c.todo :
             Pending(op, c.dir, n) \/ Sees(c.user, files[c.dir][n], n)

(* So has a list that is not marked.                                       *)
ListTrue ==
  scan["catalog"].pc = "idle" /\ ~missed /\ list.rules # None /\ ~list.stale
    /\ ~list.failed =>
      \E user \in SUBSET Rule :
        /\ list.rules = Combined(user)
        /\ \A n \in Names : \/ Pending(op, settings.dir, n)
                           \/ Sees(user, files[settings.dir][n], n)

(* On the screen, a marked list is being asked for. *)
MarkedAsked == visible /\ scan["catalog"].pc = "idle" /\ list.stale => list.failed

SettingsParse == ~missed => settings # Garbage

(* No file is read twice. *)
ReadOnce ==
  scan["catalog"].pc = "reading" =>
    \A r \in scan["catalog"].user : r.source \notin scan["catalog"].todo

CatInv == ScanTrue /\ ListTrue /\ MarkedAsked /\ SettingsParse /\ ReadOnce

(* A hunt has what it read of the files no one touched.                    *)
HuntTrue ==
  LET h == scan["hunt"]
  IN  h.pc = "reading" =>
        \A n \in h.calm \ h.todo : Parsed(n, files[h.dir][n]) \subseteq h.user

IInv == TypeOK /\ Uncrossed /\ CatInv /\ HuntTrue /\ HuntRunsTheFiles
-----------------------------------------------------------------------------
LEMMA UnsettleTyped ==
  ASSUME TypeOK, NEW d \in Dirs, NEW n \in Names, scan' = Unsettle(d, n)
  PROVE  /\ scan' \in [Kinds -> {Idle, [pc |-> "called"]}
                \cup [pc : {"reading"}, dir : Dirs, todo : SUBSET Names,
                      user : SUBSET Rule, calm : SUBSET Names]]
         /\ \A k \in Kinds :
              /\ scan'[k].pc = scan[k].pc
              /\ scan[k].pc = "reading" =>
                   /\ scan'[k].dir = scan[k].dir /\ scan'[k].todo = scan[k].todo
                   /\ scan'[k].user = scan[k].user
                   /\ scan'[k].calm = IF scan[k].dir = d THEN scan[k].calm \ {n}
                                      ELSE scan[k].calm
<1>1. \A k \in Kinds : scan'[k] = IF scan[k].pc = "reading" /\ scan[k].dir = d
                                  THEN [scan[k] EXCEPT !.calm = @ \ {n}] ELSE scan[k]
  BY DEF Unsettle
<1>2. ASSUME NEW k \in Kinds
      PROVE  /\ scan'[k] \in {Idle, [pc |-> "called"]}
                  \cup [pc : {"reading"}, dir : Dirs, todo : SUBSET Names,
                        user : SUBSET Rule, calm : SUBSET Names]
             /\ scan'[k].pc = scan[k].pc
             /\ scan[k].pc = "reading" =>
                  /\ scan'[k].dir = scan[k].dir /\ scan'[k].todo = scan[k].todo
                  /\ scan'[k].user = scan[k].user
                  /\ scan'[k].calm = IF scan[k].dir = d THEN scan[k].calm \ {n}
                                     ELSE scan[k].calm
  <2>1. CASE scan[k].pc # "reading"
    BY <1>1, <1>2, <2>1 DEF TypeOK
  <2>2. CASE scan[k].pc = "reading"
    <3>1. scan[k] \in [pc : {"reading"}, dir : Dirs, todo : SUBSET Names,
                       user : SUBSET Rule, calm : SUBSET Names]
      BY <1>2, <2>2 DEF TypeOK, Idle
    <3>2. scan'[k] = [scan[k] EXCEPT !.calm = IF scan[k].dir = d THEN @ \ {n} ELSE @]
      BY <1>1, <2>2, <3>1
    <3> DEFINE calm == IF scan[k].dir = d THEN scan[k].calm \ {n} ELSE scan[k].calm
    <3>3. calm \in SUBSET Names
      BY <3>1
    <3> HIDE DEF calm
    <3>4. scan'[k] \in [pc : {"reading"}, dir : Dirs, todo : SUBSET Names,
                        user : SUBSET Rule, calm : SUBSET Names]
      BY <3>1, <3>2, <3>3 DEF calm
    <3>5. /\ scan'[k].pc = scan[k].pc
          /\ scan'[k].dir = scan[k].dir /\ scan'[k].todo = scan[k].todo
          /\ scan'[k].user = scan[k].user /\ scan'[k].calm = calm
      BY <3>1, <3>2 DEF calm
    <3> QED
      BY <3>4, <3>5 DEF calm
  <2> QED
    BY <2>1, <2>2
<1>3. scan' = [k \in Kinds |-> scan'[k]]
  BY DEF Unsettle
<1> QED
  BY <1>2, <1>3

LEMMA InvalidateTyped ==
  ASSUME TypeOK, InvalidateRules
  PROVE  /\ list' = [list EXCEPT !.stale = TRUE]
         /\ list' \in [rules : (SUBSET Entry) \cup {None}, dir : Dirs \cup {None},
                      stale : BOOLEAN, failed : BOOLEAN]
         /\ list'.rules = list.rules /\ list'.failed = list.failed /\ list'.stale
         /\ scan' \in [Kinds -> {Idle, [pc |-> "called"]}
                \cup [pc : {"reading"}, dir : Dirs, todo : SUBSET Names,
                      user : SUBSET Rule, calm : SUBSET Names]]
         /\ missed' \in BOOLEAN
<1>1. missed' \in BOOLEAN
  BY DEF InvalidateRules
<1>2. list' = [list EXCEPT !.stale = TRUE]
  BY DEF InvalidateRules
<1>3. CASE visible /\ ~KeepsRequest
  <2>1. scan' = Asked
    BY <1>3 DEF InvalidateRules
  <2> QED
    BY <1>1, <1>2, <2>1 DEF TypeOK, Asked, Kinds
<1>4. CASE ~(visible /\ ~KeepsRequest)
  <2>1. scan' = scan
    BY <1>4 DEF InvalidateRules
  <2> QED
    BY <1>1, <1>2, <2>1 DEF TypeOK
<1> QED
  BY <1>3, <1>4

LEMMA InitTyped == Init => TypeOK
<1> SUFFICES ASSUME Init PROVE TypeOK
  OBVIOUS
<1>1. files \in [Dirs -> [Names -> Texts \cup {NoFile}]]
  BY FilesAssumption DEF Init
<1>2. settings \in Settings /\ last \in Settings
  BY FilesAssumption DEF Init, Unset, Settings
<1>3. list \in [rules : (SUBSET Entry) \cup {None}, dir : Dirs \cup {None},
               stale : BOOLEAN, failed : BOOLEAN]
  <2>1. list = NoList
    BY DEF Init
  <2>2. NoList \in [rules : (SUBSET Entry) \cup {None}, dir : Dirs \cup {None},
                   stale : BOOLEAN, failed : BOOLEAN]
    BY DEF NoList
  <2> QED
    BY <2>1, <2>2
<1>4. /\ shown \in Dirs \cup {None}
      /\ visible \in BOOLEAN /\ dirAsked \in BOOLEAN
      /\ overlapped \in BOOLEAN /\ missed \in BOOLEAN
      /\ acts \in Nat /\ moves \in Nat
  BY DEF Init
<1> QED
  BY <1>1, <1>2, <1>3, <1>4 DEF Init, TypeOK

LEMMA NextTyped == TypeOK /\ [Next]_vars => TypeOK'
<1> SUFFICES ASSUME TypeOK, [Next]_vars PROVE TypeOK'
  OBVIOUS
<1> USE FilesAssumption
    DEF TypeOK, Idle, disk, cmds, panel, history, counts
<1>1. ASSUME Show PROVE TypeOK'
  <2>1. scan' \in {scan, Asked} /\ UNCHANGED <<disk, cmds, list, shown, history, acts>>
    BY <1>1 DEF Show
  <2>2. visible' \in BOOLEAN /\ dirAsked' \in BOOLEAN /\ moves' \in Nat
    BY <1>1 DEF Show
  <2> QED
    BY <2>1, <2>2 DEF Asked, Kinds
<1>2. ASSUME Hide PROVE TypeOK'
  <2>1. visible' \in BOOLEAN /\ dirAsked' \in BOOLEAN
    BY <1>2 DEF Hide
  <2> QED
    BY <1>2, <2>1 DEF Hide
<1>3. ASSUME Refresh PROVE TypeOK'
  BY <1>3, InvalidateTyped DEF Refresh
<1>4. ASSUME DirAnswers PROVE TypeOK'
  <2>1. \A s \in Load(settings) : s.dir \in Dirs
    BY DEF Load, Settings
  <2>2. shown' \in Dirs \cup {None}
    BY <1>4, <2>1 DEF DirAnswers
  <2>3. dirAsked' \in BOOLEAN
    BY <1>4 DEF DirAnswers
  <2> QED
    BY <1>4, <2>2, <2>3 DEF DirAnswers
<1>5. ASSUME NEW k \in Kinds, ScanBegins(k) PROVE TypeOK'
  BY <1>5 DEF ScanBegins, Load, Settings
<1>6. ASSUME NEW k \in Kinds, ScanReads(k) PROVE TypeOK'
  <2>1. scan[k] \in [pc : {"reading"}, dir : Dirs, todo : SUBSET Names,
                     user : SUBSET Rule, calm : SUBSET Names]
    BY <1>6 DEF ScanReads
  <2>2. PICK n \in scan[k].todo :
          scan' = [scan EXCEPT ![k].user = @ \cup Parsed(n, files[scan[k].dir][n]),
                               ![k].todo = @ \ {n}]
    BY <1>6 DEF ScanReads
  <2>3. Parsed(n, files[scan[k].dir][n]) \subseteq Rule
    BY <2>1 DEF Parsed, Rule
  <2>4. scan'[k] \in [pc : {"reading"}, dir : Dirs, todo : SUBSET Names,
                      user : SUBSET Rule, calm : SUBSET Names]
    BY <2>1, <2>2, <2>3
  <2>5. /\ \A j \in Kinds : j # k => scan'[j] = scan[j]
        /\ scan' = [j \in Kinds |-> scan'[j]]
    BY <2>2
  <2>6. scan' \in [Kinds -> {Idle, [pc |-> "called"]}
                \cup [pc : {"reading"}, dir : Dirs, todo : SUBSET Names,
                      user : SUBSET Rule, calm : SUBSET Names]]
    BY <2>4, <2>5
  <2>7. UNCHANGED <<disk, cmds, panel, history, counts>>
    BY <1>6 DEF ScanReads
  <2> QED
    BY <2>6, <2>7
<1>7. ASSUME CatalogFails PROVE TypeOK'
  BY <1>7, ZenonT(30) DEF CatalogFails, Kinds
<1>8. ASSUME CatalogLands PROVE TypeOK'
  BY <1>8 DEF CatalogLands, Combined, Rule, Entry, Ids, Kinds
<1>9. ASSUME Hunt PROVE TypeOK'
  BY <1>9 DEF Hunt, Kinds
<1>10. ASSUME HuntFails PROVE TypeOK'
  BY <1>10 DEF HuntFails, Kinds
<1>11. ASSUME HuntLands PROVE TypeOK'
  BY <1>11 DEF HuntLands, Asked, Kinds
<1>12. ASSUME NEW o \in Ops, NEW n \in Names, Delete(o, n) PROVE TypeOK'
  BY <1>12 DEF Delete
<1>13. ASSUME NEW o \in Ops, NEW n \in Names, NEW t \in Texts, Save(o, n, t) PROVE TypeOK'
  BY <1>13 DEF Save, Texts
<1>14. ASSUME NEW o \in Ops, OpResolves(o) PROVE TypeOK'
  BY <1>14 DEF OpResolves, Load, Settings
<1>15. ASSUME NEW o \in Ops, OpWrites(o) PROVE TypeOK'
  <2>1. op[o] \in [pc : {"resolved", "done"}, name : Names,
                   text : Texts \cup {NoFile}, dir : Dirs]
    BY <1>15 DEF OpWrites
  <2>2. files' \in [Dirs -> [Names -> Texts \cup {NoFile}]] /\ op' = [op EXCEPT ![o].pc = "done"]
    BY <1>15, <2>1 DEF OpWrites
  <2>3. scan' = Unsettle(op[o].dir, op[o].name)
    BY <1>15 DEF OpWrites
  <2>4. scan' \in [Kinds -> {Idle, [pc |-> "called"]}
                \cup [pc : {"reading"}, dir : Dirs, todo : SUBSET Names,
                      user : SUBSET Rule, calm : SUBSET Names]]
    BY <2>1, <2>3, UnsettleTyped
  <2>5. op' \in [Ops -> {Idle}
                \cup [pc : {"called"}, name : Names, text : Texts \cup {NoFile}]
                \cup [pc : {"resolved", "done"}, name : Names,
                      text : Texts \cup {NoFile}, dir : Dirs]]
    BY <2>1, <2>2
  <2> QED
    BY <1>15, <2>2, <2>4, <2>5 DEF OpWrites
<1>16. ASSUME NEW o \in Ops, OpFails(o) PROVE TypeOK'
  BY <1>16 DEF OpFails
<1>17. ASSUME NEW o \in Ops, OpReturns(o) PROVE TypeOK'
  <2>1. dirAsked' \in BOOLEAN
    BY <1>17 DEF OpReturns
  <2> QED
    BY <1>17, <2>1, InvalidateTyped DEF OpReturns
<1>18. ASSUME NEW d \in Dirs, ChooseDir(d) PROVE TypeOK'
  BY <1>18 DEF ChooseDir
<1>19. ASSUME SetDirLoads PROVE TypeOK'
  BY <1>19 DEF SetDirLoads, Load, Settings
<1>20. ASSUME SetDirSaves PROVE TypeOK'
  BY <1>20 DEF SetDirSaves, Settings
<1>21. ASSUME SetDirFails PROVE TypeOK'
  BY <1>21 DEF SetDirFails
<1>22. ASSUME SetDirReturns PROVE TypeOK'
  BY <1>22 DEF SetDirReturns
<1>23. ASSUME NEW l \in Sections, CommitLlm(l) PROVE TypeOK'
  BY <1>23 DEF CommitLlm
<1>24. ASSUME SetLlmLoads PROVE TypeOK'
  BY <1>24 DEF SetLlmLoads, Load, Settings
<1>25. ASSUME SetLlmSaves PROVE TypeOK'
  BY <1>25 DEF SetLlmSaves, Settings
<1>26. ASSUME SetLlmFails PROVE TypeOK'
  BY <1>26 DEF SetLlmFails
<1>27. ASSUME NEW d \in Dirs, NEW n \in Names, NEW t \in Texts \cup {NoFile},
             EditFile(d, n, t) PROVE TypeOK'
  BY <1>27, UnsettleTyped DEF EditFile
<1>28. ASSUME NEW s \in Settings \cup {Garbage}, EditSettings(s) PROVE TypeOK'
  BY <1>28 DEF EditSettings, Settings
<1>29. CASE UNCHANGED vars
  BY <1>29 DEF vars
<1> QED
  BY <1>1, <1>2, <1>3, <1>4, <1>5, <1>6, <1>7, <1>8, <1>9, <1>10, <1>11, <1>12, <1>13, <1>14, <1>15, <1>16, <1>17, <1>18, <1>19, <1>20, <1>21, <1>22, <1>23, <1>24, <1>25, <1>26, <1>27, <1>28, <1>29 DEF Next, Settings
-----------------------------------------------------------------------------
LEMMA InitUncrossed == Init => Uncrossed
BY DEF Init, Uncrossed, Idle

LEMMA NextUncrossed == TypeOK /\ Uncrossed /\ [Next]_vars => Uncrossed'
<1> SUFFICES ASSUME TypeOK, Uncrossed, [Next]_vars PROVE Uncrossed'
  OBVIOUS
<1> USE DEF Uncrossed, TypeOK, Settings, Idle
<1>1. CASE SetDirLoads
  BY <1>1 DEF SetDirLoads, Load, disk, history
<1>2. CASE SetDirSaves
  <2>1. CASE ~overlapped'
    <3>1. /\ ~overlapped /\ setLlm.pc # "loaded" /\ setDir.pc = "loaded"
          /\ settings' = setDir.s /\ setDir' = [pc |-> "saved"] /\ setLlm' = setLlm
          /\ last' = IF last = Garbage THEN last ELSE [last EXCEPT !.dir = setDir.s.dir]
      BY <1>2, <2>1 DEF SetDirSaves
    <3>2. settings \in Settings /\ last = settings /\ last # Garbage
          /\ setDir.s \in Settings /\ setDir.s.llm = settings.llm
      BY <3>1
    <3>3. last' = setDir.s
      BY <3>1, <3>2
    <3> QED
      BY <3>1, <3>3
  <2> QED
    BY <2>1
<1>3. CASE SetDirFails \/ SetDirReturns
  BY <1>3 DEF SetDirFails, SetDirReturns, disk, history
<1>4. CASE \E d \in Dirs : ChooseDir(d)
  BY <1>4 DEF ChooseDir, disk, history
<1>5. CASE SetLlmLoads
  BY <1>5 DEF SetLlmLoads, Load, disk, history
<1>6. CASE SetLlmSaves
  <2>1. CASE ~overlapped'
    <3>1. /\ ~overlapped /\ setDir.pc # "loaded" /\ setLlm.pc = "loaded"
          /\ settings' = setLlm.s /\ setLlm' = Idle /\ setDir' = setDir
          /\ last' = IF last = Garbage THEN last ELSE [last EXCEPT !.llm = setLlm.s.llm]
      BY <1>6, <2>1 DEF SetLlmSaves
    <3>2. settings \in Settings /\ last = settings /\ last # Garbage
          /\ setLlm.s \in Settings /\ setLlm.s.dir = settings.dir
      BY <3>1
    <3>3. last' = setLlm.s
      BY <3>1, <3>2
    <3> QED
      BY <3>1, <3>3
  <2> QED
    BY <2>1
<1>7. CASE SetLlmFails \/ \E l \in Sections : CommitLlm(l)
  BY <1>7 DEF SetLlmFails, CommitLlm, disk, history
<1>8. CASE \E s \in [dir : Dirs, llm : Sections] \cup {Garbage} : EditSettings(s)
  BY <1>8 DEF EditSettings, cmds
<1>9. CASE UNCHANGED <<settings, setDir, setLlm, last, overlapped>>
  BY <1>9
<1>10. ASSUME \/ Show \/ Hide \/ Refresh \/ DirAnswers
              \/ \E k \in Kinds : ScanBegins(k) \/ ScanReads(k)
              \/ CatalogFails \/ CatalogLands \/ Hunt \/ HuntFails \/ HuntLands
       PROVE  UNCHANGED <<settings, setDir, setLlm, last, overlapped>>
  BY <1>10 DEF Show, Hide, Refresh, DirAnswers, ScanBegins, ScanReads, CatalogFails,
     CatalogLands, Hunt, HuntFails, HuntLands, disk, cmds, history
<1>11. ASSUME \/ \E o \in Ops, n \in Names : Delete(o, n) \/ \E t \in Texts : Save(o, n, t)
              \/ \E o \in Ops : OpResolves(o) \/ OpWrites(o) \/ OpFails(o) \/ OpReturns(o)
              \/ \E d \in Dirs, n \in Names, t \in Texts \cup {NoFile} : EditFile(d, n, t)
              \/ UNCHANGED vars
       PROVE  UNCHANGED <<settings, setDir, setLlm, last, overlapped>>
  BY <1>11 DEF Delete, Save, OpResolves, OpWrites, OpFails, OpReturns, EditFile, vars,
     disk, cmds, history
<1> QED
  BY <1>1, <1>2, <1>3, <1>4, <1>5, <1>6, <1>7, <1>8, <1>9, <1>10, <1>11 DEF Next

-----------------------------------------------------------------------------
(* What load_combined_rules makes of the rules of the files.               *)
LEMMA CombinedRight ==
  ASSUME NEW user, user \subseteq Rule
  PROVE  /\ user \subseteq Combined(user)
         /\ \A b \in Builtins :
              LET from == {r.source : r \in {q \in Combined(user) : q.id = b}}
              IN  from # {} /\ ("builtin" \in from => from = {"builtin"})
<1>1. user \subseteq Combined(user)
  BY DEF Combined
<1>2. ASSUME NEW b \in Builtins
      PROVE  LET from == {r.source : r \in {q \in Combined(user) : q.id = b}}
             IN  from # {} /\ ("builtin" \in from => from = {"builtin"})
  <2> DEFINE from == {r.source : r \in {q \in Combined(user) : q.id = b}}
             own  == [source |-> "builtin", id |-> b]
  <2>1. CASE \E r \in user : r.id = b
    <3>1. from # {}
      BY <1>1, <2>1
    <3>2. \A q \in Combined(user) : q.id = b => q.source # "builtin"
      BY <2>1, FilesAssumption DEF Combined, Rule
    <3> QED
      BY <3>1, <3>2
  <2>2. CASE ~ \E r \in user : r.id = b
    <3>1. own \in Combined(user) /\ own.id = b /\ own.source = "builtin"
      BY <2>2 DEF Combined
    <3>2. \A q \in Combined(user) : q.id = b => q.source = "builtin"
      BY <2>2 DEF Combined
    <3> QED
      BY <3>1, <3>2
  <2> QED
    BY <2>1, <2>2
<1> QED
  BY <1>1, <1>2

LEMMA InitHunt == Init => HuntTrue /\ HuntRunsTheFiles
BY DEF Init, HuntTrue, HuntRunsTheFiles, Idle, Kinds

LEMMA NextHunt ==
  TypeOK /\ HuntTrue /\ HuntRunsTheFiles /\ [Next]_vars => HuntTrue' /\ HuntRunsTheFiles'
<1> SUFFICES ASSUME TypeOK, HuntTrue, HuntRunsTheFiles, [Next]_vars
             PROVE  HuntTrue' /\ HuntRunsTheFiles'
  OBVIOUS
<1>0. ASSUME UNCHANGED ran PROVE HuntRunsTheFiles'
  BY <1>0 DEF HuntRunsTheFiles
<1>1. ASSUME UNCHANGED <<files, ran>>, scan'["hunt"] = scan["hunt"]
      PROVE  HuntTrue' /\ HuntRunsTheFiles'
  BY <1>0, <1>1 DEF HuntTrue
<1>2. ASSUME NEW k \in Kinds, ScanBegins(k) PROVE HuntTrue' /\ HuntRunsTheFiles'
  <2>1. CASE k = "hunt"
    <3>1. UNCHANGED ran
      BY <1>2 DEF ScanBegins
    <3>2. scan'["hunt"].calm = scan'["hunt"].todo
      BY <1>2, <2>1 DEF ScanBegins, TypeOK, Kinds
    <3> QED
      BY <1>0, <3>1, <3>2 DEF HuntTrue
  <2>2. CASE k # "hunt"
    BY <1>1, <1>2, <2>2 DEF ScanBegins, TypeOK, Kinds, disk
  <2> QED
    BY <2>1, <2>2
<1>3. ASSUME NEW k \in Kinds, ScanReads(k) PROVE HuntTrue' /\ HuntRunsTheFiles'
  <2>1. CASE k = "hunt"
    <3>1. UNCHANGED <<files, ran>> /\ scan["hunt"].pc = "reading"
      BY <1>3, <2>1 DEF ScanReads, disk, history
    <3>2. PICK n \in scan["hunt"].todo :
            scan' = [scan EXCEPT !["hunt"].user = @ \cup Parsed(n, files[scan["hunt"].dir][n]),
                                 !["hunt"].todo = @ \ {n}]
      BY <1>3, <2>1 DEF ScanReads
    <3>3. scan["hunt"] \in [pc : {"reading"}, dir : Dirs, todo : SUBSET Names,
                            user : SUBSET Rule, calm : SUBSET Names]
      BY <3>1 DEF TypeOK, Idle, Kinds
    <3>4. /\ scan'["hunt"].dir = scan["hunt"].dir /\ scan'["hunt"].calm = scan["hunt"].calm
          /\ scan'["hunt"].todo = scan["hunt"].todo \ {n}
          /\ scan'["hunt"].user
               = scan["hunt"].user \cup Parsed(n, files[scan["hunt"].dir][n])
      BY <3>2, <3>3 DEF TypeOK, Kinds
    <3>5. \A m \in scan["hunt"].calm \ scan["hunt"].todo :
            Parsed(m, files[scan["hunt"].dir][m]) \subseteq scan["hunt"].user
      BY <3>1 DEF HuntTrue
    <3>6. \A m \in scan'["hunt"].calm \ scan'["hunt"].todo :
            Parsed(m, files[scan["hunt"].dir][m]) \subseteq scan'["hunt"].user
      BY <3>4, <3>5
    <3> QED
      BY <1>0, <3>1, <3>4, <3>6 DEF HuntTrue, Parsed
  <2>2. CASE k # "hunt"
    BY <1>1, <1>3, <2>2 DEF ScanReads, TypeOK, Kinds, disk, history
  <2> QED
    BY <2>1, <2>2
<1>4. ASSUME NEW d \in Dirs, NEW n \in Names, scan' = Unsettle(d, n), UNCHANGED ran,
             \A c \in Dirs, m \in Names : <<c, m>> # <<d, n>> => files'[c][m] = files[c][m]
      PROVE  HuntTrue' /\ HuntRunsTheFiles'
  <2>1. CASE scan["hunt"].pc = "reading"
    <3>1. scan["hunt"] \in [pc : {"reading"}, dir : Dirs, todo : SUBSET Names,
                            user : SUBSET Rule, calm : SUBSET Names]
      BY <2>1 DEF TypeOK, Idle, Kinds
    <3>2. /\ scan'["hunt"].dir = scan["hunt"].dir /\ scan'["hunt"].todo = scan["hunt"].todo
          /\ scan'["hunt"].user = scan["hunt"].user
          /\ scan'["hunt"].calm = IF scan["hunt"].dir = d THEN scan["hunt"].calm \ {n}
                                  ELSE scan["hunt"].calm
      BY <1>4, <2>1, UnsettleTyped DEF Kinds
    <3>3. ASSUME NEW m \in scan'["hunt"].calm \ scan'["hunt"].todo
          PROVE  /\ m \in scan["hunt"].calm \ scan["hunt"].todo
                 /\ files'[scan["hunt"].dir][m] = files[scan["hunt"].dir][m]
      BY <1>4, <3>1, <3>2, <3>3
    <3> QED
      BY <1>0, <1>4, <2>1, <3>2, <3>3 DEF HuntTrue
  <2>2. CASE scan["hunt"].pc # "reading"
    <3>1. scan'["hunt"].pc # "reading"
      BY <1>4, <2>2, UnsettleTyped DEF Kinds
    <3> QED
      BY <1>0, <1>4, <3>1 DEF HuntTrue
  <2> QED
    BY <2>1, <2>2
<1>5. ASSUME NEW o \in Ops, OpWrites(o) PROVE HuntTrue' /\ HuntRunsTheFiles'
  <2>1. op[o].dir \in Dirs /\ op[o].name \in Names
    BY <1>5 DEF OpWrites, TypeOK, Idle
  <2> QED
    BY <1>4, <1>5, <2>1 DEF OpWrites, TypeOK, history
<1>6. ASSUME NEW d \in Dirs, NEW n \in Names, NEW t \in Texts \cup {NoFile},
             EditFile(d, n, t) PROVE HuntTrue' /\ HuntRunsTheFiles'
  BY <1>4, <1>6 DEF EditFile, TypeOK
<1>7. CASE Hunt \/ HuntFails
  <2>1. scan'["hunt"].pc # "reading" /\ UNCHANGED ran
    BY <1>7 DEF Hunt, HuntFails, TypeOK, Kinds, Idle, history
  <2> QED
    BY <1>0, <2>1 DEF HuntTrue
<1>8. CASE HuntLands
  <2> DEFINE s == scan["hunt"]
  <2>1. s.pc = "reading" /\ s.todo = {} /\ s.user \subseteq Rule /\ s.calm \subseteq Names
    BY <1>8 DEF HuntLands, TypeOK, Idle, Kinds
  <2>2. scan'["hunt"].pc # "reading"
    BY <1>8 DEF HuntLands, Asked, TypeOK, Idle, Kinds
  <2>3. ran' = [rules |-> Combined(s.user),
                calm  |-> UNION {Parsed(n, files[s.dir][n]) : n \in s.calm}]
    BY <1>8 DEF HuntLands
  <2>4. \A n \in s.calm : Parsed(n, files[s.dir][n]) \subseteq s.user
    BY <2>1 DEF HuntTrue
  <2>5. ran'.rules = Combined(s.user) /\ ran'.calm \subseteq s.user
    BY <2>3, <2>4
  <2>6. HuntRunsTheFiles'
    BY <2>1, <2>5, CombinedRight DEF HuntRunsTheFiles
  <2> QED
    BY <2>2, <2>6 DEF HuntTrue
<1>9. CASE InvalidateRules /\ UNCHANGED <<files, ran>>
  BY <1>1, <1>9 DEF InvalidateRules, Asked, TypeOK, Kinds
<1>10. CASE Show \/ CatalogFails \/ CatalogLands
  BY <1>1, <1>10 DEF Show, CatalogFails, CatalogLands, Asked, TypeOK, Kinds, disk, history
<1>11. CASE Refresh \/ \E o \in Ops : OpReturns(o)
  BY <1>9, <1>11 DEF Refresh, OpReturns, disk, history
<1>12. ASSUME \/ Hide \/ DirAnswers
              \/ \E o \in Ops, n \in Names : Delete(o, n) \/ \E t \in Texts : Save(o, n, t)
              \/ \E o \in Ops : OpResolves(o) \/ OpFails(o)
              \/ \E d \in Dirs : ChooseDir(d)
              \/ SetDirLoads \/ SetDirSaves \/ SetDirFails \/ SetDirReturns
              \/ \E l \in Sections : CommitLlm(l)
              \/ SetLlmLoads \/ SetLlmSaves \/ SetLlmFails
              \/ \E s \in [dir : Dirs, llm : Sections] \cup {Garbage} : EditSettings(s)
              \/ UNCHANGED vars
       PROVE  UNCHANGED <<files, ran, scan>>
  BY <1>12 DEF Hide, DirAnswers, Delete, Save, OpResolves, OpFails, ChooseDir, SetDirLoads,
     SetDirSaves, SetDirFails, SetDirReturns, CommitLlm, SetLlmLoads, SetLlmSaves,
     SetLlmFails, EditSettings, vars, disk, history
<1> QED
  BY <1>1, <1>2, <1>3, <1>5, <1>6, <1>7, <1>8, <1>10, <1>11, <1>12 DEF Next

-----------------------------------------------------------------------------
LEMMA InitCatalog == Init => CatInv
<1> SUFFICES ASSUME Init PROVE CatInv
  OBVIOUS
<1>1. settings # Garbage
  BY FilesAssumption DEF Init, Unset
<1>2. scan["catalog"].pc = "idle" /\ list.rules = None /\ ~visible
  BY DEF Init, Idle, NoList, Kinds
<1> QED
  BY <1>1, <1>2 DEF CatInv, ScanTrue, ListTrue, MarkedAsked, SettingsParse, ReadOnce

(* Nothing that the catalogue depends on changes.                          *)
LEMMA CatalogKept ==
  ASSUME TypeOK, CatInv, UNCHANGED <<files, list, visible, missed>>,
         scan'["catalog"] = scan["catalog"],
         \A d \in Dirs, n \in Names : Pending(op, d, n) => Pending(op', d, n),
         ~missed => settings'.dir = settings.dir /\ settings' # Garbage
  PROVE  CatInv'
<1>1. ScanTrue'
  <2> SUFFICES ASSUME scan["catalog"].pc = "reading", ~missed
               PROVE  LET c == scan["catalog"]
                      IN  /\ c.dir = settings'.dir
                          /\ \A n \in Names \ c.todo :
                               Pending(op', c.dir, n) \/ Sees(c.user, files[c.dir][n], n)
    BY DEF ScanTrue
  <2>1. scan["catalog"].dir \in Dirs
    BY DEF TypeOK, Idle, Kinds
  <2> QED
    BY <2>1 DEF CatInv, ScanTrue
<1>2. ListTrue'
  <2> SUFFICES ASSUME scan["catalog"].pc = "idle", ~missed, list.rules # None, ~list.stale,
                      ~list.failed
               PROVE  \E user \in SUBSET Rule :
                        /\ list.rules = Combined(user)
                        /\ \A n \in Names : \/ Pending(op', settings'.dir, n)
                                          \/ Sees(user, files[settings'.dir][n], n)
    BY DEF ListTrue
  <2>1. settings.dir \in Dirs /\ settings'.dir = settings.dir
    BY DEF CatInv, SettingsParse, TypeOK, Settings
  <2>2. PICK user \in SUBSET Rule :
          /\ list.rules = Combined(user)
          /\ \A n \in Names : \/ Pending(op, settings.dir, n)
                            \/ Sees(user, files[settings.dir][n], n)
    BY DEF CatInv, ListTrue
  <2> QED
    BY <2>1, <2>2
<1>3. MarkedAsked' /\ SettingsParse' /\ ReadOnce'
  BY DEF CatInv, MarkedAsked, SettingsParse, ReadOnce
<1> QED
  BY <1>1, <1>2, <1>3 DEF CatInv

(* The list misses a change. *)
LEMMA CatalogMissed ==
  ASSUME CatInv, missed', UNCHANGED <<list, visible>>,
         scan'["catalog"].pc = scan["catalog"].pc,
         scan["catalog"].pc = "reading" => /\ scan'["catalog"].user = scan["catalog"].user
                                           /\ scan'["catalog"].todo = scan["catalog"].todo
  PROVE  CatInv'
BY DEF CatInv, ScanTrue, ListTrue, MarkedAsked, SettingsParse, ReadOnce

(* The list is marked. *)
LEMMA CatalogTold ==
  ASSUME TypeOK, CatInv, UNCHANGED <<settings, visible>>, list'.stale,
         list'.failed = list.failed,
         KeepsRequest => scan'["catalog"] = scan["catalog"] /\ missed',
         ~KeepsRequest => missed' = missed,
         visible /\ ~KeepsRequest => scan'["catalog"].pc = "called",
         ~visible => scan'["catalog"] = scan["catalog"]
  PROVE  CatInv'
<1>1. CASE KeepsRequest
  <2>1. scan'["catalog"].pc # "idle" /\ scan'["catalog"] = scan["catalog"] /\ missed'
    BY <1>1 DEF KeepsRequest, TypeOK, Idle, Kinds
  <2> QED
    BY <2>1 DEF CatInv, ScanTrue, ListTrue, MarkedAsked, SettingsParse, ReadOnce
<1>2. CASE ~KeepsRequest /\ visible
  BY <1>2 DEF CatInv, ScanTrue, ListTrue, MarkedAsked, SettingsParse, ReadOnce
<1>3. CASE ~KeepsRequest /\ ~visible
  <2>1. scan'["catalog"].pc # "reading"
    BY <1>3 DEF KeepsRequest, Idle
  <2> QED
    BY <1>3, <2>1 DEF CatInv, ScanTrue, ListTrue, MarkedAsked, SettingsParse, ReadOnce
<1> QED
  BY <1>1, <1>2, <1>3

LEMMA NextCatalog == TypeOK /\ CatInv /\ [Next]_vars => CatInv'
<1> SUFFICES ASSUME TypeOK, CatInv, [Next]_vars PROVE CatInv'
  OBVIOUS
<1>1. CASE Show
  <2>1. /\ UNCHANGED <<settings, files, op, list, missed>>
        /\ scan' = IF scan["catalog"] = Idle /\ (list.rules = None \/ list.stale)
                   THEN Asked ELSE scan
    BY <1>1 DEF Show, disk, cmds, history
  <2>2. CASE scan' = Asked
    <3>1. scan'["catalog"].pc = "called"
      BY <2>2 DEF Asked, TypeOK, Kinds
    <3> QED
      BY <2>1, <3>1 DEF CatInv, ScanTrue, ListTrue, MarkedAsked, SettingsParse, ReadOnce
  <2>3. CASE scan' = scan /\ ~(scan["catalog"] = Idle /\ list.stale)
    <3>1. scan["catalog"].pc = "idle" => scan["catalog"] = Idle
      BY DEF TypeOK, Kinds
    <3> QED
      BY <2>1, <2>3, <3>1 DEF CatInv, ScanTrue, ListTrue, MarkedAsked, SettingsParse, ReadOnce
  <2> QED
    BY <2>1, <2>2, <2>3
<1>2. CASE Hide
  BY <1>2 DEF Hide, disk, cmds, history, CatInv, ScanTrue, ListTrue, MarkedAsked,
     SettingsParse, ReadOnce
<1>3. ASSUME InvalidateRules, UNCHANGED <<settings, visible>> PROVE CatInv'
  <2>1. visible /\ ~KeepsRequest => scan'["catalog"].pc = "called"
    BY <1>3 DEF InvalidateRules, Asked, TypeOK, Kinds
  <2>2. KeepsRequest \/ ~visible => scan'["catalog"] = scan["catalog"]
    BY <1>3 DEF InvalidateRules
  <2>3. (KeepsRequest => missed') /\ (~KeepsRequest => missed' = missed)
    BY <1>3 DEF InvalidateRules, TypeOK
  <2> QED
    BY <1>3, <2>1, <2>2, <2>3, InvalidateTyped, CatalogTold
<1>4. CASE Refresh \/ \E o \in Ops : OpReturns(o)
  BY <1>3, <1>4 DEF Refresh, OpReturns, disk
<1>5. ASSUME NEW k \in Kinds, ScanBegins(k) PROVE CatInv'
  <2>1. CASE k = "catalog"
    <3>1. PICK s \in Load(settings) :
            scan' = [scan EXCEPT !["catalog"] = [pc |-> "reading", dir |-> s.dir,
                       todo |-> Names, user |-> {}, calm |-> Names]]
      BY <1>5, <2>1 DEF ScanBegins
    <3>2. s = settings /\ settings # Garbage
      BY <3>1 DEF Load
    <3>3. /\ scan'["catalog"].pc = "reading" /\ scan'["catalog"].dir = settings.dir
          /\ scan'["catalog"].todo = Names /\ scan'["catalog"].user = {}
      BY <3>1, <3>2 DEF TypeOK, Kinds
    <3> QED
      BY <1>5, <3>2, <3>3
         DEF ScanBegins, disk, CatInv, ScanTrue, ListTrue, MarkedAsked, SettingsParse, ReadOnce
  <2>2. CASE k # "catalog"
    <3>1. /\ UNCHANGED <<settings, files, op, list, visible, missed>>
          /\ scan'["catalog"] = scan["catalog"]
      BY <1>5, <2>2 DEF ScanBegins, TypeOK, Kinds, disk, cmds, panel
    <3> QED
      BY <3>1, CatalogKept DEF CatInv, SettingsParse
  <2> QED
    BY <2>1, <2>2
<1>6. ASSUME NEW k \in Kinds, ScanReads(k) PROVE CatInv'
  <2>0. UNCHANGED <<settings, files, op, list, visible, missed>>
    BY <1>6 DEF ScanReads, disk, cmds, panel, history
  <2>1. CASE k = "catalog"
    <3> DEFINE c == scan["catalog"]
    <3>1. c.pc = "reading"
      BY <1>6, <2>1 DEF ScanReads
    <3>2. c \in [pc : {"reading"}, dir : Dirs, todo : SUBSET Names,
                 user : SUBSET Rule, calm : SUBSET Names]
      BY <3>1 DEF TypeOK, Idle, Kinds
    <3>3. PICK m \in c.todo :
            scan' = [scan EXCEPT !["catalog"].user = @ \cup Parsed(m, files[c.dir][m]),
                                 !["catalog"].todo = @ \ {m}]
      BY <1>6, <2>1 DEF ScanReads
    <3>4. /\ scan'["catalog"].pc = "reading" /\ scan'["catalog"].dir = c.dir
          /\ scan'["catalog"].todo = c.todo \ {m}
          /\ scan'["catalog"].user = c.user \cup Parsed(m, files[c.dir][m])
      BY <3>1, <3>2, <3>3 DEF TypeOK, Kinds
    <3>5. \A r \in Parsed(m, files[c.dir][m]) : r.source = m
      BY DEF Parsed
    <3>6. \A r \in c.user : r.source # m
      BY <3>1 DEF CatInv, ReadOnce
    <3>7. {r \in scan'["catalog"].user : r.source = m} = Parsed(m, files[c.dir][m])
      BY <3>4, <3>5, <3>6
    <3>8. \A n \in Names : n # m =>
            {r \in scan'["catalog"].user : r.source = n} = {r \in c.user : r.source = n}
      BY <3>4, <3>5
    <3>9. ReadOnce'
      BY <3>1, <3>4, <3>5 DEF CatInv, ReadOnce
    <3>10. ScanTrue'
      <4>1. ASSUME ~missed, NEW n \in Names \ (c.todo \ {m})
            PROVE  \/ Pending(op, c.dir, n)
                   \/ Sees(scan'["catalog"].user, files[c.dir][n], n)
        <5>1. n \notin c.todo => Pending(op, c.dir, n) \/ Sees(c.user, files[c.dir][n], n)
          BY <3>1, <4>1 DEF CatInv, ScanTrue
        <5> QED
          BY <3>7, <3>8, <4>1, <5>1 DEF Sees
      <4>2. ~missed => c.dir = settings.dir
        BY <3>1 DEF CatInv, ScanTrue
      <4> QED
        BY <2>0, <3>4, <4>1, <4>2 DEF ScanTrue
    <3> QED
      BY <2>0, <3>4, <3>9, <3>10 DEF CatInv, ListTrue, MarkedAsked, SettingsParse
  <2>2. CASE k # "catalog"
    <3>1. scan'["catalog"] = scan["catalog"]
      BY <1>6, <2>2 DEF ScanReads, TypeOK, Kinds
    <3> QED
      BY <2>0, <3>1, CatalogKept DEF CatInv, SettingsParse
  <2> QED
    BY <2>1, <2>2
<1>7. CASE CatalogFails
  <2>1. scan'["catalog"].pc = "idle" /\ list'.failed
    BY <1>7 DEF CatalogFails, TypeOK, Kinds, Idle
  <2> QED
    BY <1>7, <2>1 DEF CatalogFails, disk, cmds, history, CatInv, ScanTrue, ListTrue,
       MarkedAsked, SettingsParse, ReadOnce
<1>8. CASE CatalogLands
  <2> DEFINE c == scan["catalog"]
  <2>1. /\ c.pc = "reading" /\ c.todo = {} /\ c.user \subseteq Rule
        /\ UNCHANGED <<settings, files, op, visible, missed>>
    BY <1>8 DEF CatalogLands, disk, cmds, history, TypeOK, Idle, Kinds
  <2>2. scan'["catalog"].pc = "idle" /\ list'.rules = Combined(c.user) /\ ~list'.stale
    BY <1>8 DEF CatalogLands, TypeOK, Kinds, Idle
  <2>3. ~missed => /\ c.dir = settings.dir
                   /\ \A n \in Names : Pending(op, c.dir, n) \/ Sees(c.user, files[c.dir][n], n)
    BY <2>1 DEF CatInv, ScanTrue
  <2>4. ListTrue'
    BY <2>1, <2>2, <2>3 DEF ListTrue
  <2> QED
    BY <2>1, <2>2, <2>4 DEF CatInv, ScanTrue, MarkedAsked, SettingsParse, ReadOnce
<1>9. CASE HuntLands
  <2>1. /\ visible /\ ~KeepsRequest => scan'["catalog"].pc = "called"
        /\ KeepsRequest \/ ~visible => scan'["catalog"] = scan["catalog"]
    BY <1>9 DEF HuntLands, Asked, TypeOK, Kinds
  <2>2. UNCHANGED <<settings, visible>> /\ list'.stale /\ list'.failed = list.failed
    BY <1>9 DEF HuntLands, disk, TypeOK
  <2>3. (KeepsRequest => missed') /\ (~KeepsRequest => missed' = missed)
    BY <1>9 DEF HuntLands, TypeOK
  <2> QED
    BY <2>1, <2>2, <2>3, CatalogTold
<1>10. ASSUME NEW o \in Ops, OpWrites(o) PROVE CatInv'
  <2> DEFINE d == op[o].dir
             n == op[o].name
  <2>1. d \in Dirs /\ n \in Names
    BY <1>10 DEF OpWrites, TypeOK, Idle
  <2>2. op'[o].pc = "done" /\ op'[o].dir = d /\ op'[o].name = n
    BY <1>10 DEF OpWrites, TypeOK, Idle
  <2>3. Pending(op', d, n)
    BY <2>2 DEF Pending
  <2>4. \A e \in Dirs, m \in Names : Pending(op, e, m) => Pending(op', e, m)
    BY <1>10 DEF OpWrites, Pending, TypeOK
  <2>5. \A e \in Dirs, m \in Names : files'[e][m] = files[e][m] \/ Pending(op', e, m)
    BY <1>10, <2>1, <2>3 DEF OpWrites, TypeOK
  <2>6. UNCHANGED <<settings, list, visible, missed>> /\ scan' = Unsettle(d, n)
    BY <1>10 DEF OpWrites, panel, history
  <2>7. /\ scan'["catalog"].pc = scan["catalog"].pc
        /\ scan["catalog"].pc = "reading" =>
             /\ scan'["catalog"].dir = scan["catalog"].dir
             /\ scan'["catalog"].todo = scan["catalog"].todo
             /\ scan'["catalog"].user = scan["catalog"].user
    BY <2>1, <2>6, UnsettleTyped DEF Kinds
  <2>8. ScanTrue'
    <3> SUFFICES ASSUME scan["catalog"].pc = "reading", ~missed
                 PROVE  LET c == scan["catalog"]
                        IN  /\ c.dir = settings.dir
                            /\ \A m \in Names \ c.todo :
                                 Pending(op', c.dir, m) \/ Sees(c.user, files'[c.dir][m], m)
      BY <2>6, <2>7 DEF ScanTrue
    <3>1. scan["catalog"].dir \in Dirs
      BY DEF TypeOK, Idle, Kinds
    <3> QED
      BY <2>4, <2>5, <3>1 DEF CatInv, ScanTrue
  <2>9. ListTrue'
    <3> SUFFICES ASSUME scan["catalog"].pc = "idle", ~missed, list.rules # None, ~list.stale,
                        ~list.failed
                 PROVE  \E user \in SUBSET Rule :
                          /\ list.rules = Combined(user)
                          /\ \A m \in Names : \/ Pending(op', settings.dir, m)
                                            \/ Sees(user, files'[settings.dir][m], m)
      BY <2>6, <2>7 DEF ListTrue
    <3>1. settings.dir \in Dirs
      BY DEF CatInv, SettingsParse, TypeOK, Settings
    <3>2. PICK user \in SUBSET Rule :
            /\ list.rules = Combined(user)
            /\ \A m \in Names : \/ Pending(op, settings.dir, m)
                              \/ Sees(user, files[settings.dir][m], m)
      BY DEF CatInv, ListTrue
    <3> QED
      BY <2>4, <2>5, <3>1, <3>2
  <2> QED
    BY <2>6, <2>7, <2>8, <2>9 DEF CatInv, MarkedAsked, SettingsParse, ReadOnce
<1>11. ASSUME NEW d \in Dirs, NEW n \in Names, NEW t \in Texts \cup {NoFile},
              EditFile(d, n, t) PROVE CatInv'
  <2>1. UNCHANGED <<list, visible>> /\ missed' /\ scan' = Unsettle(d, n)
    BY <1>11 DEF EditFile, panel
  <2>2. /\ scan'["catalog"].pc = scan["catalog"].pc
        /\ scan["catalog"].pc = "reading" =>
             /\ scan'["catalog"].todo = scan["catalog"].todo
             /\ scan'["catalog"].user = scan["catalog"].user
    BY <2>1, UnsettleTyped DEF Kinds
  <2> QED
    BY <2>1, <2>2, CatalogMissed
<1>12. ASSUME UNCHANGED <<files, op, list, visible, scan>>,
              missed' = (missed \/ settings = Garbage \/ settings.dir # settings'.dir),
              settings' # Garbage
       PROVE  CatInv'
  <2>1. CASE missed'
    BY <1>12, <2>1, CatalogMissed
  <2>2. CASE ~missed'
    <3>1. missed' = missed /\ settings'.dir = settings.dir
      BY <1>12, <2>2 DEF TypeOK
    <3> QED
      BY <1>12, <3>1, CatalogKept
  <2> QED
    BY <2>1, <2>2
<1>13. CASE SetDirSaves
  <2>1. settings' # Garbage
    BY <1>13, FilesAssumption DEF SetDirSaves, TypeOK, Settings, Idle
  <2> QED
    BY <1>12, <1>13, <2>1 DEF SetDirSaves, panel
<1>14. CASE SetLlmSaves
  <2>1. settings' # Garbage
    BY <1>14, FilesAssumption DEF SetLlmSaves, TypeOK, Settings, Idle
  <2> QED
    BY <1>12, <1>14, <2>1 DEF SetLlmSaves, panel
<1>15. CASE \E s \in [dir : Dirs, llm : Sections] \cup {Garbage} : EditSettings(s)
  BY <1>15, CatalogMissed DEF EditSettings, panel
<1>16. ASSUME UNCHANGED <<settings, files, list, visible, missed>>,
              scan'["catalog"] = scan["catalog"],
              \A d \in Dirs, n \in Names : Pending(op, d, n) => Pending(op', d, n)
       PROVE  CatInv'
  BY <1>16, CatalogKept DEF CatInv, SettingsParse
<1>17. CASE Hunt \/ HuntFails
  BY <1>16, <1>17 DEF Hunt, HuntFails, TypeOK, Kinds, disk, cmds, panel, history
<1>18. ASSUME NEW o \in Ops, op[o].pc # "done", NEW p, op' = [op EXCEPT ![o] = p],
              UNCHANGED <<settings, files, list, visible, missed, scan>>
       PROVE  CatInv'
  BY <1>16, <1>18 DEF Pending, TypeOK
<1>19. CASE \/ \E o \in Ops, n \in Names : Delete(o, n) \/ \E t \in Texts : Save(o, n, t)
            \/ \E o \in Ops : OpFails(o) \/ OpResolves(o)
  BY <1>18, <1>19 DEF Delete, Save, OpResolves, OpFails, Load, Idle, disk, panel, history
<1>20. ASSUME \/ DirAnswers \/ (\E d \in Dirs : ChooseDir(d))
              \/ SetDirLoads \/ SetDirFails \/ SetDirReturns
              \/ (\E l \in Sections : CommitLlm(l)) \/ SetLlmLoads \/ SetLlmFails
              \/ UNCHANGED vars
       PROVE  UNCHANGED <<settings, files, op, list, visible, missed, scan>>
  BY <1>20 DEF DirAnswers, ChooseDir, SetDirLoads, SetDirFails, SetDirReturns, CommitLlm,
     SetLlmLoads, SetLlmFails, vars, disk, cmds, panel, history
<1> QED
  BY <1>1, <1>2, <1>4, <1>5, <1>6, <1>7, <1>8, <1>9, <1>10, <1>11, <1>13, <1>14, <1>15,
     <1>16, <1>17, <1>19, <1>20 DEF Next

-----------------------------------------------------------------------------
LEMMA Inductive == Spec => []IInv
<1>1. Init => IInv
  BY InitTyped, InitUncrossed, InitCatalog, InitHunt DEF IInv
<1>2. IInv /\ [Next]_vars => IInv'
  BY NextTyped, NextUncrossed, NextCatalog, NextHunt DEF IInv
<1> QED
  BY <1>1, <1>2, PTL DEF Spec

(* Every variable keeps its type, through every interleaving of the        *)
(* commands of hunt.rs, llm.rs and settings.rs with each other.            *)
THEOREM FilesTypeCorrect == Spec => []TypeOK
BY Inductive, PTL DEF IInv

(* settings_set_rule_dir and the assistant's commands keep each other's    *)
(* part of settings.json, and never replace one that does not parse, in    *)
(* every history in which no two changes cross.                            *)
THEOREM SectionsAreKept == Spec => []SectionsKept
<1>1. IInv => SectionsKept
  BY DEF IInv, Uncrossed, SectionsKept
<1> QED
  BY <1>1, Inductive, PTL

(* load_combined_rules gives a hunt every rule of a file that no one       *)
(* touched, and the catalogue's rules that no file overrides.              *)
THEOREM HuntsRunTheFiles == Spec => []HuntRunsTheFiles
<1>1. IInv => HuntRunsTheFiles
  BY DEF IInv
<1> QED
  BY <1>1, Inductive, PTL

(* The list on the screen is what the rule directory holds, once the saves *)
(* and deletes of the panel are answered, in whatever order they wrote.    *)
THEOREM CatalogIsCurrent == Spec => []CatalogCurrent
<1>1. IInv => CatalogCurrent
  <2> SUFFICES ASSUME IInv, Settled, ~missed PROVE list.rules = OnDisk(settings.dir)
    BY DEF CatalogCurrent
  <2>1. \A d, n : ~Pending(op, d, n)
    BY DEF Settled, Pending, Idle
  <2>2. scan["catalog"].pc = "idle" /\ list.rules # None /\ ~list.failed /\ ~list.stale
    BY DEF Settled, Idle, IInv, CatInv, MarkedAsked, TypeOK
  <2>3. PICK user \in SUBSET Rule :
          /\ list.rules = Combined(user)
          /\ \A n \in Names : Sees(user, files[settings.dir][n], n)
    BY <2>1, <2>2 DEF IInv, CatInv, ListTrue
  <2>4. user = UNION {Parsed(n, files[settings.dir][n]) : n \in Names}
    <3>1. \A r \in user : r.source \in Names
      BY <2>3 DEF Rule
    <3> QED
      BY <2>3, <3>1 DEF Sees
  <2> QED
    BY <2>3, <2>4 DEF OnDisk
<1> QED
  BY <1>1, Inductive, PTL
=============================================================================
