----------------------------- MODULE RuleFiles -----------------------------
(***************************************************************************)
(* The user's detection rules, one YAML file each: the commands of         *)
(* src-tauri/src/commands/hunt.rs that save, delete and scan them, the     *)
(* loader of detect-engine, settings.json, which says what directory they  *)
(* are in and which the assistant's commands load and save too             *)
(* (settings.rs), and the rule list of the Hunt module with its cache      *)
(* (RulesPanel.tsx, RuleEditorModal.tsx, queries.ts).                      *)
(*                                                                         *)
(* The text of a file is the id of the rule it parses to, or Broken if it  *)
(* does not parse or cannot be read.  A file is replaced in one instant:   *)
(* that is AtomicWrite.                                                    *)
(***************************************************************************)
EXTENDS Naturals

CONSTANTS
  Dirs, Default,    \* rule directories; the one under app-data
  Names, Listed,    \* file names safe_filename accepts; those is_yaml accepts
  Builtins, OwnIds, \* ids of the catalogue's rules; other ids
  Sections, Off,    \* what the assistant's section of the settings may hold; its default
  Ops,              \* saves and deletes under way at once
  Broken,           \* a text that does not parse
  NoFile, None,
  Garbage,          \* a settings.json that does not parse
  Disks,            \* the rule directories an earlier session may have left
  MaxActs, MaxMoves \* bounds: rule commands, changes of the settings and edits
                    \* by hand in all; times the module is opened

Ids   == Builtins \cup OwnIds
Texts == Ids \cup {Broken}
Kinds == {"catalog", "hunt"}

ASSUME FilesAssumption ==
  /\ Default \in Dirs /\ None \notin Dirs /\ Off \in Sections
  /\ Listed \subseteq Names /\ "builtin" \notin Names
  /\ Broken \notin Ids /\ NoFile \notin Texts
  /\ Garbage \notin [dir : Dirs, llm : Sections]
  /\ Disks \subseteq [Dirs -> [Names -> Texts \cup {NoFile}]]
  /\ {MaxActs, MaxMoves} \subseteq Nat

VARIABLES
  settings,   \* settings.json
  files,      \* dir -> name -> text, or NoFile
  op,         \* the saves and deletes under way
  setDir,     \* the settings_set_rule_dir under way
  setLlm,     \* the assistant command that changes the settings
  scan,       \* load_combined_rules under way: of the catalogue, of a hunt
  visible,    \* the Hunt module is mounted
  list,       \* the catalogue in the query cache
  shown,      \* the rule directory in the query cache
  dirAsked,   \* settings_rule_dir is under way
  ran,        \* history: what the last hunt ran, and the files no one touched
  last,       \* history: the settings as each command meant to leave them
  overlapped, \* history: two changes of the settings crossed
  missed,     \* history: a change the list has not been told of
  acts, moves

disk    == <<settings, files>>
cmds    == <<op, setDir, setLlm>>
panel   == <<visible, list, shown, dirAsked>>
history == <<ran, last, overlapped, missed>>
counts  == <<acts, moves>>
vars    == <<disk, cmds, scan, panel, history, counts>>

Idle   == [pc |-> "idle"]
NoList == [rules |-> None, dir |-> None, stale |-> FALSE, failed |-> FALSE]
Unset  == [dir |-> Default, llm |-> Off]

(* Mutated form: a file that does not parse is read as one that is not there. *)
LoadOrDefault(s) == IF s = Garbage THEN {Unset} ELSE {s}

(* settings::load: what it returns, nothing if the file does not parse.  A *)
(* file that is not there is read as Unset.                                *)
Load(s) == IF s = Garbage THEN {} ELSE {s}

(* load_combined_rules, of what the files of a directory parsed to. *)
Combined(user) ==
  user \cup {[source |-> "builtin", id |-> b] : b \in Builtins \ {r.id : r \in user}}

(* load_dir on one file: what it adds to the rules. *)
Parsed(n, text) ==
  IF n \in Listed /\ text \in Ids THEN {[source |-> n, id |-> text]} ELSE {}
OnDisk(d) == Combined(UNION {Parsed(n, files[d][n]) : n \in Names})

Init ==
  /\ settings = Unset
  /\ files \in Disks
  /\ op = [o \in Ops |-> Idle] /\ setDir = Idle /\ setLlm = Idle
  /\ scan = [k \in Kinds |-> Idle]
  /\ visible = FALSE /\ list = NoList /\ shown = None /\ dirAsked = FALSE
  /\ ran = None
  /\ last = settings /\ overlapped = FALSE /\ missed = FALSE
  /\ acts = 0 /\ moves = 0

-----------------------------------------------------------------------------
(* The rule list of the Hunt module.                                       *)

Asked == [scan EXCEPT !["catalog"] = [pc |-> "called"]]

(* A request that is under way goes on although the list is marked, and    *)
(* its answer takes the mark away: off the screen, or if it is the first.  *)
KeepsRequest == scan["catalog"] # Idle /\ (~visible \/ list.rules = None)

(* useInvalidateRules: the list is marked, and on the screen it is asked   *)
(* for at once, what is under way for it being dropped.                    *)
InvalidateRules ==
  /\ list' = [list EXCEPT !.stale = TRUE]
  /\ scan' = IF visible /\ ~KeepsRequest THEN Asked ELSE scan
  /\ missed' = (missed \/ KeepsRequest)

(* The module is opened: its queries ask for what is missing or marked,    *)
(* and for the directory if its answer is older than the stale time.       *)
Show ==
  /\ ~visible /\ moves < MaxMoves
  /\ visible' = TRUE /\ moves' = moves + 1
  /\ scan' = IF scan["catalog"] = Idle /\ (list.rules = None \/ list.stale)
             THEN Asked ELSE scan
  /\ dirAsked' \in BOOLEAN /\ (dirAsked \/ shown = None => dirAsked')
  /\ UNCHANGED <<disk, cmds, list, shown, history, acts>>

(* Another module is opened, maybe the settings, which ask for it too. *)
Hide ==
  /\ visible
  /\ visible' = FALSE
  /\ dirAsked' \in {dirAsked, TRUE}
  /\ UNCHANGED <<disk, cmds, scan, list, shown, history, counts>>

(* refresh(), the button. *)
Refresh ==
  /\ visible /\ acts < MaxActs
  /\ acts' = acts + 1
  /\ InvalidateRules
  /\ dirAsked' = TRUE
  /\ UNCHANGED <<disk, cmds, visible, shown, ran, last, overlapped, moves>>

(* settings_rule_dir answers, or fails and leaves what was shown. *)
DirAnswers ==
  /\ dirAsked
  /\ dirAsked' = FALSE
  /\ shown' \in {shown} \cup {s.dir : s \in Load(settings)}
  /\ UNCHANGED <<disk, cmds, scan, visible, list, history, counts>>
-----------------------------------------------------------------------------
(* load_combined_rules, for the catalogue and for a hunt: resolve the      *)
(* directory, then read file after file while others write them.           *)

(* Mutated form: the first file that does not parse ends the scan. *)
ScanReadsUntilBroken(k) ==
  /\ scan[k].pc = "reading"
  /\ \E n \in scan[k].todo :
       LET text == files[scan[k].dir][n]
       IN  scan' = [scan EXCEPT ![k].user = @ \cup Parsed(n, text),
                                ![k].todo = IF text = Broken THEN {} ELSE @ \ {n}]
  /\ UNCHANGED <<disk, cmds, panel, history, counts>>

ScanBegins(k) ==
  /\ scan[k].pc = "called"
  /\ \E s \in Load(settings) :
       scan' = [scan EXCEPT ![k] = [pc |-> "reading", dir |-> s.dir, todo |-> Names,
                                    user |-> {}, calm |-> Names]]
  /\ missed' = (missed /\ k # "catalog")
  /\ UNCHANGED <<disk, cmds, panel, ran, last, overlapped, counts>>

ScanReads(k) ==
  /\ scan[k].pc = "reading"
  /\ \E n \in scan[k].todo :
       scan' = [scan EXCEPT ![k].user = @ \cup Parsed(n, files[scan[k].dir][n]),
                            ![k].todo = @ \ {n}]
  /\ UNCHANGED <<disk, cmds, panel, history, counts>>

(* The settings do not parse, or the directory cannot be read. *)
CatalogFails ==
  /\ scan["catalog"].pc \in {"called", "reading"}
  /\ scan' = [scan EXCEPT !["catalog"] = Idle]
  /\ list' = [list EXCEPT !.failed = TRUE]
  /\ UNCHANGED <<disk, cmds, visible, shown, dirAsked, history, counts>>

CatalogLands ==
  /\ scan["catalog"].pc = "reading" /\ scan["catalog"].todo = {}
  /\ list' = [rules |-> Combined(scan["catalog"].user), dir |-> scan["catalog"].dir,
              stale |-> FALSE, failed |-> FALSE]
  /\ scan' = [scan EXCEPT !["catalog"] = Idle]
  /\ UNCHANGED <<disk, cmds, visible, shown, dirAsked, history, counts>>

(* hunt_run; what it then does with the rules is LogSession. *)
Hunt ==
  /\ visible /\ scan["hunt"] = Idle /\ acts < MaxActs
  /\ scan' = [scan EXCEPT !["hunt"] = [pc |-> "called"]]
  /\ acts' = acts + 1
  /\ UNCHANGED <<disk, cmds, panel, history, moves>>

HuntFails ==
  /\ scan["hunt"].pc \in {"called", "reading"}
  /\ scan' = [scan EXCEPT !["hunt"] = Idle]
  /\ UNCHANGED <<disk, cmds, panel, history, counts>>

(* useRunHunt: a hunt that is over makes the list and the directory stale. *)
HuntLands ==
  LET s == scan["hunt"]
  IN  /\ s.pc = "reading" /\ s.todo = {}
      /\ ran' = [rules |-> Combined(s.user),
                 calm  |-> UNION {Parsed(n, files[s.dir][n]) : n \in s.calm}]
      /\ list' = [list EXCEPT !.stale = TRUE]
      /\ scan' = [IF visible /\ ~KeepsRequest THEN Asked ELSE scan
                  EXCEPT !["hunt"] = Idle]
      /\ missed' = (missed \/ KeepsRequest)
      /\ dirAsked' \in {dirAsked, TRUE} /\ (visible => dirAsked')
      /\ UNCHANGED <<disk, cmds, visible, shown, last, overlapped,
                 counts>>

-----------------------------------------------------------------------------
(* hunt_save_user_rule and hunt_delete_user_rule, with the editor and the  *)
(* dialog that call them.  The editor may be closed, and another opened,   *)
(* while a save is under way.                                              *)

(* The scans lose sight of a file that changes under them. *)
Unsettle(d, n) ==
  [k \in Kinds |-> IF scan[k].pc = "reading" /\ scan[k].dir = d
                   THEN [scan[k] EXCEPT !.calm = @ \ {n}] ELSE scan[k]]

Save(o, n, text) ==
  /\ visible /\ op[o] = Idle /\ acts < MaxActs
  /\ op' = [op EXCEPT ![o] = [pc |-> "called", name |-> n, text |-> text]]
  /\ acts' = acts + 1
  /\ UNCHANGED <<disk, setDir, setLlm, scan, panel, history, moves>>

(* A row of the list that is not the catalogue's. *)
Delete(o, n) ==
  /\ visible /\ op[o] = Idle /\ acts < MaxActs
  /\ list.rules # None /\ \E r \in list.rules : r.source = n
  /\ op' = [op EXCEPT ![o] = [pc |-> "called", name |-> n, text |-> NoFile]]
  /\ acts' = acts + 1
  /\ UNCHANGED <<disk, setDir, setLlm, scan, panel, history, moves>>

(* parse_yaml, then effective_rule_dir. *)
OpResolves(o) ==
  /\ op[o].pc = "called" /\ op[o].text # Broken
  /\ \E s \in Load(settings) :
       op' = [op EXCEPT ![o] = [pc |-> "resolved", name |-> op[o].name,
                                text |-> op[o].text, dir |-> s.dir]]
  /\ UNCHANGED <<disk, setDir, setLlm, scan, panel, history, counts>>

OpWrites(o) ==
  /\ op[o].pc = "resolved"
  /\ files' = [files EXCEPT ![op[o].dir][op[o].name] = op[o].text]
  /\ scan' = Unsettle(op[o].dir, op[o].name)
  /\ op' = [op EXCEPT ![o].pc = "done"]
  /\ UNCHANGED <<settings, setDir, setLlm, panel, history, counts>>

(* The text or the settings do not parse, or the file cannot be changed. *)
OpFails(o) ==
  /\ op[o].pc \in {"called", "resolved"}
  /\ op' = [op EXCEPT ![o] = Idle]
  /\ UNCHANGED <<disk, setDir, setLlm, scan, panel, history, counts>>

(* Mutated form: the list is not told. *)
OpReturnsQuietly(o) ==
  /\ op[o].pc = "done"
  /\ op' = [op EXCEPT ![o] = Idle]
  /\ UNCHANGED <<disk, setDir, setLlm, scan, panel, ran, last, overlapped,
                 missed, counts>>

(* onSaved = refresh; after a delete only the rules are asked for. *)
OpReturns(o) ==
  /\ op[o].pc = "done"
  /\ op' = [op EXCEPT ![o] = Idle]
  /\ InvalidateRules
  /\ dirAsked' = (dirAsked \/ op[o].text # NoFile)
  /\ UNCHANGED <<disk, setDir, setLlm, visible, shown, ran, last, overlapped,
                 counts>>

-----------------------------------------------------------------------------
(* settings.json: settings_set_rule_dir, and llm_set_settings and          *)
(* llm_mark_reviewed, which change the assistant's section.  Each loads    *)
(* the whole file and saves the whole file, without a lock.                *)

ChooseDir(d) ==
  /\ ~visible /\ setDir = Idle /\ acts < MaxActs
  /\ setDir' = [pc |-> "called", dir |-> d]
  /\ acts' = acts + 1
  /\ UNCHANGED <<disk, op, setLlm, scan, panel, history, moves>>

SetDirLoads ==
  /\ setDir.pc = "called"
  /\ \E s \in Load(settings) :
       setDir' = [pc |-> "loaded", s |-> [s EXCEPT !.dir = setDir.dir]]
  /\ UNCHANGED <<disk, op, setLlm, scan, panel, history, counts>>

SetDirSaves ==
  /\ setDir.pc = "loaded"
  /\ settings' = setDir.s
  /\ setDir' = [pc |-> "saved"]
  /\ last' = IF last = Garbage THEN last ELSE [last EXCEPT !.dir = setDir.s.dir]
  /\ overlapped' = (overlapped \/ setLlm.pc = "loaded")
  /\ missed' = (missed \/ settings = Garbage \/ settings.dir # setDir.s.dir)
  /\ UNCHANGED <<files, op, setLlm, scan, panel, ran, counts>>

SetDirFails ==
  /\ setDir.pc \in {"called", "loaded"}
  /\ setDir' = Idle
  /\ UNCHANGED <<disk, op, setLlm, scan, panel, history, counts>>

(* refreshRuleDir: the directory is asked for, the rules are not. *)
SetDirReturns ==
  /\ setDir.pc = "saved"
  /\ setDir' = Idle
  /\ dirAsked' = TRUE
  /\ UNCHANGED <<disk, op, setLlm, scan, visible, list, shown, history, counts>>

CommitLlm(l) ==
  /\ setLlm = Idle /\ acts < MaxActs
  /\ setLlm' = [pc |-> "called", llm |-> l]
  /\ acts' = acts + 1
  /\ UNCHANGED <<disk, op, setDir, scan, panel, history, moves>>

SetLlmLoads ==
  /\ setLlm.pc = "called"
  /\ \E s \in Load(settings) :
       setLlm' = [pc |-> "loaded", s |-> [s EXCEPT !.llm = setLlm.llm]]
  /\ UNCHANGED <<disk, op, setDir, scan, panel, history, counts>>

SetLlmSaves ==
  /\ setLlm.pc = "loaded"
  /\ settings' = setLlm.s
  /\ setLlm' = Idle
  /\ last' = IF last = Garbage THEN last ELSE [last EXCEPT !.llm = setLlm.s.llm]
  /\ overlapped' = (overlapped \/ setDir.pc = "loaded")
  /\ missed' = (missed \/ settings = Garbage \/ settings.dir # setLlm.s.dir)
  /\ UNCHANGED <<files, op, setDir, scan, panel, ran, counts>>

SetLlmFails ==
  /\ setLlm.pc \in {"called", "loaded"}
  /\ setLlm' = Idle
  /\ UNCHANGED <<disk, op, setDir, scan, panel, history, counts>>

-----------------------------------------------------------------------------
(* Other programs write to both. *)
EditFile(d, n, text) ==
  /\ acts < MaxActs /\ text # files[d][n]
  /\ files' = [files EXCEPT ![d][n] = text]
  /\ scan' = Unsettle(d, n)
  /\ acts' = acts + 1 /\ missed' = TRUE
  /\ UNCHANGED <<settings, cmds, panel, ran, last, overlapped, moves>>

EditSettings(s) ==
  /\ acts < MaxActs /\ s # settings
  /\ settings' = s /\ last' = s
  /\ overlapped' = (overlapped \/ "loaded" \in {setDir.pc, setLlm.pc})
  /\ acts' = acts + 1 /\ missed' = TRUE
  /\ UNCHANGED <<files, cmds, scan, panel, ran, moves>>

Next ==
  \/ Show \/ Hide \/ Refresh \/ DirAnswers
  \/ \E k \in Kinds : ScanBegins(k) \/ ScanReads(k)
  \/ CatalogFails \/ CatalogLands \/ Hunt \/ HuntFails \/ HuntLands
  \/ \E o \in Ops, n \in Names : Delete(o, n) \/ \E t \in Texts : Save(o, n, t)
  \/ \E o \in Ops : OpResolves(o) \/ OpWrites(o) \/ OpFails(o) \/ OpReturns(o)
  \/ \E d \in Dirs : ChooseDir(d)
  \/ SetDirLoads \/ SetDirSaves \/ SetDirFails \/ SetDirReturns
  \/ \E l \in Sections : CommitLlm(l)
  \/ SetLlmLoads \/ SetLlmSaves \/ SetLlmFails
  \/ \E d \in Dirs, n \in Names, t \in Texts \cup {NoFile} : EditFile(d, n, t)
  \/ \E s \in [dir : Dirs, llm : Sections] \cup {Garbage} : EditSettings(s)

Spec == Init /\ [][Next]_vars

-----------------------------------------------------------------------------
(* Type invariant. *)
Settings == [dir : Dirs, llm : Sections]
Rule     == [source : Names, id : Ids]
Entry    == [source : Names \cup {"builtin"}, id : Ids]
TypeOK ==
  /\ settings \in Settings \cup {Garbage} /\ last \in Settings \cup {Garbage}
  /\ files \in [Dirs -> [Names -> Texts \cup {NoFile}]]
  /\ op \in [Ops -> {Idle}
                \cup [pc : {"called"}, name : Names, text : Texts \cup {NoFile}]
                \cup [pc : {"resolved", "done"}, name : Names,
                      text : Texts \cup {NoFile}, dir : Dirs]]
  /\ setDir \in {Idle, [pc |-> "saved"]} \cup [pc : {"called"}, dir : Dirs]
                \cup [pc : {"loaded"}, s : Settings]
  /\ setLlm \in {Idle} \cup [pc : {"called"}, llm : Sections]
                \cup [pc : {"loaded"}, s : Settings]
  /\ scan \in [Kinds -> {Idle, [pc |-> "called"]}
                \cup [pc : {"reading"}, dir : Dirs, todo : SUBSET Names,
                      user : SUBSET Rule, calm : SUBSET Names]]
  /\ list \in [rules : (SUBSET Entry) \cup {None}, dir : Dirs \cup {None},
               stale : BOOLEAN, failed : BOOLEAN]
  /\ shown \in Dirs \cup {None}
  /\ visible \in BOOLEAN /\ dirAsked \in BOOLEAN
  /\ overlapped \in BOOLEAN /\ missed \in BOOLEAN
  /\ acts \in Nat /\ moves \in Nat

Settled ==
  /\ visible /\ scan["catalog"] = Idle /\ ~dirAsked
  /\ setDir = Idle /\ \A o \in Ops : op[o] = Idle
  /\ list.rules # None /\ ~list.failed

(* queries.ts, useInvalidateRules: once every save and delete of the panel *)
(* has been answered, the list on the screen is what a scan of the rule    *)
(* directory gives now, however they overlapped with each other and with   *)
(* earlier scans; changes made by other programs and those of the          *)
(* directory itself count from the next scan on.                           *)
CatalogCurrent ==
  Settled /\ ~missed => list.rules = OnDisk(settings.dir)

(* load_combined_rules, "user wins so analysts can override a built-in":   *)
(* a hunt runs every rule whose file nobody touched during its scan, no    *)
(* catalogue rule beside one that overrides it, and lacks a catalogue rule *)
(* only for one that does, whatever the other files hold.                  *)
HuntRunsTheFiles ==
  ran # None =>
    /\ ran.calm \subseteq ran.rules
    /\ \A b \in Builtins :
         LET from == {r.source : r \in {q \in ran.rules : q.id = b}}
         IN  from # {} /\ ("builtin" \in from => from = {"builtin"})

(* A change of the rule directory leaves the assistant's section, and a    *)
(* change of the section the directory, and neither replaces a settings    *)
(* file that does not parse, unless two changes crossed.                   *)
SectionsKept == ~overlapped => settings = last

(* SettingsModule.tsx, on the rule directory: "changing the directory here *)
(* updates both" it and the Hunt module's rule list.                       *)
ListFollowsDirectory == Settled /\ shown # None => list.dir = shown

(* loader.rs: "Each file in the configured directory is loaded", which the *)
(* message "Rule saved" relies on.                                         *)
SavedIsListed ==
  Settled /\ ~missed =>
    \A n \in Names : LET text == files[settings.dir][n]
                     IN  text \in Ids => [source |-> n, id |-> text] \in list.rules
=============================================================================
