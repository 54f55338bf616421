----------------------------- MODULE LogSession -----------------------------
(***************************************************************************)
(* The log-analysis session of the backend: the commands of                *)
(* src-tauri/src/commands/logs.rs and hunt.rs that share AppState's        *)
(* `log_store` and the per-log DuckDB files, with the parts of log-ingest  *)
(* and detect-engine that change those files.  Several commands are in     *)
(* progress at once on the blocking pool; DuckDB commits each statement by *)
(* itself, so a failure or a crash leaves what was committed before it.    *)
(*                                                                         *)
(* A handle (LogStore) is <<log, k>>: the k-th simultaneous open of the    *)
(* log's file. It is dropped when nothing refers to it any more.           *)
(***************************************************************************)
EXTENDS Integers, FiniteSets, Sequences

CONSTANTS
  Logs,         \* source log files, each with its own DuckDB file
  Tasks,        \* commands that can be in progress at once
  Rules,        \* detection rules, built in or from a file of the user's
  Catalogs,     \* what load_combined_rules may return: rules, in the order run
  MaxHits,      \* bound on the matches of a rule in a log (its max_per_run)
  Copies,       \* how often one file can be open in this process at once
  AlertIds,     \* the alerts a list on the screen may offer for triage
  None,         \* no handle, no file
  MaxLoads,     \* bound on the ingests of one log
  MaxCommands   \* bound on the commands issued

ASSUME LogAssumption ==
  /\ None \notin Logs /\ None \notin Tasks /\ None \notin Logs \X (1 .. Copies)
  /\ Catalogs \subseteq Seq(Rules) \ {<<>>}   \* a built-in rule is at most replaced
  /\ MaxHits \in Nat /\ AlertIds \subseteq Nat
  /\ Copies \in Nat \ {0}
  /\ MaxLoads \in Nat /\ MaxCommands \in Nat

Handles == Logs \X (1 .. Copies)
Hits    == [Rules -> 0 .. MaxHits]
NoHits  == [r \in Rules |-> 0]

VARIABLES
  file,      \* log -> its DuckDB file: the event and the alert tables
  store,     \* AppState.log_store
  broken,    \* handles whose connection no longer answers
  op,        \* task -> the command it runs
  pc,        \* task -> its next step
  on,        \* task -> the handle it holds
  loc,       \* task -> locals: rules, next of them, next_id, total, errors, alert id
  issued,    \* history: commands issued, for the bound
  owner,     \* history: log -> the hunt that reset its alerts last
  verdict,   \* history: log -> rules and report of that hunt, once it has returned
  crowded    \* history: log -> another hunt was still running rules at that reset

vars == <<file, store, broken, op, pc, on, loc, issued, owner, verdict, crowded>>
history == <<owner, verdict, crowded>>

(* ready: the alert tables exist. whole: ingest_runs has its row.           *)
(* load: which ingest the event rows are from. hits: what each rule finds   *)
(* in them. full (history): they hold every line of the source.             *)
NoFile == [exists |-> FALSE, ready |-> FALSE, whole |-> FALSE, full |-> FALSE,
           load |-> 0, hits |-> NoHits, alerts |-> {}]
AlertRow == [id : Nat, rule : Rules, nth : Nat, load : Nat, triage : {"new", "fp"}]

Locals == [list |-> <<>>, rule |-> 1, next |-> 1, total |-> 0, errors |-> 0, id |-> 0]
NoReport == [done |-> FALSE, clean |-> FALSE, total |-> 0, list |-> <<>>]
Ops == {"none", "ingest", "open", "hunt", "triage"}
Steps == {"idle", "drop alerts", "drop runs", "drop events", "append", "record",
          "ensure", "publish", "init", "reset", "rule", "report", "update"}

Live(h) == store = h \/ \E t \in Tasks : on[t] = h

Init ==
  /\ file = [l \in Logs |-> NoFile]
  /\ store = None
  /\ broken = {}
  /\ op = [t \in Tasks |-> "none"]
  /\ pc = [t \in Tasks |-> "idle"]
  /\ on = [t \in Tasks |-> None]
  /\ loc = [t \in Tasks |-> Locals]
  /\ issued = 0
  /\ owner = [l \in Logs |-> None]
  /\ verdict = [l \in Logs |-> NoReport]
  /\ crowded = [l \in Logs |-> FALSE]

-----------------------------------------------------------------------------
Goto(t, step) == pc' = [pc EXCEPT ![t] = step]
At(t, step)   == pc[t] = step
Log(t)        == on[t][1]
Usable(t)     == on[t] \notin broken

(* The command of task t starts, on handle h. *)
Issue(t, cmd, h, step) ==
  /\ pc[t] = "idle" /\ issued < MaxCommands
  /\ issued' = issued + 1
  /\ op' = [op EXCEPT ![t] = cmd]
  /\ on' = [on EXCEPT ![t] = h]
  /\ Goto(t, step)

(* The command returns: its clone of the handle is dropped. *)
Return(t) ==
  /\ Goto(t, "idle")
  /\ op' = [op EXCEPT ![t] = "none"]
  /\ on' = [on EXCEPT ![t] = None]
  /\ loc' = [loc EXCEPT ![t] = Locals]

(* Task t changes fields of its file and goes on. *)
Write(t, f, step) ==
  /\ file' = [file EXCEPT ![Log(t)] = f]
  /\ Goto(t, step)
  /\ UNCHANGED <<store, broken, op, on, issued>>

(* What a hunt once reported of a log is over. *)
Forget(l) ==
  /\ owner' = [owner EXCEPT ![l] = None]
  /\ verdict' = [verdict EXCEPT ![l] = NoReport]
  /\ crowded' = [crowded EXCEPT ![l] = FALSE]

(* open_analysis_store: Connection::open, the schemas of both crates.       *)
Opened(l) == [file[l] EXCEPT !.exists = TRUE, !.ready = TRUE]
OpenStore(t, cmd, l, step) ==
  \E k \in 1 .. Copies :
    /\ ~Live(<<l, k>>) /\ \A j \in 1 .. (k - 1) : Live(<<l, j>>)
    /\ Issue(t, cmd, <<l, k>>, step)
    /\ file' = [file EXCEPT ![l] = Opened(l)]
    /\ broken' = broken \ {<<l, k>>}
    /\ UNCHANGED <<store, loc, history>>

(* log_ingest of log l up to ingest_file; an open that fails does nothing.  *)
Ingest(t, l) ==
  /\ file[l].load < MaxLoads
  /\ OpenStore(t, "ingest", l, "drop alerts")

(* log_open_existing. *)
OpenExisting(t, l) ==
  /\ file[l].exists
  /\ OpenStore(t, "open", l, "publish")

(* Mutated form: the alert tables are left alone. *)
KeepAlertTables(t) ==
  /\ At(t, "drop alerts")
  /\ Write(t, file[Log(t)], "drop runs")
  /\ Forget(Log(t))
  /\ UNCHANGED loc

(* truncate_events, in the order of its statements: the alert tables...     *)
DropAlerts(t) ==
  /\ At(t, "drop alerts")
  /\ Write(t, [file[Log(t)] EXCEPT !.alerts = {}, !.ready = FALSE], "drop runs")
  /\ Forget(Log(t))
  /\ UNCHANGED loc

(* Mutated form: the rows of ingest_runs survive a re-ingest. *)
KeepRuns(t) ==
  /\ At(t, "drop runs")
  /\ Write(t, file[Log(t)], "drop events")
  /\ UNCHANGED <<loc, history>>

(* ... then ingest_runs ...                                                 *)
DropRuns(t) ==
  /\ At(t, "drop runs")
  /\ Write(t, [file[Log(t)] EXCEPT !.whole = FALSE], "drop events")
  /\ UNCHANGED <<loc, history>>

(* ... then the event tables, which are created again, empty.               *)
DropEvents(t) ==
  /\ At(t, "drop events")
  /\ Write(t, [file[Log(t)] EXCEPT !.load = @ + 1, !.hits = NoHits, !.full = FALSE],
           "append")
  /\ UNCHANGED <<loc, history>>

(* The appenders write some rows out, every FLUSH_EVERY_ROWS.               *)
Flush(t) ==
  /\ At(t, "append")
  /\ \E h \in Hits :
       /\ \A r \in Rules : h[r] >= file[Log(t)].hits[r]
       /\ h # file[Log(t)].hits
       /\ Write(t, [file[Log(t)] EXCEPT !.hits = h], "append")
  /\ UNCHANGED <<loc, history>>

(* The last flush of both appenders ... *)
LastFlush(t) ==
  /\ At(t, "append")
  /\ Write(t, [file[Log(t)] EXCEPT !.full = TRUE], "record")
  /\ UNCHANGED <<loc, history>>

(* ... then the row in ingest_runs. *)
RecordRun(t) ==
  /\ At(t, "record")
  /\ Write(t, [file[Log(t)] EXCEPT !.whole = TRUE], "ensure")
  /\ UNCHANGED <<loc, history>>

(* Reading the source or writing the file fails: ingest_file returns the    *)
(* error, log_ingest returns it too and drops the handle.                   *)
IngestFails(t) ==
  /\ op[t] = "ingest" /\ pc[t] \in {"drop alerts", "drop runs", "drop events", "append", "record"}
  /\ Return(t)
  /\ UNCHANGED <<file, store, broken, issued, history>>

(* Mutated form: log_ingest does not recreate the alert tables. *)
EnsureNothing(t) ==
  /\ At(t, "ensure")
  /\ Write(t, file[Log(t)], "publish")
  /\ UNCHANGED <<loc, history>>

(* ensure_alert_schema, after the load dropped the alert tables. *)
EnsureAlertSchema(t) ==
  /\ At(t, "ensure")
  /\ Write(t, [file[Log(t)] EXCEPT !.ready = TRUE], "publish")
  /\ UNCHANGED <<loc, history>>

(* The counts are read and set_store makes the handle the active one. *)
Publish(t) ==
  /\ At(t, "publish")
  /\ store' = on[t]
  /\ Return(t)
  /\ UNCHANGED <<file, broken, issued, history>>

(* ensure_alert_schema or the counts query fails. *)
PublishFails(t) ==
  /\ pc[t] \in {"ensure", "publish"}
  /\ Return(t)
  /\ UNCHANGED <<file, store, broken, issued, history>>

(* log_close. *)
Close ==
  /\ store # None /\ issued < MaxCommands
  /\ store' = None
  /\ issued' = issued + 1
  /\ UNCHANGED <<file, broken, op, pc, on, loc, history>>

-----------------------------------------------------------------------------
(* hunt_run: require_store, then the rules as they are now (they are loaded *)
(* for every hunt anew), then run_all_rules with them on the pool.          *)
Hunt(t) ==
  /\ store # None
  /\ Issue(t, "hunt", store, "init")
  /\ \E list \in Catalogs : loc' = [loc EXCEPT ![t].list = list]
  /\ UNCHANGED <<file, store, broken, history>>

(* schema::init of detect-engine. *)
HuntInit(t) ==
  /\ At(t, "init") /\ Usable(t)
  /\ Write(t, [file[Log(t)] EXCEPT !.ready = TRUE], "reset")
  /\ UNCHANGED <<loc, history>>

(* Another hunt of t's log has rules left to run. *)
OtherRuns(t) == \E u \in Tasks \ {t} : At(u, "rule") /\ Log(u) = Log(t)

(* schema::reset: DELETE from both alert tables. *)
HuntReset(t) ==
  /\ At(t, "reset") /\ Usable(t) /\ file[Log(t)].ready
  /\ Write(t, [file[Log(t)] EXCEPT !.alerts = {}], "rule")
  /\ owner' = [owner EXCEPT ![Log(t)] = t]
  /\ verdict' = [verdict EXCEPT ![Log(t)] = NoReport]
  /\ crowded' = [crowded EXCEPT ![Log(t)] = OtherRuns(t)]
  /\ UNCHANGED loc

(* init or reset fails: run_all_rules returns the error. *)
HuntFails(t) ==
  /\ pc[t] \in {"init", "reset"}
  /\ Return(t)
  /\ UNCHANGED <<file, store, broken, issued, history>>

Running(t) == loc[t].list[loc[t].rule]
Found(t) == file[Log(t)].hits[Running(t)]

(* The rows of the first n matches of a rule, with ids from next_id. *)
Rows(t, n) ==
  {[id |-> loc[t].next + i - 1, rule |-> Running(t), nth |-> i,
    load |-> file[Log(t)].load, triage |-> "new"] : i \in 1 .. n}
Taken(t, n) == \E a \in file[Log(t)].alerts : a.id = loc[t].next + n - 1

NextRule(t) == IF loc[t].rule = Len(loc[t].list) THEN "report" ELSE "rule"

(* run_one_rule under the handle's lock: every match becomes an alert.      *)
RuleOk(t) ==
  /\ At(t, "rule") /\ Usable(t)
  /\ \A i \in 1 .. Found(t) : ~Taken(t, i)
  /\ Write(t, [file[Log(t)] EXCEPT !.alerts = @ \cup Rows(t, Found(t))], NextRule(t))
  /\ loc' = [loc EXCEPT ![t].rule = @ + 1, ![t].next = @ + Found(t),
                        ![t].total = @ + Found(t)]
  /\ UNCHANGED history

(* Mutated form: the error of a rule is not counted. *)
RuleFailsUnseen(t) ==
  /\ At(t, "rule") /\ Usable(t)
  /\ \E n \in 1 .. Found(t) :
       /\ \A i \in 1 .. (n - 1) : ~Taken(t, i)
       /\ Write(t, [file[Log(t)] EXCEPT !.alerts = @ \cup Rows(t, n - 1)], NextRule(t))
       /\ loc' = [loc EXCEPT ![t].rule = @ + 1, ![t].next = @ + n]
  /\ UNCHANGED history

(* The n-th insert fails, on the primary key or for another reason: the     *)
(* rows before it stay, the ids they and the failed row took stay taken,    *)
(* and the rule is reported with an error and no alerts.  The failed match  *)
(* has its alert row if it was its evidence that could not be stored.       *)
RuleFails(t) ==
  /\ At(t, "rule") /\ Usable(t)
  /\ \E n \in 1 .. Found(t) :
       /\ \E m \in {n - 1, n} :
            /\ \A i \in 1 .. m : ~Taken(t, i)
            /\ Write(t, [file[Log(t)] EXCEPT !.alerts = @ \cup Rows(t, m)], NextRule(t))
       /\ loc' = [loc EXCEPT ![t].rule = @ + 1, ![t].next = @ + n, ![t].errors = @ + 1]
  /\ UNCHANGED history

(* The rule's SQL does not parse, or the handle is already unusable; the    *)
(* first of these may leave the connection unusable for everyone.           *)
RuleRejected(t) ==
  /\ At(t, "rule")
  /\ Goto(t, NextRule(t))
  /\ loc' = [loc EXCEPT ![t].rule = @ + 1, ![t].errors = @ + 1]
  /\ broken' \in {broken, broken \cup {on[t]}}
  /\ UNCHANGED <<file, store, op, on, issued, history>>

(* The report is returned. *)
HuntReturns(t) ==
  /\ At(t, "report")
  /\ Return(t)
  /\ verdict' = IF owner[Log(t)] # t THEN verdict
                ELSE [verdict EXCEPT ![Log(t)] =
                        [done |-> TRUE, clean |-> loc[t].errors = 0, total |-> loc[t].total,
                         list |-> loc[t].list]]
  /\ owner' = IF owner[Log(t)] # t THEN owner ELSE [owner EXCEPT ![Log(t)] = None]
  /\ UNCHANGED <<file, store, broken, issued, crowded>>

(* hunt_triage: the alert with this id, whichever it is by then, is marked. *)
Triage(t, id) ==
  /\ store # None
  /\ Issue(t, "triage", store, "update")
  /\ loc' = [loc EXCEPT ![t].id = id]
  /\ UNCHANGED <<file, store, broken, history>>

Marked(t) == {a \in file[Log(t)].alerts : a.id = loc[t].id}
TriageDone(t) ==
  /\ At(t, "update") /\ Usable(t) /\ file[Log(t)].ready
  /\ file' = [file EXCEPT ![Log(t)].alerts =
                (@ \ Marked(t)) \cup {[a EXCEPT !.triage = "fp"] : a \in Marked(t)}]
  /\ Return(t)
  /\ UNCHANGED <<store, broken, issued, history>>
TriageFails(t) ==
  /\ At(t, "update")
  /\ Return(t)
  /\ UNCHANGED <<file, store, broken, issued, history>>

-----------------------------------------------------------------------------
(* The process ends, in the middle of whatever is in progress, and is started *)
(* again with no active store.  The files stay.                              *)
Restart ==
  /\ store' = None
  /\ broken' = {}
  /\ op' = [t \in Tasks |-> "none"]
  /\ pc' = [t \in Tasks |-> "idle"]
  /\ on' = [t \in Tasks |-> None]
  /\ loc' = [t \in Tasks |-> Locals]
  /\ owner' = [l \in Logs |-> None]
  /\ UNCHANGED <<file, issued, verdict, crowded>>

Step(t) ==
  \/ DropAlerts(t) \/ DropRuns(t) \/ DropEvents(t) \/ Flush(t) \/ LastFlush(t)
  \/ RecordRun(t) \/ IngestFails(t) \/ EnsureAlertSchema(t) \/ Publish(t) \/ PublishFails(t)
  \/ HuntInit(t) \/ HuntReset(t) \/ HuntFails(t)
  \/ RuleOk(t) \/ RuleFails(t) \/ RuleRejected(t) \/ HuntReturns(t)
  \/ TriageDone(t) \/ TriageFails(t)

Next ==
  \/ \E t \in Tasks, l \in Logs : Ingest(t, l) \/ OpenExisting(t, l)
  \/ \E t \in Tasks : Hunt(t)
  \/ \E t \in Tasks, id \in AlertIds : Triage(t, id)
  \/ \E t \in Tasks : Step(t)
  \/ Close
  \/ Restart

Spec == Init /\ [][Next]_vars

-----------------------------------------------------------------------------
(* Type invariant. *)
TypeOK ==
  /\ \A l \in Logs :
       /\ DOMAIN file[l] = DOMAIN NoFile
       /\ {file[l].exists, file[l].ready, file[l].whole, file[l].full} \subseteq BOOLEAN
       /\ file[l].load \in Nat /\ file[l].hits \in Hits
       /\ file[l].alerts \subseteq AlertRow
  /\ store \in Handles \cup {None}
  /\ broken \subseteq Handles
  /\ op \in [Tasks -> Ops] /\ pc \in [Tasks -> Steps]
  /\ on \in [Tasks -> Handles \cup {None}]
  /\ \A t \in Tasks : (pc[t] = "idle") = (on[t] = None)
  /\ loc \in [Tasks -> [list : Catalogs \cup {<<>>}, rule : Nat, next : Nat, total : Nat,
                       errors : Nat, id : Nat]]
  /\ issued \in 0 .. MaxCommands
  /\ owner \in [Logs -> Tasks \cup {None}]
  /\ verdict \in [Logs -> [done : BOOLEAN, clean : BOOLEAN, total : Nat,
                           list : Catalogs \cup {<<>>}]]
  /\ crowded \in [Logs -> BOOLEAN]

(* schema.rs: re-ingest drops the alerts because their evidence would point  *)
(* at unrelated rows. Whatever fails or crashes, no alert outlives the load  *)
(* whose events it was raised on.                                            *)
EvidenceCurrent == \A l \in Logs : \A a \in file[l].alerts : a.load = file[l].load

(* A file with a row in ingest_runs holds its whole source, even if the last *)
(* ingest was cut off at any point.                                          *)
RunRecordsWhole == \A l \in Logs : file[l].whole => file[l].full

(* open_analysis_store's comment: the Alerts tab must never meet missing     *)
(* alert tables. The active store's file has them, except during a re-ingest *)
(* (impossible while the file is open, when the file can be open only once). *)
ActiveStoreReady == store # None => file[store[1]].ready

(* The rows a report counts, by their numbers, and the matches its rules have. *)
Counted(l) == {a \in file[l].alerts : a.id <= verdict[l].total}
Matches(list, hits) == UNION {{list[p]} \X (1 .. hits[list[p]]) : p \in DOMAIN list}

(* The last hunt to reset a log's alerts reports no error only if the first  *)
(* `total` alerts are a row for each match of each rule it ran, although     *)
(* hunts overlap, load different rules and all number their alerts from 1.   *)
(* Nothing else is in the table, unless a hunt it had overtaken was still    *)
(* running rules: then there may be more rows, with higher numbers.          *)
CleanHuntComplete ==
  \A l \in Logs : verdict[l].done /\ verdict[l].clean =>
    /\ {<<a.rule, a.nth>> : a \in Counted(l)} = Matches(verdict[l].list, file[l].hits)
    /\ Cardinality(Counted(l)) = verdict[l].total
    /\ crowded[l] \/ Counted(l) = file[l].alerts

(* log_ingest makes a store active only after its load is complete.          *)
IngestPublishesWhole ==
  [][\A t \in Tasks : op[t] = "ingest" /\ At(t, "publish") /\ store' = on[t]
       => file[Log(t)].full]_vars

(* run_all_rules: the report tells "which rule produced what": as many rows  *)
(* as it counts.                                                             *)
ReportMatchesRows ==
  \A l \in Logs : verdict[l].done => Cardinality(file[l].alerts) = verdict[l].total

(* store.rs on scratch connections: "one bad statement must not take down    *)
(* the handle the rest of the app uses".                                     *)
BadRuleKeepsHandle == store \notin broken
=============================================================================
