-------------------------- MODULE LogSession_proofs --------------------------
(***************************************************************************)
(* What a log's file promises when the file can be open only once, for any *)
(* number of logs, commands in progress, rules and matches, through every  *)
(* failure and restart.                                                    *)
(***************************************************************************)
EXTENDS LogSession, FiniteSetTheorems, FunctionTheorems, TLAPS

(* The steps of log_ingest and log_open_existing, from the open of the file  *)
(* to set_store.                                                             *)
Loading == {"drop alerts", "drop runs", "drop events", "append", "record", "ensure",
            "publish"}

Shape ==
  /\ DOMAIN file = Logs
  /\ \A l \in Logs : DOMAIN file[l] = DOMAIN NoFile
  /\ \A l \in Logs : \A a \in file[l].alerts : "load" \in DOMAIN a
  /\ store \in Handles \cup {None}
  /\ DOMAIN op = Tasks /\ DOMAIN pc = Tasks
  /\ on \in [Tasks -> Handles \cup {None}]
  /\ \A t \in Tasks : pc[t] # "idle" => on[t] \in Handles

(* A command that loads a log has the only handle of its file.               *)
Exclusive ==
  \A t \in Tasks : pc[t] \in Loading =>
    store # on[t] /\ \A u \in Tasks \ {t} : on[u] # on[t]

(* How far a load is says what its file holds.                               *)
Progress ==
  \A t \in Tasks :
    /\ pc[t] \in {"drop runs", "drop events"} => file[Log(t)].alerts = {}
    /\ pc[t] = "drop events" => ~file[Log(t)].whole
    /\ pc[t] \in {"record", "ensure"} \/ (pc[t] = "publish" /\ op[t] = "ingest")
         => file[Log(t)].full
    /\ pc[t] = "publish" => file[Log(t)].ready

Promises == EvidenceCurrent /\ RunRecordsWhole /\ ActiveStoreReady
IInv == Shape /\ Exclusive /\ Progress /\ Promises
-----------------------------------------------------------------------------
LEMMA NoneIsNoHandle == None \notin Handles
BY LogAssumption DEF Handles

(* With one open at a time, a log has one handle.                            *)
LEMMA OneHandle ==
  ASSUME Copies = 1, NEW g \in Handles, NEW h \in Handles, g # h
  PROVE  g[1] # h[1]
BY DEF Handles

LEMMA InitIInv == Init => IInv
<1> SUFFICES ASSUME Init PROVE IInv
  OBVIOUS
<1>1. Shape
  BY DEF Init, Shape, NoFile
<1>2. Exclusive /\ Progress
  BY DEF Init, Exclusive, Progress, Loading
<1>3. Promises
  BY DEF Init, Promises, EvidenceCurrent, RunRecordsWhole, ActiveStoreReady, NoFile
<1>4. QED
  BY <1>1, <1>2, <1>3 DEF IInv

(* A command that loads the log changes its file and goes on.                *)
LEMMA LoadStep ==
  ASSUME Copies = 1, IInv, NEW t \in Tasks, pc[t] \in Loading,
         NEW f, NEW step \in Loading,
         DOMAIN f = DOMAIN NoFile,
         \A a \in f.alerts : "load" \in DOMAIN a /\ a.load = f.load,
         f.whole => f.full,
         step \in {"drop runs", "drop events"} => f.alerts = {},
         step = "drop events" => ~f.whole,
         step \in {"record", "ensure"} \/ (step = "publish" /\ op[t] = "ingest") => f.full,
         step = "publish" => f.ready,
         file' = [file EXCEPT ![Log(t)] = f], pc' = [pc EXCEPT ![t] = step],
         UNCHANGED <<store, op, on>>
  PROVE  IInv'
<1>1. /\ on[t] \in Handles /\ Log(t) \in Logs /\ store # on[t]
      /\ \A u \in Tasks \ {t} : on[u] # on[t]
  BY DEF IInv, Shape, Exclusive, Loading, Handles, Log
<1>2. /\ pc'[t] = step /\ \A u \in Tasks \ {t} : pc'[u] = pc[u]
      /\ file'[Log(t)] = f /\ \A l \in Logs \ {Log(t)} : file'[l] = file[l]
      /\ DOMAIN pc' = Tasks /\ DOMAIN file' = Logs
  BY <1>1 DEF IInv, Shape
<1>3. step # "idle"
  BY DEF Loading
<1>4. Shape'
  BY <1>1, <1>2, <1>3 DEF IInv, Shape, NoFile
<1>5. Exclusive'
  BY <1>1, <1>2 DEF IInv, Exclusive
<1>6. \A u \in Tasks \ {t} : pc[u] \in Loading => Log(u) \in Logs \ {Log(t)}
  <2>1. \A u \in Tasks \ {t} : pc[u] \in Loading => on[u] \in Handles /\ Log(u) \in Logs
    BY DEF IInv, Shape, Loading, Handles, Log
  <2>2. QED
    BY <1>1, <2>1, OneHandle DEF Log
<1>7. Progress'
  <2> SUFFICES ASSUME NEW u \in Tasks, pc'[u] \in Loading
               PROVE  /\ pc'[u] \in {"drop runs", "drop events"} => file'[Log(u)].alerts = {}
                      /\ pc'[u] = "drop events" => ~file'[Log(u)].whole
                      /\ pc'[u] \in {"record", "ensure"} \/ (pc'[u] = "publish" /\ op[u] = "ingest")
                           => file'[Log(u)].full
                      /\ pc'[u] = "publish" => file'[Log(u)].ready
    BY DEF Progress, Loading, Log
  <2>1. CASE u = t
    BY <1>2, <2>1
  <2>2. CASE u # t
    BY <1>2, <1>6, <2>2 DEF IInv, Progress
  <2>3. QED
    BY <2>1, <2>2
<1>8. EvidenceCurrent' /\ RunRecordsWhole'
  BY <1>2 DEF IInv, Promises, EvidenceCurrent, RunRecordsWhole
<1>9. ActiveStoreReady'
  <2>1. store # None => store[1] \in Logs \ {Log(t)}
    BY <1>1, OneHandle DEF IInv, Shape, Log, Handles
  <2>2. QED
    BY <1>2, <2>1 DEF IInv, Promises, ActiveStoreReady
<1>10. QED
  BY <1>4, <1>5, <1>7, <1>8, <1>9 DEF IInv, Promises

(* A hunt or a triage changes the alerts of its file, or makes their tables. *)
LEMMA HuntStep ==
  ASSUME Copies = 1, IInv, NEW t \in Tasks, pc[t] \notin Loading, pc[t] # "idle",
         NEW f, NEW step, step \notin Loading,
         DOMAIN f = DOMAIN NoFile,
         \A a \in f.alerts : "load" \in DOMAIN a /\ a.load = f.load,
         f.load = file[Log(t)].load, f.whole = file[Log(t)].whole,
         f.full = file[Log(t)].full, file[Log(t)].ready => f.ready,
         file' = [file EXCEPT ![Log(t)] = f] \/ (file' = file /\ f = file[Log(t)]),
         pc' = [pc EXCEPT ![t] = step],
         UNCHANGED store, op' = op \/ op' = [op EXCEPT ![t] = "none"],
         on' = on \/ (step = "idle" /\ on' = [on EXCEPT ![t] = None])
  PROVE  IInv'
<1>1. on[t] \in Handles /\ Log(t) \in Logs
  BY DEF IInv, Shape, Handles, Log
<1>2. /\ pc'[t] = step /\ \A u \in Tasks \ {t} : pc'[u] = pc[u]
      /\ on'[t] \in {on[t], None} /\ \A u \in Tasks \ {t} : on'[u] = on[u]
      /\ \A u \in Tasks \ {t} : op'[u] = op[u]
      /\ file'[Log(t)] = f /\ \A l \in Logs \ {Log(t)} : file'[l] = file[l]
      /\ DOMAIN pc' = Tasks /\ DOMAIN file' = Logs /\ DOMAIN op' = Tasks
  BY <1>1 DEF IInv, Shape
<1>3. Shape'
  BY <1>1, <1>2 DEF IInv, Shape, NoFile
<1>4. \A u \in Tasks : pc'[u] \in Loading =>
        /\ u # t /\ pc[u] \in Loading /\ on'[u] = on[u]
        /\ on[u] \in Handles /\ on[u] # on[t]
  BY <1>2 DEF IInv, Shape, Exclusive, Loading
<1>5. Exclusive'
  BY <1>2, <1>4, NoneIsNoHandle DEF IInv, Exclusive
<1>6. \A u \in Tasks : pc'[u] \in Loading =>
        file'[Log(u)'] = file[Log(u)] /\ pc'[u] = pc[u] /\ op'[u] = op[u]
  <2>1. \A u \in Tasks : pc'[u] \in Loading => Log(u) \in Logs \ {Log(t)}
    BY <1>1, <1>4, OneHandle DEF Log, Handles
  <2>2. QED
    BY <1>2, <1>4, <2>1 DEF Log
<1>7. Progress'
  <2> SUFFICES ASSUME NEW u \in Tasks, pc'[u] \in Loading
               PROVE  /\ pc'[u] \in {"drop runs", "drop events"} => file'[Log(u)'].alerts = {}
                      /\ pc'[u] = "drop events" => ~file'[Log(u)'].whole
                      /\ pc'[u] \in {"record", "ensure"} \/ (pc'[u] = "publish" /\ op'[u] = "ingest")
                           => file'[Log(u)'].full
                      /\ pc'[u] = "publish" => file'[Log(u)'].ready
    BY DEF Progress, Loading
  <2>1. /\ pc'[u] = pc[u] /\ op'[u] = op[u]
        /\ file'[Log(u)'] = file[Log(u)]
    BY <1>6
  <2>2. QED
    BY <2>1 DEF IInv, Progress
<1>8. EvidenceCurrent' /\ RunRecordsWhole'
  BY <1>1, <1>2 DEF IInv, Promises, EvidenceCurrent, RunRecordsWhole
<1>9. ActiveStoreReady'
  <2>1. store # None => store[1] \in Logs
    BY DEF IInv, Shape, Handles
  <2>2. QED
    BY <1>2, <2>1 DEF IInv, Promises, ActiveStoreReady
<1>10. QED
  BY <1>3, <1>5, <1>7, <1>8, <1>9 DEF IInv, Promises

(* A command ends, with or without an error, and the files stay.             *)
LEMMA ReturnStep ==
  ASSUME IInv, NEW t \in Tasks, Return(t), UNCHANGED <<file, store>>
  PROVE  IInv'
<1>1. /\ pc'[t] = "idle" /\ on'[t] = None
      /\ \A u \in Tasks \ {t} : pc'[u] = pc[u] /\ on'[u] = on[u] /\ op'[u] = op[u]
      /\ DOMAIN pc' = Tasks /\ DOMAIN op' = Tasks /\ on' \in [Tasks -> Handles \cup {None}]
  BY DEF IInv, Shape, Return, Goto
<1>2. Shape'
  BY <1>1 DEF IInv, Shape
<1>3. Exclusive'
  BY <1>1, NoneIsNoHandle DEF IInv, Shape, Exclusive, Loading
<1>4. Progress'
  BY <1>1 DEF IInv, Progress, Log
<1>5. Promises'
  BY DEF IInv, Promises, EvidenceCurrent, RunRecordsWhole, ActiveStoreReady
<1>6. QED
  BY <1>2, <1>3, <1>4, <1>5 DEF IInv
LEMMA OneCopy == Copies = 1 => 1 .. Copies = {1}
OBVIOUS

(* The file is opened, which nobody else has open.                           *)
LEMMA OpenStep ==
  ASSUME Copies = 1, IInv, NEW t \in Tasks, NEW l \in Logs, NEW cmd, NEW step,
         step = "drop alerts" \/ (step = "publish" /\ cmd = "open"),
         OpenStore(t, cmd, l, step)
  PROVE  IInv'
<1> DEFINE h == <<l, 1>>
<1>1. /\ ~Live(h) /\ Issue(t, cmd, h, step) /\ UNCHANGED store
      /\ file' = [file EXCEPT ![l] = Opened(l)]
  <2>1. PICK k \in 1 .. Copies :
          /\ ~Live(<<l, k>>) /\ Issue(t, cmd, <<l, k>>, step) /\ UNCHANGED store
          /\ file' = [file EXCEPT ![l] = Opened(l)]
    BY DEF OpenStore
  <2>2. k = 1
    BY OneCopy
  <2>3. QED
    BY <2>1, <2>2
<1>2. h \in Handles /\ store # h /\ \A u \in Tasks : on[u] # h
  <2>1. h \in Handles
    BY OneCopy DEF Handles
  <2>2. QED
    BY <1>1, <2>1 DEF Live
<1>3. /\ pc'[t] = step /\ on'[t] = h /\ op'[t] = cmd
      /\ \A u \in Tasks \ {t} : pc'[u] = pc[u] /\ on'[u] = on[u] /\ op'[u] = op[u]
      /\ DOMAIN pc' = Tasks /\ DOMAIN op' = Tasks /\ on' \in [Tasks -> Handles \cup {None}]
  BY <1>1, <1>2 DEF IInv, Shape, Issue, Goto
<1>4. /\ DOMAIN Opened(l) = DOMAIN NoFile /\ Opened(l).ready
      /\ Opened(l).alerts = file[l].alerts /\ Opened(l).load = file[l].load
      /\ Opened(l).whole = file[l].whole /\ Opened(l).full = file[l].full
  BY DEF IInv, Shape, Opened, NoFile
<1>5. /\ file'[l] = Opened(l) /\ \A k \in Logs \ {l} : file'[k] = file[k]
      /\ DOMAIN file' = Logs
  BY <1>1 DEF IInv, Shape
<1> HIDE DEF h
<1>6. Shape'
  BY <1>1, <1>2, <1>3, <1>4, <1>5 DEF IInv, Shape
<1>7. Exclusive'
  BY <1>1, <1>2, <1>3 DEF IInv, Exclusive
<1>8. Progress'
  <2>1. \A u \in Tasks \ {t} : pc[u] \in Loading => Log(u) \in Logs \ {l}
    BY <1>2, OneHandle DEF IInv, Shape, Loading, Handles, Log, h
  <2>2. \A u \in Tasks \ {t} : pc[u] \in Loading => file'[Log(u)'] = file[Log(u)]
    BY <1>3, <1>5, <2>1 DEF Log
  <2>3. Log(t)' = h[1] /\ h[1] = l
    BY <1>3 DEF Log, h
  <2>4. /\ pc'[t] \notin {"drop runs", "drop events", "record", "ensure"}
        /\ ~(pc'[t] = "publish" /\ op'[t] = "ingest") /\ file'[Log(t)'].ready
    BY <1>3, <1>4, <1>5, <2>3, ZenonT(30)
  <2>5. SUFFICES ASSUME NEW u \in Tasks, pc'[u] \in Loading
                 PROVE  /\ pc'[u] \in {"drop runs", "drop events"} => file'[Log(u)'].alerts = {}
                        /\ pc'[u] = "drop events" => ~file'[Log(u)'].whole
                        /\ pc'[u] \in {"record", "ensure"} \/ (pc'[u] = "publish" /\ op'[u] = "ingest")
                             => file'[Log(u)'].full
                        /\ pc'[u] = "publish" => file'[Log(u)'].ready
    BY DEF Progress, Loading
  <2>6. CASE u = t
    BY <2>4, <2>6
  <2>7. CASE u # t
    <3>1. /\ pc'[u] = pc[u] /\ op'[u] = op[u]
          /\ file'[Log(u)'] = file[Log(u)]
      BY <1>3, <2>2, <2>5, <2>7
    <3>2. QED
      BY <3>1 DEF IInv, Progress
  <2>8. QED
    BY <2>6, <2>7
<1>9. Promises'
  <2>1. store # None => store[1] \in Logs
    BY DEF IInv, Shape, Handles
  <2>2. QED
    BY <1>1, <1>4, <1>5, <2>1 DEF IInv, Promises, EvidenceCurrent,
                                 RunRecordsWhole, ActiveStoreReady
<1>10. QED
  BY <1>6, <1>7, <1>8, <1>9 DEF IInv

(* A hunt or a triage begins, with the active handle.                        *)
LEMMA IssueStep ==
  ASSUME IInv, NEW t \in Tasks, store # None, NEW cmd, NEW step,
         step \notin Loading, Issue(t, cmd, store, step), UNCHANGED <<file, store>>
  PROVE  IInv'
<1>1. /\ pc'[t] = step /\ on'[t] = store /\ store \in Handles
      /\ \A u \in Tasks \ {t} : pc'[u] = pc[u] /\ on'[u] = on[u] /\ op'[u] = op[u]
      /\ DOMAIN pc' = Tasks /\ DOMAIN op' = Tasks /\ on' \in [Tasks -> Handles \cup {None}]
  BY DEF IInv, Shape, Issue, Goto
<1>2. Shape'
  BY <1>1 DEF IInv, Shape
<1>3. Exclusive'
  BY <1>1 DEF IInv, Exclusive
<1>4. Progress'
  BY <1>1 DEF IInv, Progress, Log, Loading
<1>5. Promises'
  BY DEF IInv, Promises, EvidenceCurrent, RunRecordsWhole, ActiveStoreReady
<1>6. QED
  BY <1>2, <1>3, <1>4, <1>5 DEF IInv

(* The loaded log becomes the active one.                                    *)
LEMMA PublishStep ==
  ASSUME IInv, NEW t \in Tasks, Publish(t)
  PROVE  IInv'
<1>1. /\ pc'[t] = "idle" /\ on'[t] = None /\ store' = on[t] /\ on[t] \in Handles
      /\ \A u \in Tasks \ {t} : pc'[u] = pc[u] /\ on'[u] = on[u] /\ op'[u] = op[u]
      /\ DOMAIN pc' = Tasks /\ DOMAIN op' = Tasks /\ on' \in [Tasks -> Handles \cup {None}]
      /\ file' = file
  BY DEF IInv, Shape, Publish, Return, Goto, At
<1>2. Shape'
  BY <1>1 DEF IInv, Shape
<1>3. Exclusive'
  BY <1>1, NoneIsNoHandle, ZenonT(30) DEF IInv, Shape, Exclusive, Loading
<1>4. Progress'
  BY <1>1 DEF IInv, Progress, Log
<1>5. file[Log(t)].ready
  BY DEF IInv, Progress, Publish, At
<1>6. Promises'
  BY <1>1, <1>5 DEF IInv, Promises, EvidenceCurrent, RunRecordsWhole, ActiveStoreReady, Log
<1>7. QED
  BY <1>2, <1>3, <1>4, <1>6 DEF IInv

(* log_close, and the end of the process.                                    *)
LEMMA ForgetStore ==
  ASSUME IInv, Close \/ Restart
  PROVE  IInv'
<1>1. CASE Close
  <2>1. store' = None /\ UNCHANGED <<file, op, pc, on>>
    BY <1>1 DEF Close
  <2>2. Shape' /\ Progress' /\ Promises'
    BY <2>1 DEF IInv, Shape, Progress, Log, Promises, EvidenceCurrent,
                RunRecordsWhole, ActiveStoreReady
  <2>3. Exclusive'
    BY <2>1, NoneIsNoHandle DEF IInv, Shape, Exclusive, Loading
  <2>4. QED
    BY <2>2, <2>3 DEF IInv
<1>2. CASE Restart
  <2>1. /\ store' = None /\ file' = file
        /\ op' = [t \in Tasks |-> "none"] /\ pc' = [t \in Tasks |-> "idle"]
        /\ on' = [t \in Tasks |-> None]
    BY <1>2 DEF Restart
  <2>2. Shape'
    BY <2>1 DEF IInv, Shape
  <2>3. Exclusive' /\ Progress'
    BY <2>1 DEF Exclusive, Progress, Loading
  <2>4. Promises'
    BY <2>1 DEF IInv, Promises, EvidenceCurrent, RunRecordsWhole, ActiveStoreReady
  <2>5. QED
    BY <2>2, <2>3, <2>4 DEF IInv
<1>3. QED
  BY <1>1, <1>2

-----------------------------------------------------------------------------
(* What an own file looks like to the command that works on it.              *)
LEMMA OwnFile ==
  ASSUME IInv, NEW t \in Tasks, pc[t] # "idle"
  PROVE  /\ Log(t) \in Logs /\ DOMAIN file[Log(t)] = DOMAIN NoFile
         /\ DOMAIN NoFile = {"exists", "ready", "whole", "full", "load", "hits", "alerts"}
         /\ \A a \in file[Log(t)].alerts : "load" \in DOMAIN a /\ a.load = file[Log(t)].load
         /\ file[Log(t)].whole => file[Log(t)].full
BY DEF IInv, Shape, Handles, Log, Promises, EvidenceCurrent, RunRecordsWhole, NoFile

LEMMA LoadingIInv ==
  ASSUME Copies = 1, IInv, NEW t \in Tasks,
         DropAlerts(t) \/ DropRuns(t) \/ DropEvents(t) \/ Flush(t) \/ LastFlush(t)
           \/ RecordRun(t) \/ EnsureAlertSchema(t)
  PROVE  IInv'
<1> USE OwnFile, LoadStep DEF At, Write, Goto, Loading
<1> DEFINE F == file[Log(t)]
<1>1. CASE DropAlerts(t)
  <2> DEFINE f == [F EXCEPT !.alerts = {}, !.ready = FALSE]
  <2>1. /\ pc[t] = "drop alerts" /\ file' = [file EXCEPT ![Log(t)] = f]
        /\ pc' = [pc EXCEPT ![t] = "drop runs"] /\ UNCHANGED <<store, op, on>>
    BY <1>1 DEF DropAlerts
  <2>2. /\ DOMAIN f = DOMAIN NoFile /\ f.alerts = {} /\ f.load = F.load
        /\ f.whole = F.whole /\ f.full = F.full
    BY <2>1
  <2> HIDE DEF f
  <2>3. QED
    BY <2>1, <2>2
<1>2. CASE DropRuns(t)
  <2> DEFINE f == [F EXCEPT !.whole = FALSE]
  <2>1. /\ pc[t] = "drop runs" /\ file' = [file EXCEPT ![Log(t)] = f]
        /\ pc' = [pc EXCEPT ![t] = "drop events"] /\ UNCHANGED <<store, op, on>>
    BY <1>2 DEF DropRuns
  <2>2. /\ DOMAIN f = DOMAIN NoFile /\ f.alerts = F.alerts /\ ~f.whole
    BY <2>1
  <2>3. f.alerts = {}
    BY <2>1, <2>2 DEF IInv, Progress
  <2> HIDE DEF f
  <2>4. QED
    BY <2>1, <2>2, <2>3
<1>3. CASE DropEvents(t)
  <2> DEFINE f == [F EXCEPT !.load = @ + 1, !.hits = NoHits, !.full = FALSE]
  <2>1. /\ pc[t] = "drop events" /\ file' = [file EXCEPT ![Log(t)] = f]
        /\ pc' = [pc EXCEPT ![t] = "append"] /\ UNCHANGED <<store, op, on>>
    BY <1>3 DEF DropEvents
  <2>2. DOMAIN f = DOMAIN NoFile /\ f.alerts = F.alerts /\ f.whole = F.whole
    BY <2>1
  <2>3. f.alerts = {} /\ ~f.whole
    BY <2>1, <2>2 DEF IInv, Progress
  <2> HIDE DEF f
  <2>4. QED
    BY <2>1, <2>2, <2>3
<1>4. CASE Flush(t)
  <2>1. PICK h \in Hits : Write(t, [F EXCEPT !.hits = h], "append")
    BY <1>4 DEF Flush
  <2> DEFINE f == [F EXCEPT !.hits = h]
  <2>2. /\ pc[t] = "append" /\ file' = [file EXCEPT ![Log(t)] = f]
        /\ pc' = [pc EXCEPT ![t] = "append"] /\ UNCHANGED <<store, op, on>>
    BY <1>4, <2>1 DEF Flush
  <2>3. /\ DOMAIN f = DOMAIN NoFile /\ f.alerts = F.alerts /\ f.load = F.load
        /\ f.whole = F.whole /\ f.full = F.full
    BY <2>2
  <2> HIDE DEF f
  <2>4. QED
    BY <2>2, <2>3
<1>5. CASE LastFlush(t)
  <2> DEFINE f == [F EXCEPT !.full = TRUE]
  <2>1. /\ pc[t] = "append" /\ file' = [file EXCEPT ![Log(t)] = f]
        /\ pc' = [pc EXCEPT ![t] = "record"] /\ UNCHANGED <<store, op, on>>
    BY <1>5 DEF LastFlush
  <2>2. DOMAIN f = DOMAIN NoFile /\ f.alerts = F.alerts /\ f.load = F.load /\ f.full
    BY <2>1
  <2> HIDE DEF f
  <2>3. QED
    BY <2>1, <2>2
<1>6. CASE RecordRun(t)
  <2> DEFINE f == [F EXCEPT !.whole = TRUE]
  <2>1. /\ pc[t] = "record" /\ file' = [file EXCEPT ![Log(t)] = f]
        /\ pc' = [pc EXCEPT ![t] = "ensure"] /\ UNCHANGED <<store, op, on>>
    BY <1>6 DEF RecordRun
  <2>2. F.full
    BY <2>1 DEF IInv, Progress
  <2>3. DOMAIN f = DOMAIN NoFile /\ f.alerts = F.alerts /\ f.load = F.load /\ f.full
    BY <2>1, <2>2
  <2> HIDE DEF f
  <2>4. QED
    BY <2>1, <2>3
<1>7. CASE EnsureAlertSchema(t)
  <2> DEFINE f == [F EXCEPT !.ready = TRUE]
  <2>1. /\ pc[t] = "ensure" /\ file' = [file EXCEPT ![Log(t)] = f]
        /\ pc' = [pc EXCEPT ![t] = "publish"] /\ UNCHANGED <<store, op, on>>
    BY <1>7 DEF EnsureAlertSchema
  <2>2. /\ DOMAIN f = DOMAIN NoFile /\ f.alerts = F.alerts /\ f.load = F.load
        /\ f.whole = F.whole /\ f.full = F.full /\ f.ready
    BY <2>1
  <2>3. F.full
    BY <2>1 DEF IInv, Progress
  <2> HIDE DEF f
  <2>4. QED
    BY <2>1, <2>2, <2>3
<1>8. QED
  BY <1>1, <1>2, <1>3, <1>4, <1>5, <1>6, <1>7
(* The rows a rule inserts point at the load that is there.                  *)
LEMMA RowsAreCurrent ==
  ASSUME NEW t, NEW n, NEW a \in Rows(t, n)
  PROVE  "load" \in DOMAIN a /\ a.load = file[Log(t)].load
BY DEF Rows

LEMMA RuleIInv ==
  ASSUME Copies = 1, IInv, NEW t \in Tasks, NEW n, At(t, "rule"),
         Write(t, [file[Log(t)] EXCEPT !.alerts = @ \cup Rows(t, n)], NextRule(t))
  PROVE  IInv'
<1> DEFINE F == file[Log(t)]
           f == [F EXCEPT !.alerts = @ \cup Rows(t, n)]
<1>1. /\ pc[t] = "rule" /\ file' = [file EXCEPT ![Log(t)] = f]
      /\ pc' = [pc EXCEPT ![t] = NextRule(t)] /\ UNCHANGED <<store, op, on>>
  BY DEF At, Write, Goto
<1>2. /\ DOMAIN f = DOMAIN NoFile /\ f.alerts = F.alerts \cup Rows(t, n)
      /\ f.load = F.load /\ f.whole = F.whole /\ f.full = F.full /\ f.ready = F.ready
  BY <1>1, OwnFile
<1>3. \A a \in f.alerts : "load" \in DOMAIN a /\ a.load = f.load
  BY <1>1, <1>2, OwnFile, RowsAreCurrent
<1>4. NextRule(t) \notin Loading /\ pc[t] \notin Loading
  BY <1>1 DEF NextRule, Loading
<1> HIDE DEF f
<1>5. QED
  BY <1>1, <1>2, <1>3, <1>4, HuntStep

LEMMA HuntIInv ==
  ASSUME Copies = 1, IInv, NEW t \in Tasks,
         HuntInit(t) \/ HuntReset(t) \/ RuleOk(t) \/ RuleFails(t) \/ RuleRejected(t)
           \/ TriageDone(t)
  PROVE  IInv'
<1> DEFINE F == file[Log(t)]
<1>1. CASE HuntInit(t)
  <2> DEFINE f == [F EXCEPT !.ready = TRUE]
  <2>1. /\ pc[t] = "init" /\ file' = [file EXCEPT ![Log(t)] = f]
        /\ pc' = [pc EXCEPT ![t] = "reset"] /\ UNCHANGED <<store, op, on>>
    BY <1>1 DEF HuntInit, At, Write, Goto
  <2>2. /\ DOMAIN f = DOMAIN NoFile /\ f.alerts = F.alerts /\ f.load = F.load
        /\ f.whole = F.whole /\ f.full = F.full /\ f.ready
    BY <2>1, OwnFile
  <2> HIDE DEF f
  <2>3. QED
    BY <2>1, <2>2, OwnFile, HuntStep DEF Loading
<1>2. CASE HuntReset(t)
  <2> DEFINE f == [F EXCEPT !.alerts = {}]
  <2>1. /\ pc[t] = "reset" /\ file' = [file EXCEPT ![Log(t)] = f]
        /\ pc' = [pc EXCEPT ![t] = "rule"] /\ UNCHANGED <<store, op, on>>
    BY <1>2 DEF HuntReset, At, Write, Goto
  <2>2. /\ DOMAIN f = DOMAIN NoFile /\ f.alerts = {} /\ f.load = F.load
        /\ f.whole = F.whole /\ f.full = F.full /\ f.ready = F.ready
    BY <2>1, OwnFile
  <2> HIDE DEF f
  <2>3. QED
    BY <2>1, <2>2, HuntStep DEF Loading
<1>3. CASE RuleOk(t)
  BY <1>3, RuleIInv DEF RuleOk
<1>4. CASE RuleFails(t)
  <2>1. PICK m : Write(t, [F EXCEPT !.alerts = @ \cup Rows(t, m)], NextRule(t))
    BY <1>4 DEF RuleFails
  <2>2. QED
    BY <1>4, <2>1, RuleIInv DEF RuleFails
<1>5. CASE RuleRejected(t)
  <2>1. /\ pc[t] = "rule" /\ pc' = [pc EXCEPT ![t] = NextRule(t)]
        /\ UNCHANGED <<file, store, op, on>>
    BY <1>5 DEF RuleRejected, At, Goto
  <2>2. NextRule(t) \notin Loading /\ pc[t] \notin Loading
    BY <2>1 DEF NextRule, Loading
  <2>3. QED
    BY <2>1, <2>2, OwnFile, HuntStep
<1>6. CASE TriageDone(t)
  <2> DEFINE marked == {[a EXCEPT !.triage = "fp"] : a \in Marked(t)}
             f == [F EXCEPT !.alerts = (@ \ Marked(t)) \cup marked]
  <2>1. /\ pc[t] = "update" /\ pc' = [pc EXCEPT ![t] = "idle"]
        /\ op' = [op EXCEPT ![t] = "none"] /\ on' = [on EXCEPT ![t] = None]
        /\ store' = store
        /\ file' = [file EXCEPT ![Log(t)].alerts = (@ \ Marked(t)) \cup marked]
    BY <1>6 DEF TriageDone, At, Return, Goto
  <2>2. file' = [file EXCEPT ![Log(t)] = f]
    BY <2>1
  <2>3. /\ DOMAIN f = DOMAIN NoFile /\ f.alerts = (F.alerts \ Marked(t)) \cup marked
        /\ f.load = F.load /\ f.whole = F.whole /\ f.full = F.full /\ f.ready = F.ready
    BY <2>1, OwnFile
  <2>4. \A a \in marked : "load" \in DOMAIN a /\ a.load = F.load
    BY <2>1, OwnFile DEF Marked
  <2>5. \A a \in f.alerts : "load" \in DOMAIN a /\ a.load = f.load
    BY <2>1, <2>3, <2>4, OwnFile
  <2> HIDE DEF f, marked
  <2>6. QED
    BY <2>1, <2>2, <2>3, <2>5, HuntStep DEF Loading
<1>7. QED
  BY <1>1, <1>2, <1>3, <1>4, <1>5, <1>6

LEMMA StepIInv == ASSUME Copies = 1, IInv, NEW t \in Tasks, Step(t) PROVE IInv'
<1>1. CASE IngestFails(t) \/ PublishFails(t) \/ HuntFails(t) \/ HuntReturns(t) \/ TriageFails(t)
  BY <1>1, ReturnStep DEF IngestFails, PublishFails, HuntFails, HuntReturns, TriageFails
<1>2. QED
  BY <1>1, LoadingIInv, HuntIInv, PublishStep DEF Step

LEMMA NextIInv == ASSUME Copies = 1, IInv, [Next]_vars PROVE IInv'
<1>1. ASSUME NEW t \in Tasks, NEW l \in Logs, Ingest(t, l) \/ OpenExisting(t, l)
      PROVE  IInv'
  BY <1>1, OpenStep DEF Ingest, OpenExisting
<1>2. ASSUME NEW t \in Tasks, Hunt(t) PROVE IInv'
  BY <1>2, IssueStep DEF Hunt, Loading
<1>3. ASSUME NEW t \in Tasks, NEW id, Triage(t, id) PROVE IInv'
  BY <1>3, IssueStep DEF Triage, Loading
<1>4. CASE UNCHANGED vars
  BY <1>4 DEF vars, IInv, Shape, Exclusive, Progress, Log, Promises, EvidenceCurrent,
              RunRecordsWhole, ActiveStoreReady
<1>5. QED
  BY <1>1, <1>2, <1>3, <1>4, StepIInv, ForgetStore DEF Next

(* Where a file can be open only once: no alert outlives the load whose      *)
(* events it was raised on, whatever fails or crashes between the statements *)
(* of a re-ingest.                                                           *)
THEOREM EvidenceIsCurrent == ASSUME Copies = 1 PROVE Spec => []EvidenceCurrent
<1>1. IInv /\ [Next]_vars => IInv'
  BY NextIInv
<1>2. IInv => EvidenceCurrent
  BY DEF IInv, Promises
<1>3. QED
  BY InitIInv, <1>1, <1>2, PTL DEF Spec

(* ... a file with a row in ingest_runs holds its whole source,              *)
THEOREM RunsRecordWholeLogs == ASSUME Copies = 1 PROVE Spec => []RunRecordsWhole
<1>1. IInv /\ [Next]_vars => IInv'
  BY NextIInv
<1>2. IInv => RunRecordsWhole
  BY DEF IInv, Promises
<1>3. QED
  BY InitIInv, <1>1, <1>2, PTL DEF Spec

(* ... the active log has its alert tables,                                  *)
THEOREM ActiveStoreIsReady == ASSUME Copies = 1 PROVE Spec => []ActiveStoreReady
<1>1. IInv /\ [Next]_vars => IInv'
  BY NextIInv
<1>2. IInv => ActiveStoreReady
  BY DEF IInv, Promises
<1>3. QED
  BY InitIInv, <1>1, <1>2, PTL DEF Spec

(* ... and log_ingest makes a log active only when its load is complete.     *)
THEOREM IngestPublishesWholeLogs == ASSUME Copies = 1 PROVE Spec => IngestPublishesWhole
<1>1. IInv /\ [Next]_vars => IInv'
  BY NextIInv
<1>2. IInv /\ [Next]_vars =>
        [\A t \in Tasks : op[t] = "ingest" /\ At(t, "publish") /\ store' = on[t]
           => file[Log(t)].full]_vars
  BY DEF IInv, Progress, At
<1>3. QED
  BY InitIInv, <1>1, <1>2, PTL DEF Spec, IngestPublishesWhole

-----------------------------------------------------------------------------
(* Types. A command that is not between two rules of a hunt has counted      *)
(* nothing, a hunt has its list of rules, and a rule that runs is in it.     *)
FileOK(f) ==
  /\ DOMAIN f = DOMAIN NoFile
  /\ {f.exists, f.ready, f.whole, f.full} \subseteq BOOLEAN
  /\ f.load \in Nat /\ f.hits \in Hits
  /\ f.alerts \subseteq AlertRow
LocOK == [list : Catalogs \cup {<<>>}, rule : Nat, next : Nat, total : Nat, errors : Nat,
          id : Nat]
Report == [done : BOOLEAN, clean : BOOLEAN, total : Nat, list : Catalogs \cup {<<>>}]
HuntSteps == {"init", "reset", "rule", "report"}
Fresh(c) == c.rule = 1 /\ c.next = 1 /\ c.total = 0 /\ c.errors = 0
Between(step, c) ==
  /\ step \notin {"rule", "report"} => Fresh(c)
  /\ step \in HuntSteps => c.list \in Catalogs
  /\ step = "rule" => c.rule \in DOMAIN c.list
  /\ step = "report" => c.rule = Len(c.list) + 1
Typed == TypeOK /\ DOMAIN file = Logs /\ \A t \in Tasks : Between(pc[t], loc[t])

LEMMA FileFields ==
  DOMAIN NoFile = {"exists", "ready", "whole", "full", "load", "hits", "alerts"}
BY DEF NoFile

LEMMA FilesOK == TypeOK => \A l \in Logs : FileOK(file[l])
BY DEF TypeOK, FileOK

(* A task that does something has a handle, and with it a log. *)
LEMMA BusyLog ==
  ASSUME TypeOK, NEW t \in Tasks, pc[t] # "idle"
  PROVE  on[t] \in Handles /\ Log(t) \in Logs /\ FileOK(file[Log(t)])
BY FilesOK DEF TypeOK, Handles, Log

LEMMA FreshLocals == Locals \in LocOK /\ Fresh(Locals)
BY DEF Locals, LocOK, Fresh

(* A list a hunt loads has a first rule. *)
LEMMA ListsHaveRules ==
  ASSUME NEW list \in Catalogs
  PROVE  /\ list \in Seq(Rules) /\ Len(list) \in Nat /\ 1 \in DOMAIN list
         /\ DOMAIN list = 1 .. Len(list) /\ \A p \in DOMAIN list : list[p] \in Rules
BY LogAssumption

LEMMA InitTyped == Init => Typed
<1> SUFFICES ASSUME Init PROVE Typed
  OBVIOUS
<1>1. \A l \in Logs : FileOK(file[l])
  <2>1. NoHits \in Hits
    BY LogAssumption DEF NoHits, Hits
  <2>2. FileOK(NoFile)
    BY <2>1 DEF FileOK, NoFile
  <2>3. QED
    BY <2>2 DEF Init
<1>2. \A t \in Tasks : Between(pc[t], loc[t]) /\ loc[t] = Locals
  BY FreshLocals DEF Init, Between, HuntSteps
<1>3. /\ op \in [Tasks -> Ops] /\ pc \in [Tasks -> Steps]
      /\ on \in [Tasks -> Handles \cup {None}]
      /\ \A t \in Tasks : (pc[t] = "idle") = (on[t] = None)
      /\ loc \in [Tasks -> LocOK]
  BY FreshLocals DEF Init, Ops, Steps
<1>4. /\ owner \in [Logs -> Tasks \cup {None}]
      /\ verdict \in [Logs -> Report] /\ crowded \in [Logs -> BOOLEAN]
      /\ issued \in 0 .. MaxCommands
  BY LogAssumption DEF Init, NoReport, Report
<1>5. QED
  BY <1>1, <1>2, <1>3, <1>4 DEF Init, Typed, TypeOK, FileOK, LocOK, Report

(* What a step of one command writes to its file and to its own locals.      *)
LEMMA FileTyped ==
  ASSUME Typed, NEW l \in Logs, NEW f, FileOK(f), file' = [file EXCEPT ![l] = f]
  PROVE  DOMAIN file' = Logs /\ \A k \in Logs : FileOK(file'[k])
BY FilesOK DEF Typed

LEMMA TaskTyped ==
  ASSUME Typed, NEW t \in Tasks, NEW step \in Steps, step # "idle",
         pc[t] # "idle", pc' = [pc EXCEPT ![t] = step], UNCHANGED <<op, on>>,
         NEW c \in LocOK, Between(step, c), loc' = [loc EXCEPT ![t] = c]
  PROVE  /\ op' \in [Tasks -> Ops] /\ pc' \in [Tasks -> Steps]
         /\ on' \in [Tasks -> Handles \cup {None}]
         /\ \A u \in Tasks : (pc'[u] = "idle") = (on'[u] = None)
         /\ loc' \in [Tasks -> LocOK]
         /\ \A u \in Tasks : Between(pc'[u], loc'[u])
<1>1. /\ op' \in [Tasks -> Ops] /\ pc' \in [Tasks -> Steps]
      /\ on' \in [Tasks -> Handles \cup {None}]
      /\ loc' \in [Tasks -> LocOK]
  BY DEF Typed, TypeOK, LocOK
<1>2. /\ pc'[t] = step /\ loc'[t] = c
      /\ \A u \in Tasks \ {t} : pc'[u] = pc[u] /\ loc'[u] = loc[u]
  BY DEF Typed, TypeOK
<1>3. \A u \in Tasks : Between(pc'[u], loc'[u])
  BY <1>2 DEF Typed
<1>4. \A u \in Tasks : (pc'[u] = "idle") = (on'[u] = None)
  BY <1>2 DEF Typed, TypeOK
<1>5. QED
  BY <1>1, <1>3, <1>4

LEMMA ReturnTyped ==
  ASSUME Typed, NEW t \in Tasks, Return(t)
  PROVE  /\ op' \in [Tasks -> Ops] /\ pc' \in [Tasks -> Steps]
         /\ on' \in [Tasks -> Handles \cup {None}]
         /\ \A u \in Tasks : (pc'[u] = "idle") = (on'[u] = None)
         /\ loc' \in [Tasks -> LocOK]
         /\ \A u \in Tasks : Between(pc'[u], loc'[u])
<1>1. /\ op' \in [Tasks -> Ops] /\ pc' \in [Tasks -> Steps]
      /\ on' \in [Tasks -> Handles \cup {None}]
  BY DEF Typed, TypeOK, Return, Goto, Ops, Steps
<1>2. loc' \in [Tasks -> LocOK]
  BY FreshLocals DEF Typed, TypeOK, LocOK, Return
<1>3. /\ pc'[t] = "idle" /\ loc'[t] = Locals /\ on'[t] = None
      /\ \A u \in Tasks \ {t} : pc'[u] = pc[u] /\ loc'[u] = loc[u] /\ on'[u] = on[u]
  BY DEF Typed, TypeOK, Return, Goto
<1>4. \A u \in Tasks : Between(pc'[u], loc'[u])
  BY <1>3, FreshLocals DEF Typed, Between, HuntSteps
<1>5. \A u \in Tasks : (pc'[u] = "idle") = (on'[u] = None)
  BY <1>3 DEF Typed, TypeOK
<1>6. QED
  BY <1>1, <1>2, <1>4, <1>5

(* The commands begin. *)
LEMMA IssueTyped ==
  ASSUME Typed, NEW t \in Tasks, NEW cmd \in Ops, NEW h \in Handles,
         NEW step \in Steps \ {"idle", "rule", "report"}, Issue(t, cmd, h, step),
         NEW c \in LocOK, loc' = [loc EXCEPT ![t] = c], Between(step, c)
  PROVE  /\ op' \in [Tasks -> Ops] /\ pc' \in [Tasks -> Steps]
         /\ on' \in [Tasks -> Handles \cup {None}]
         /\ \A u \in Tasks : (pc'[u] = "idle") = (on'[u] = None)
         /\ loc' \in [Tasks -> LocOK]
         /\ \A u \in Tasks : Between(pc'[u], loc'[u])
         /\ issued' \in 0 .. MaxCommands
<1>1. /\ op' \in [Tasks -> Ops] /\ pc' \in [Tasks -> Steps]
      /\ on' \in [Tasks -> Handles \cup {None}]
      /\ pc[t] = "idle" /\ pc'[t] = step /\ on'[t] = h
      /\ \A u \in Tasks \ {t} : pc'[u] = pc[u] /\ on'[u] = on[u]
  BY DEF Typed, TypeOK, Issue, Goto
<1>2. /\ loc'[t] = c /\ DOMAIN loc' = Tasks
      /\ \A u \in Tasks \ {t} : loc'[u] = loc[u]
  BY DEF Typed, TypeOK
<1>3. loc' \in [Tasks -> LocOK]
  BY <1>2 DEF Typed, TypeOK, LocOK
<1>4. \A u \in Tasks : Between(pc'[u], loc'[u])
  BY <1>1, <1>2 DEF Typed
<1>5. \A u \in Tasks : (pc'[u] = "idle") = (on'[u] = None)
  <2>1. step # "idle" /\ h # None
    BY NoneIsNoHandle
  <2>2. pc'[t] = step /\ on'[t] = h
    BY DEF Typed, TypeOK, Issue, Goto
  <2>3. \A u \in Tasks \ {t} : pc'[u] = pc[u] /\ on'[u] = on[u]
    BY DEF Typed, TypeOK, Issue, Goto
  <2>4. \A u \in Tasks : (pc[u] = "idle") = (on[u] = None)
    BY DEF Typed, TypeOK
  <2>5. QED
    BY <2>1, <2>2, <2>3, <2>4
<1>6. issued' \in 0 .. MaxCommands
  BY LogAssumption DEF Typed, TypeOK, Issue
<1>7. QED
  BY <1>1, <1>3, <1>4, <1>5, <1>6

LEMMA BeginTyped ==
  ASSUME Typed, NEW t \in Tasks,
         \/ \E l \in Logs : Ingest(t, l) \/ OpenExisting(t, l)
         \/ Hunt(t)
         \/ \E id \in AlertIds : Triage(t, id)
  PROVE  Typed'
<1>1. ASSUME NEW l \in Logs, NEW cmd \in {"ingest", "open"},
             NEW step \in {"drop alerts", "publish"}, OpenStore(t, cmd, l, step)
      PROVE  Typed'
  <2>1. PICK k \in 1 .. Copies :
          /\ Issue(t, cmd, <<l, k>>, step) /\ file' = [file EXCEPT ![l] = Opened(l)]
          /\ broken' = broken \ {<<l, k>>} /\ UNCHANGED <<store, loc, history>>
    BY <1>1 DEF OpenStore
  <2>2. FileOK(Opened(l))
    BY FilesOK, FileFields DEF Typed, FileOK, Opened
  <2>3. DOMAIN file' = Logs /\ \A j \in Logs : FileOK(file'[j])
    BY <2>1, <2>2, FileTyped
  <2>4. <<l, k>> \in Handles /\ cmd \in Ops /\ step \in Steps \ {"idle", "rule", "report"}
    BY DEF Handles, Ops, Steps
  <2>5. /\ pc[t] = "idle" /\ loc[t] \in LocOK /\ loc' = [loc EXCEPT ![t] = loc[t]]
        /\ Between(step, loc[t])
    <3>1. pc[t] = "idle" /\ loc[t] \in LocOK /\ loc' = [loc EXCEPT ![t] = loc[t]]
      BY <2>1 DEF Issue, Typed, TypeOK, LocOK
    <3>2. QED
      BY <3>1 DEF Typed, Between, HuntSteps
  <2>6. QED
    BY <2>1, <2>3, <2>4, <2>5, IssueTyped DEF Typed, TypeOK, FileOK, LocOK, history
<1>2. CASE \E l \in Logs : Ingest(t, l) \/ OpenExisting(t, l)
  BY <1>1, <1>2 DEF Ingest, OpenExisting
<1>3. CASE Hunt(t)
  <2>1. PICK list \in Catalogs : loc' = [loc EXCEPT ![t].list = list]
    BY <1>3 DEF Hunt
  <2> DEFINE c == [loc[t] EXCEPT !.list = list]
  <2>2. /\ Issue(t, "hunt", store, "init") /\ store \in Handles
        /\ UNCHANGED <<file, store, broken, history>>
    BY <1>3 DEF Hunt, Typed, TypeOK
  <2>3. pc[t] = "idle" /\ loc[t] \in LocOK /\ Fresh(loc[t])
    BY <2>2 DEF Issue, Typed, TypeOK, LocOK, Between
  <2>4. loc' = [loc EXCEPT ![t] = c] /\ c \in LocOK
    BY <2>1, <2>3 DEF LocOK
  <2>5. Between("init", c)
    BY <2>3 DEF LocOK, Fresh, Between
  <2>6. "hunt" \in Ops /\ "init" \in Steps \ {"idle", "rule", "report"}
    BY DEF Ops, Steps
  <2> HIDE DEF c
  <2>7. QED
    BY <2>2, <2>4, <2>5, <2>6, IssueTyped DEF Typed, TypeOK, LocOK, history
<1>4. ASSUME NEW id \in AlertIds, Triage(t, id) PROVE Typed'
  <2> DEFINE c == [loc[t] EXCEPT !.id = id]
  <2>1. /\ Issue(t, "triage", store, "update") /\ store \in Handles
        /\ loc' = [loc EXCEPT ![t].id = id] /\ UNCHANGED <<file, store, broken, history>>
    BY <1>4 DEF Triage, Typed, TypeOK
  <2>2. pc[t] = "idle" /\ loc[t] \in LocOK /\ Fresh(loc[t]) /\ id \in Nat
    BY <2>1, LogAssumption DEF Issue, Typed, TypeOK, LocOK, Between
  <2>3. loc' = [loc EXCEPT ![t] = c] /\ c \in LocOK
    BY <2>1, <2>2 DEF LocOK
  <2>4. Between("update", c)
    BY <2>2 DEF LocOK, Fresh, Between, HuntSteps
  <2>5. "triage" \in Ops /\ "update" \in Steps \ {"idle", "rule", "report"}
    BY DEF Ops, Steps
  <2> HIDE DEF c
  <2>6. QED
    BY <2>1, <2>3, <2>4, <2>5, IssueTyped DEF Typed, TypeOK, LocOK, history
<1>5. QED
  BY <1>2, <1>3, <1>4

(* The history variables. *)
OwnersTyped ==
  /\ owner \in [Logs -> Tasks \cup {None}]
  /\ verdict \in [Logs -> Report]
  /\ crowded \in [Logs -> BOOLEAN]

(* A command that ends and leaves the files alone. *)
LEMMA EndTyped ==
  ASSUME Typed, NEW t \in Tasks,
         \/ IngestFails(t) \/ Publish(t) \/ PublishFails(t) \/ HuntFails(t)
         \/ HuntReturns(t) \/ TriageFails(t)
  PROVE  Typed'
<1>1. /\ Return(t) /\ file' = file /\ broken' = broken /\ issued' = issued
      /\ store' \in Handles \cup {None}
  BY DEF Typed, TypeOK, IngestFails, Publish, PublishFails, HuntFails, HuntReturns,
         TriageFails
<1>2. OwnersTyped'
  <2>1. CASE HuntReturns(t)
    <3>1. [done |-> TRUE, clean |-> loc[t].errors = 0, total |-> loc[t].total,
           list |-> loc[t].list] \in Report
      BY DEF Typed, TypeOK, Report
    <3>2. QED
      BY <2>1, <3>1 DEF OwnersTyped, Typed, TypeOK, HuntReturns, Report
  <2>2. CASE ~HuntReturns(t)
    BY <2>2 DEF OwnersTyped, Typed, TypeOK, IngestFails, Publish, PublishFails, HuntFails,
                TriageFails, history, Report
  <2>3. QED
    BY <2>1, <2>2
<1>3. QED
  BY <1>1, <1>2, ReturnTyped DEF OwnersTyped, Typed, TypeOK, LocOK, Report

(* A step of a load changes the file and nothing of what the task knows.     *)
LEMMA WriteTyped ==
  ASSUME Typed, NEW t \in Tasks, pc[t] \notin {"idle", "rule", "report"},
         NEW f, FileOK(f), NEW step \in Steps \ {"idle", "report"}, Write(t, f, step),
         step \in HuntSteps => pc[t] \in HuntSteps, loc' = loc, OwnersTyped'
  PROVE  Typed'
<1>1. Log(t) \in Logs /\ loc[t] \in LocOK
  BY BusyLog DEF Typed, TypeOK, LocOK
<1>2. Between(step, loc[t])
  <2>1. Fresh(loc[t]) /\ (step \in HuntSteps => loc[t].list \in Catalogs)
    BY DEF Typed, Between
  <2>2. step = "rule" => loc[t].rule \in DOMAIN loc[t].list
    BY <2>1, ListsHaveRules DEF Fresh, HuntSteps
  <2>3. QED
    BY <2>1, <2>2 DEF Between
<1>3. loc' = [loc EXCEPT ![t] = loc[t]]
  BY DEF Typed, TypeOK
<1>4. DOMAIN file' = Logs /\ \A k \in Logs : FileOK(file'[k])
  BY <1>1, FileTyped DEF Write
<1>5. UNCHANGED <<store, broken, issued>> /\ pc' = [pc EXCEPT ![t] = step] /\ UNCHANGED <<op, on>>
  BY DEF Write, Goto
<1>6. QED
  BY <1>1, <1>2, <1>3, <1>4, <1>5, TaskTyped
     DEF Typed, TypeOK, FileOK, LocOK, OwnersTyped, Report

LEMMA OwnersStayTyped ==
  ASSUME Typed, NEW t \in Tasks, Log(t) \in Logs,
         Forget(Log(t)) \/ UNCHANGED history \/ HuntReset(t)
  PROVE  OwnersTyped'
<1> USE DEF Typed, TypeOK, OwnersTyped, NoReport, Report
<1>1. CASE Forget(Log(t))
  BY <1>1 DEF Forget
<1>2. CASE UNCHANGED history
  BY <1>2 DEF history
<1>3. CASE HuntReset(t)
  <2>1. OtherRuns(t) \in BOOLEAN
    BY DEF OtherRuns
  <2>2. QED
    BY <1>3, <2>1 DEF HuntReset
<1>4. QED
  BY <1>1, <1>2, <1>3

LEMMA LoadTyped ==
  ASSUME Typed, NEW t \in Tasks,
         \/ DropAlerts(t) \/ DropRuns(t) \/ DropEvents(t) \/ Flush(t) \/ LastFlush(t)
         \/ RecordRun(t) \/ EnsureAlertSchema(t) \/ HuntInit(t) \/ HuntReset(t)
  PROVE  Typed'
<1> DEFINE F == file[Log(t)]
<1>1. FileOK(F) /\ Log(t) \in Logs /\ pc[t] \notin {"idle", "rule", "report"} /\ loc' = loc
  BY BusyLog DEF Typed, DropAlerts, DropRuns, DropEvents, Flush, LastFlush, RecordRun,
                 EnsureAlertSchema, HuntInit, HuntReset, At
<1>2. OwnersTyped'
  BY <1>1, OwnersStayTyped DEF DropAlerts, DropRuns, DropEvents, Flush, LastFlush, RecordRun,
                               EnsureAlertSchema, HuntInit
<1>3. /\ {"drop runs", "drop events", "append", "record", "ensure", "publish", "reset", "rule"}
           \subseteq Steps \ {"idle", "report"}
      /\ {"drop runs", "drop events", "append", "record", "ensure", "publish"}
           \cap HuntSteps = {}
  BY DEF Steps, HuntSteps
<1> USE FileFields
<1>4. CASE DropAlerts(t)
  <2>1. FileOK([F EXCEPT !.alerts = {}, !.ready = FALSE])
    BY <1>1 DEF FileOK
  <2>2. QED
    BY <1>1, <1>2, <1>3, <1>4, <2>1, WriteTyped DEF DropAlerts
<1>5. CASE DropRuns(t)
  <2>1. FileOK([F EXCEPT !.whole = FALSE])
    BY <1>1 DEF FileOK
  <2>2. QED
    BY <1>1, <1>2, <1>3, <1>5, <2>1, WriteTyped DEF DropRuns
<1>6. CASE DropEvents(t)
  <2>1. NoHits \in Hits
    BY LogAssumption DEF NoHits, Hits
  <2>2. FileOK([F EXCEPT !.load = @ + 1, !.hits = NoHits, !.full = FALSE])
    BY <1>1, <2>1 DEF FileOK
  <2>3. QED
    BY <1>1, <1>2, <1>3, <1>6, <2>2, WriteTyped DEF DropEvents
<1>7. CASE Flush(t)
  <2>1. PICK h \in Hits : Write(t, [F EXCEPT !.hits = h], "append")
    BY <1>7 DEF Flush
  <2>2. FileOK([F EXCEPT !.hits = h])
    BY <1>1 DEF FileOK
  <2>3. QED
    BY <1>1, <1>2, <1>3, <2>1, <2>2, WriteTyped
<1>8. CASE LastFlush(t)
  <2>1. FileOK([F EXCEPT !.full = TRUE])
    BY <1>1 DEF FileOK
  <2>2. QED
    BY <1>1, <1>2, <1>3, <1>8, <2>1, WriteTyped DEF LastFlush
<1>9. CASE RecordRun(t)
  <2>1. FileOK([F EXCEPT !.whole = TRUE])
    BY <1>1 DEF FileOK
  <2>2. QED
    BY <1>1, <1>2, <1>3, <1>9, <2>1, WriteTyped DEF RecordRun
<1>10. CASE EnsureAlertSchema(t) \/ HuntInit(t)
  <2>1. FileOK([F EXCEPT !.ready = TRUE])
    BY <1>1 DEF FileOK
  <2>2. CASE EnsureAlertSchema(t)
    BY <1>1, <1>2, <1>3, <2>1, <2>2, WriteTyped DEF EnsureAlertSchema
  <2>3. CASE HuntInit(t)
    <3>1. pc[t] \in HuntSteps
      BY <2>3 DEF HuntInit, At, HuntSteps
    <3>2. QED
      BY <1>1, <1>2, <1>3, <2>1, <2>3, <3>1, WriteTyped DEF HuntInit
  <2>4. QED
    BY <1>10, <2>2, <2>3
<1>11. CASE HuntReset(t)
  <2>1. FileOK([F EXCEPT !.alerts = {}])
    BY <1>1 DEF FileOK
  <2>2. pc[t] \in HuntSteps
    BY <1>11 DEF HuntReset, At, HuntSteps
  <2>3. QED
    BY <1>1, <1>2, <1>3, <1>11, <2>1, <2>2, WriteTyped DEF HuntReset
<1>12. QED
  BY <1>4, <1>5, <1>6, <1>7, <1>8, <1>9, <1>10, <1>11

(* A rule of the hunt's list runs. *)
LEMMA RunningRule ==
  ASSUME Typed, NEW t \in Tasks, At(t, "rule")
  PROVE  /\ loc[t].list \in Catalogs /\ loc[t].rule \in DOMAIN loc[t].list
         /\ Running(t) \in Rules /\ Log(t) \in Logs
         /\ file[Log(t)].hits \in Hits /\ Found(t) \in Nat
         /\ Found(t) = file[Log(t)].hits[Running(t)]
<1>1. /\ loc[t].list \in Catalogs /\ loc[t].rule \in DOMAIN loc[t].list
      /\ Log(t) \in Logs /\ file[Log(t)].hits \in Hits
  BY BusyLog DEF Typed, Between, HuntSteps, At, FileOK
<1>2. Running(t) \in Rules
  BY <1>1, ListsHaveRules DEF Running
<1>3. QED
  BY <1>1, <1>2, LogAssumption DEF Found, Hits

(* A rule inserts rows of its own, and the next one follows.                 *)
LEMMA RowsTyped ==
  ASSUME Typed, NEW t \in Tasks, At(t, "rule"), NEW n \in Nat
  PROVE  FileOK([file[Log(t)] EXCEPT !.alerts = @ \cup Rows(t, n)])
<1>1. /\ FileOK(file[Log(t)]) /\ loc[t].next \in Nat /\ Running(t) \in Rules
  BY BusyLog, RunningRule DEF Typed, TypeOK, LocOK, At
<1>2. Rows(t, n) \subseteq AlertRow
  BY <1>1 DEF Rows, AlertRow, FileOK
<1>3. QED
  BY <1>1, <1>2, FileFields DEF FileOK

LEMMA NextRuleTyped ==
  ASSUME Typed, NEW t \in Tasks, At(t, "rule"), NEW c \in LocOK, c.rule = loc[t].rule + 1,
         c.list = loc[t].list
  PROVE  NextRule(t) \in Steps /\ NextRule(t) # "idle" /\ Between(NextRule(t), c)
<1>1. /\ loc[t].list \in Catalogs /\ loc[t].rule \in 1 .. Len(loc[t].list)
      /\ Len(loc[t].list) \in Nat /\ DOMAIN loc[t].list = 1 .. Len(loc[t].list)
  BY RunningRule, ListsHaveRules
<1>2. QED
  BY <1>1 DEF NextRule, Steps, Between

(* What a rule that took d ids and raised e alerts leaves of the locals.     *)
After(c, d, e, failed) ==
  [list |-> c.list, rule |-> c.rule + 1, next |-> c.next + d, total |-> c.total + e,
   errors |-> c.errors + failed, id |-> c.id]

LEMMA AfterType ==
  ASSUME NEW c \in LocOK, NEW d \in Nat, NEW e \in Nat, NEW failed \in Nat
  PROVE  After(c, d, e, failed) \in LocOK
BY DEF LocOK, After

LEMMA RuleLocals ==
  ASSUME Typed, NEW t \in Tasks, NEW n \in Int
  PROVE  /\ [loc EXCEPT ![t].rule = @ + 1, ![t].next = @ + n, ![t].total = @ + n]
                = [loc EXCEPT ![t] = After(loc[t], n, n, 0)]
         /\ [loc EXCEPT ![t].rule = @ + 1, ![t].next = @ + n, ![t].errors = @ + 1]
                = [loc EXCEPT ![t] = After(loc[t], n, 0, 1)]
         /\ [loc EXCEPT ![t].rule = @ + 1, ![t].errors = @ + 1]
                = [loc EXCEPT ![t] = After(loc[t], 0, 0, 1)]
<1> DEFINE fields == {"list", "rule", "next", "total", "errors", "id"}
           c == loc[t]
           x == [c EXCEPT !.rule = @ + 1, !.next = @ + n, !.total = @ + n]
           y == [c EXCEPT !.rule = @ + 1, !.next = @ + n, !.errors = @ + 1]
           z == [c EXCEPT !.rule = @ + 1, !.errors = @ + 1]
           ax == After(c, n, n, 0)
           ay == After(c, n, 0, 1)
           az == After(c, 0, 0, 1)
<1>1. loc[t] \in LocOK
  BY DEF Typed, TypeOK, LocOK
<1>2. DOMAIN c = fields /\ \A k \in fields \ {"list"} : c[k] + 0 = c[k]
  BY <1>1 DEF LocOK
<1>3. /\ x = [k \in fields |-> x[k]] /\ y = [k \in fields |-> y[k]]
      /\ z = [k \in fields |-> z[k]]
  BY <1>2
<1>4. /\ ax = [k \in fields |-> ax[k]] /\ ay = [k \in fields |-> ay[k]]
      /\ az = [k \in fields |-> az[k]]
  BY DEF After
<1>5. \A k \in fields : x[k] = ax[k] /\ y[k] = ay[k] /\ z[k] = az[k]
  <2>1. /\ x.list = ax.list /\ x.rule = ax.rule /\ x.next = ax.next
        /\ x.total = ax.total /\ x.errors = ax.errors /\ x.id = ax.id
    BY <1>2 DEF After
  <2>2. /\ y.list = ay.list /\ y.rule = ay.rule /\ y.next = ay.next
        /\ y.total = ay.total /\ y.errors = ay.errors /\ y.id = ay.id
    BY <1>2 DEF After
  <2>3. /\ z.list = az.list /\ z.rule = az.rule /\ z.next = az.next
        /\ z.total = az.total /\ z.errors = az.errors /\ z.id = az.id
    BY <1>2 DEF After
  <2> HIDE DEF x, y, z, ax, ay, az
  <2>4. QED
    BY <2>1, <2>2, <2>3
<1> HIDE DEF fields, x, y, z, ax, ay, az
<1>6. x = ax /\ y = ay /\ z = az
  BY <1>3, <1>4, <1>5
<1> USE DEF x, y, z, ax, ay, az
<1>7. /\ [loc EXCEPT ![t].rule = @ + 1, ![t].next = @ + n, ![t].total = @ + n]
                = [loc EXCEPT ![t] = x]
      /\ [loc EXCEPT ![t].rule = @ + 1, ![t].next = @ + n, ![t].errors = @ + 1]
                = [loc EXCEPT ![t] = y]
      /\ [loc EXCEPT ![t].rule = @ + 1, ![t].errors = @ + 1] = [loc EXCEPT ![t] = z]
  OBVIOUS
<1> HIDE DEF x, y, z, ax, ay, az
<1>8. QED
  BY <1>6, <1>7 DEF ax, ay, az

LEMMA RuleTyped ==
  ASSUME Typed, NEW t \in Tasks, RuleOk(t) \/ RuleFails(t) \/ RuleRejected(t)
  PROVE  Typed'
<1>1. /\ At(t, "rule") /\ pc[t] # "idle" /\ loc[t] \in LocOK
      /\ Log(t) \in Logs /\ Found(t) \in Nat
  <2>1. At(t, "rule") /\ pc[t] # "idle"
    BY DEF RuleOk, RuleFails, RuleRejected, At
  <2>2. loc[t] \in LocOK
    BY DEF Typed, TypeOK, LocOK
  <2>3. QED
    BY <2>1, <2>2, RunningRule
<1>2. PICK c \in LocOK : /\ c.rule = loc[t].rule + 1 /\ c.list = loc[t].list
                        /\ loc' = [loc EXCEPT ![t] = c]
  <2>1. CASE RuleOk(t)
    <3>1. Found(t) \in Int
      BY <1>1
    <3>2. loc' = [loc EXCEPT ![t] = After(loc[t], Found(t), Found(t), 0)]
      BY <2>1, <3>1, RuleLocals DEF RuleOk
    <3>3. After(loc[t], Found(t), Found(t), 0) \in LocOK
      BY <1>1, AfterType
    <3>4. QED
      BY <3>2, <3>3 DEF After
  <2>2. CASE RuleFails(t)
    <3>1. PICK n \in 1 .. Found(t) :
            loc' = [loc EXCEPT ![t].rule = @ + 1, ![t].next = @ + n, ![t].errors = @ + 1]
      BY <2>2 DEF RuleFails
    <3>2. n \in Nat /\ n \in Int
      BY <1>1
    <3>3. loc' = [loc EXCEPT ![t] = After(loc[t], n, 0, 1)]
      BY <3>1, <3>2, RuleLocals
    <3>4. After(loc[t], n, 0, 1) \in LocOK
      BY <1>1, <3>2, AfterType
    <3>5. QED
      BY <3>3, <3>4 DEF After
  <2>3. CASE RuleRejected(t)
    <3>1. [loc EXCEPT ![t].rule = @ + 1, ![t].errors = @ + 1]
            = [loc EXCEPT ![t] = After(loc[t], 0, 0, 1)]
      BY 0 \in Int, RuleLocals, Zenon
    <3>4. loc' = [loc EXCEPT ![t] = After(loc[t], 0, 0, 1)]
      BY <2>3, <3>1, Zenon DEF RuleRejected
    <3>2. After(loc[t], 0, 0, 1) \in LocOK
      BY <1>1, AfterType
    <3>3. QED
      BY <3>4, <3>2 DEF After
  <2>4. QED
    BY <2>1, <2>2, <2>3
<1>3. /\ DOMAIN file' = Logs /\ \A k \in Logs : FileOK(file'[k])
      /\ pc' = [pc EXCEPT ![t] = NextRule(t)] /\ UNCHANGED <<store, op, on, issued, history>>
      /\ broken' \subseteq Handles
  <2>1. CASE RuleOk(t)
    BY <1>1, <2>1, RowsTyped, FileTyped DEF RuleOk, Write, Goto, Typed, TypeOK
  <2>2. CASE RuleFails(t)
    <3>1. PICK n \in 1 .. Found(t) : \E m \in {n - 1, n} :
            Write(t, [file[Log(t)] EXCEPT !.alerts = @ \cup Rows(t, m)], NextRule(t))
      BY <2>2 DEF RuleFails
    <3>2. PICK m \in {n - 1, n} :
            Write(t, [file[Log(t)] EXCEPT !.alerts = @ \cup Rows(t, m)], NextRule(t))
      BY <3>1
    <3>3. m \in Nat
      BY <1>1, <3>1
    <3>4. QED
      BY <1>1, <2>2, <3>2, <3>3, RowsTyped, FileTyped DEF RuleFails, Write, Goto, Typed, TypeOK
  <2>3. CASE RuleRejected(t)
    BY <1>1, <2>3, BusyLog, FilesOK DEF RuleRejected, Goto, Typed, TypeOK
  <2>4. QED
    BY <2>1, <2>2, <2>3
<1>4. QED
  BY <1>1, <1>2, <1>3, NextRuleTyped, TaskTyped DEF Typed, TypeOK, FileOK, LocOK, Report, history

(* Triage changes a field of rows that are there.                            *)
LEMMA TriageTyped ==
  ASSUME Typed, NEW t \in Tasks, TriageDone(t)
  PROVE  Typed'
<1> DEFINE F == file[Log(t)]
           marked == {[a EXCEPT !.triage = "fp"] : a \in Marked(t)}
           f == [F EXCEPT !.alerts = (@ \ Marked(t)) \cup marked]
<1>1. Log(t) \in Logs /\ FileOK(F)
  BY BusyLog DEF Typed, TriageDone, At
<1>2. marked \subseteq AlertRow
  BY <1>1 DEF FileOK, Marked, AlertRow
<1>3. FileOK(f)
  BY <1>1, <1>2, FileFields DEF FileOK
<1>4. file' = [file EXCEPT ![Log(t)] = f]
  BY <1>1 DEF TriageDone, Typed
<1>5. DOMAIN file' = Logs /\ \A k \in Logs : FileOK(file'[k])
  BY <1>1, <1>3, <1>4, FileTyped
<1>6. Return(t) /\ UNCHANGED <<store, broken, issued, owner, verdict, crowded>>
  BY DEF TriageDone, history
<1>7. QED
  BY <1>5, <1>6, ReturnTyped DEF Typed, TypeOK, FileOK, LocOK

LEMMA NextTyped == ASSUME Typed, [Next]_vars PROVE Typed'
<1>1. CASE Close
  BY <1>1, LogAssumption DEF Close, history, Typed, TypeOK
<1>2. CASE Restart
  BY <1>2, FreshLocals DEF Restart, Typed, TypeOK, LocOK, Between, HuntSteps, Ops, Steps
<1>3. CASE UNCHANGED vars
  BY <1>3 DEF vars, Typed, TypeOK
<1>4. ASSUME NEW t \in Tasks, Step(t) PROVE Typed'
  BY <1>4, EndTyped, LoadTyped, RuleTyped, TriageTyped DEF Step
<1>5. QED
  BY <1>1, <1>2, <1>3, <1>4, BeginTyped DEF Next

(* Every variable keeps its type, however often a file may be open at once.  *)
THEOREM SessionTypeCorrect == Spec => []TypeOK
<1>1. Typed /\ [Next]_vars => Typed'
  BY NextTyped
<1>2. Typed => TypeOK
  BY DEF Typed
<1>3. QED
  BY InitTyped, <1>1, <1>2, PTL DEF Spec

-----------------------------------------------------------------------------
(* What a hunt without an error leaves. An alert table has one row per id.   *)
(* It covers the rules before the n-th of a list, with the ids below k, if   *)
(* all of these ids are taken and their rows are, one for one, the matches   *)
(* of those rules.                                                           *)
Marks(T) == {<<a.rule, a.nth>> : a \in T}
Below(T, k) == {a \in T : a.id < k}
Keyed(T) == \A a \in T : 1 <= a.id /\ \A b \in T : a.id = b.id => a = b
Done(list, h, n) ==
  UNION {{list[p]} \X (1 .. h[list[p]]) : p \in {q \in DOMAIN list : q < n}}
Covers(T, h, list, n, k) ==
  /\ \A id \in 1 .. (k - 1) : \E a \in T : a.id = id
  /\ Marks(Below(T, k)) = Done(list, h, n)

(* As many rows as ids. *)
LEMMA AsManyRows ==
  ASSUME NEW T \in SUBSET AlertRow, Keyed(T), NEW N \in Nat,
         \A id \in 1 .. N : \E a \in T : a.id = id
  PROVE  Cardinality({a \in T : a.id <= N}) = N
<1> DEFINE S == {a \in T : a.id <= N}
           f == [a \in S |-> a.id]
<1>1. f \in [S -> 1 .. N]
  BY DEF Keyed, AlertRow
<1>2. \A a, b \in S : f[a] = f[b] => a = b
  BY DEF Keyed
<1>3. \A id \in 1 .. N : \E a \in S : f[a] = id
  <2> TAKE id \in 1 .. N
  <2>1. PICK a \in T : a.id = id
    OBVIOUS
  <2>2. a \in S /\ f[a] = id
    BY <2>1
  <2>3. QED
    BY <2>2
<1> HIDE DEF f, S
<1>4. f \in Bijection(S, 1 .. N)
  BY <1>1, <1>2, <1>3 DEF Bijection, Injection, Surjection, IsInjective
<1>5. IsFiniteSet(1 .. N) /\ Cardinality(1 .. N) = N
  BY FS_Interval, SMTT(30)
<1>6. ExistsBijection(1 .. N, S)
  BY <1>4, Fun_ExistsBijSymmetric DEF ExistsBijection
<1>7. Cardinality(1 .. N) = Cardinality(S)
  BY <1>5, <1>6, FS_Bijection
<1>8. QED
  BY <1>5, <1>7 DEF S

(* Rows with ids of their own leave what is covered.                         *)
LEMMA CoversStays ==
  ASSUME NEW T \in SUBSET AlertRow, NEW R \in SUBSET AlertRow, NEW k \in Nat,
         NEW h, NEW list, NEW n, Covers(T, h, list, n, k),
         \A b \in R : 1 <= b.id /\ \A a \in T : a.id # b.id
  PROVE  Covers(T \cup R, h, list, n, k)
<1>1. \A b \in R : ~(b.id < k)
  <2>1. SUFFICES ASSUME NEW b \in R, b.id < k PROVE FALSE
    OBVIOUS
  <2>2. b.id \in 1 .. (k - 1)
    BY <2>1 DEF AlertRow
  <2>3. PICK a \in T : a.id = b.id
    BY <2>2 DEF Covers
  <2>4. QED
    BY <2>3
<1>2. Below(T \cup R, k) = Below(T, k)
  BY <1>1 DEF Below
<1>3. QED
  BY <1>2 DEF Covers

(* The rows of one rule: their fields, and that they join a keyed table.     *)
LEMMA RowFields ==
  ASSUME Typed, NEW t \in Tasks, At(t, "rule"), NEW n \in Nat
  PROVE  /\ Rows(t, n) \in SUBSET AlertRow
         /\ \A a \in Rows(t, n) :
              /\ a.id \in loc[t].next .. (loc[t].next + n - 1) /\ a.rule = Running(t)
              /\ a.nth = a.id - loc[t].next + 1
         /\ \A i \in 1 .. n : \E a \in Rows(t, n) : a.id = loc[t].next + i - 1
         /\ \A a, b \in Rows(t, n) : a.id = b.id => a = b
<1> DEFINE row(i) == [id |-> loc[t].next + i - 1, rule |-> Running(t), nth |-> i,
                      load |-> file[Log(t)].load, triage |-> "new"]
<1>1. loc[t].next \in Nat /\ Running(t) \in Rules /\ file[Log(t)].load \in Nat
  BY RunningRule, BusyLog DEF Typed, TypeOK, FileOK, At
<1>2. Rows(t, n) = {row(i) : i \in 1 .. n}
  BY DEF Rows
<1>3. \A i \in 1 .. n : /\ row(i) \in AlertRow /\ row(i).id = loc[t].next + i - 1
                        /\ row(i).rule = Running(t) /\ row(i).nth = i
  BY <1>1 DEF AlertRow
<1> HIDE DEF row
<1>4. \A a \in Rows(t, n) : \E i \in 1 .. n : a = row(i)
  BY <1>2
<1>5. Rows(t, n) \in SUBSET AlertRow
  BY <1>3, <1>4
<1>6. ASSUME NEW a \in Rows(t, n)
      PROVE  /\ a.id \in loc[t].next .. (loc[t].next + n - 1) /\ a.rule = Running(t)
             /\ a.nth = a.id - loc[t].next + 1
  BY <1>1, <1>3, <1>4
<1>7. \A i \in 1 .. n : \E a \in Rows(t, n) : a.id = loc[t].next + i - 1
  BY <1>2, <1>3
<1>8. ASSUME NEW a \in Rows(t, n), NEW b \in Rows(t, n), a.id = b.id PROVE a = b
  <2>1. PICK i \in 1 .. n : a = row(i)
    BY <1>4
  <2>2. PICK j \in 1 .. n : b = row(j)
    BY <1>4
  <2>3. i = j
    BY <1>1, <1>3, <1>8, <2>1, <2>2
  <2>4. QED
    BY <2>1, <2>2, <2>3
<1>9. QED
  BY <1>5, <1>6, <1>7, <1>8

(* A rule that stores every match covers one rule more.                      *)
LEMMA RowsCover ==
  ASSUME Typed, NEW t \in Tasks, At(t, "rule"), NEW T \in SUBSET AlertRow,
         Covers(T, file[Log(t)].hits, loc[t].list, loc[t].rule, loc[t].next),
         1 <= loc[t].next, \A b \in Rows(t, Found(t)) : \A a \in T : a.id # b.id
  PROVE  Covers(T \cup Rows(t, Found(t)), file[Log(t)].hits, loc[t].list,
                loc[t].rule + 1, loc[t].next + Found(t))
<1> DEFINE h == file[Log(t)].hits
           n == Found(t)
           k == loc[t].next
           p == loc[t].rule
           L == loc[t].list
           R == Rows(t, n)
<1>1. /\ n \in Nat /\ k \in Nat /\ p \in Nat /\ p \in DOMAIN L /\ DOMAIN L \subseteq Nat
      /\ n = h[L[p]] /\ Running(t) = L[p]
  <2>1. loc[t].list \in Catalogs /\ p \in DOMAIN loc[t].list /\ n \in Nat
    BY RunningRule
  <2>2. DOMAIN loc[t].list \subseteq Nat
    BY <2>1, ListsHaveRules
  <2>3. k \in Nat
    BY DEF Typed, TypeOK
  <2>4. n = h[L[p]] /\ Running(t) = L[p]
    BY DEF Running, Found
  <2>5. QED
    BY <2>1, <2>2, <2>3, <2>4
<1>2. /\ R \in SUBSET AlertRow
      /\ \A a \in R : a.id \in k .. (k + n - 1) /\ a.rule = L[p] /\ a.nth = a.id - k + 1
      /\ \A i \in 1 .. n : \E a \in R : a.id = k + i - 1
  BY <1>1, RowFields
<1>3. \A b \in R : \A a \in T : a.id # b.id
  OBVIOUS
<1>4. /\ \A id \in 1 .. (k - 1) : \E a \in T : a.id = id
      /\ Marks(Below(T, k)) = Done(L, h, p)
  BY DEF Covers
<1> HIDE DEF h, n, k, p, L, R
<1>5. \A id \in 1 .. (k + n - 1) : \E a \in T \cup R : a.id = id
  <2> TAKE id \in 1 .. (k + n - 1)
  <2>1. CASE id \in 1 .. (k - 1)
    BY <1>4, <2>1
  <2>2. CASE id \notin 1 .. (k - 1)
    <3>1. id - k + 1 \in 1 .. n /\ id = k + (id - k + 1) - 1
      BY <1>1, <2>2
    <3>2. QED
      BY <1>2, <3>1
  <2>3. QED
    BY <2>1, <2>2
<1>6. Below(T \cup R, k + n) = Below(T, k) \cup R
  <2>1. \A a \in R : a.id < k + n
    BY <1>1, <1>2
  <2>2. ASSUME NEW a \in T, a.id < k + n PROVE a.id < k
    <3>1. SUFFICES ASSUME ~(a.id < k) PROVE FALSE
      OBVIOUS
    <3>2. a.id \in Nat
      BY DEF AlertRow
    <3>3. a.id - k + 1 \in 1 .. n /\ a.id = k + (a.id - k + 1) - 1
      BY <1>1, <2>2, <3>1, <3>2
    <3>4. PICK b \in R : b.id = k + (a.id - k + 1) - 1
      BY <1>2, <3>3
    <3>5. QED
      BY <1>3, <3>3, <3>4
  <2>3. \A a \in T : a.id < k => a.id < k + n
    BY <1>1 DEF AlertRow
  <2>4. QED
    BY <2>1, <2>2, <2>3 DEF Below
<1>7. Marks(R) = {L[p]} \X (1 .. n)
  <2>1. \A a \in R : a.rule = L[p] /\ a.nth \in 1 .. n
    BY <1>1, <1>2
  <2>2. ASSUME NEW i \in 1 .. n PROVE \E a \in R : a.rule = L[p] /\ a.nth = i
    <3>1. PICK a \in R : a.id = k + i - 1
      BY <1>2
    <3>2. a.nth = (k + i - 1) - k + 1
      BY <1>2, <3>1
    <3>3. QED
      BY <1>1, <1>2, <3>2
  <2>3. Marks(R) \subseteq {L[p]} \X (1 .. n)
    BY <2>1 DEF Marks
  <2>4. {L[p]} \X (1 .. n) \subseteq Marks(R)
    BY <2>2 DEF Marks
  <2>5. QED
    BY <2>3, <2>4
<1>8. Done(L, h, p + 1) = Done(L, h, p) \cup ({L[p]} \X (1 .. n))
  <2>1. {q \in DOMAIN L : q < p + 1} = {q \in DOMAIN L : q < p} \cup {p}
    BY <1>1
  <2>2. QED
    BY <1>1, <2>1 DEF Done
<1>9. Marks(Below(T, k) \cup R) = Marks(Below(T, k)) \cup Marks(R)
  BY DEF Marks
<1>10. Covers(T \cup R, h, L, p + 1, k + n)
  <2>1. Marks(Below(T \cup R, k + n)) = Done(L, h, p + 1)
    BY <1>4, <1>6, <1>7, <1>8, <1>9
  <2>2. QED
    BY <1>1, <1>5, <2>1 DEF Covers
<1>11. QED
  BY <1>10 DEF h, n, k, p, L, R

-----------------------------------------------------------------------------
(* What a hunt has done so far: it has counted the ids it took, unless a     *)
(* rule failed. If no hunt has reset the table since and no rule failed, the *)
(* table covers the rules that have run. If no other hunt was running rules  *)
(* at the reset, none is, and no row has a later id. The same holds of the   *)
(* report. A load has nothing to be covered yet.                             *)
Hunting == {"rule", "report"}
Emptied == {"drop runs", "drop events", "append"}
IdsBelow(T, k) == \A a \in T : a.id < k
OnlyRunner(l, t) == \A u \in Tasks : pc[u] = "rule" /\ Log(u) = l => u = t

Numbered(step, c) ==
  step \in Hunting => 1 <= c.next /\ (c.errors = 0 => c.total = c.next - 1)
Ran(c, T, h) == c.errors = 0 => Covers(T, h, c.list, c.rule, c.next)
Reported(v, T, h) ==
  v.done /\ v.clean => Covers(T, h, v.list, Len(v.list) + 1, v.total + 1)
ReportedAll(v, T) == v.clean => IdsBelow(T, v.total + 1)

OwnerOK(l, t) ==
  /\ pc[t] \in Hunting /\ Log(t) = l
  /\ Ran(loc[t], file[l].alerts, file[l].hits)
  /\ ~crowded[l] => IdsBelow(file[l].alerts, loc[t].next) /\ OnlyRunner(l, t)
ReportOK(l) ==
  /\ Reported(verdict[l], file[l].alerts, file[l].hits)
  /\ verdict[l].done /\ ~crowded[l] =>
       /\ ReportedAll(verdict[l], file[l].alerts)
       /\ \A u \in Tasks : ~(pc[u] = "rule" /\ Log(u) = l)

KeyedInv == \A l \in Logs : Keyed(file[l].alerts)
NumberedInv == \A t \in Tasks : Numbered(pc[t], loc[t])
OwnerInv == \A l \in Logs : \A t \in Tasks : owner[l] = t => OwnerOK(l, t)
ReportedInv == \A l \in Logs : ReportOK(l)
EmptiedInv ==
  \A t \in Tasks : pc[t] \in Emptied =>
    file[Log(t)].alerts = {} /\ ~verdict[Log(t)].done

HuntInv == KeyedInv /\ NumberedInv /\ OwnerInv /\ ReportedInv /\ EmptiedInv
CInv == IInv /\ Typed /\ HuntInv

LEMMA InitHuntInv == Init => HuntInv
<1> SUFFICES ASSUME Init PROVE HuntInv
  OBVIOUS
<1>1. KeyedInv /\ ReportedInv
  BY DEF Init, KeyedInv, ReportedInv, ReportOK, Reported, Keyed, NoFile, NoReport
<1>2. NumberedInv /\ OwnerInv /\ EmptiedInv
  BY LogAssumption DEF Init, NumberedInv, Numbered, OwnerInv, EmptiedInv, Hunting, Emptied
<1>3. QED
  BY <1>1, <1>2 DEF HuntInv

(* A step of t outside the rules, that leaves the tables and the events.     *)
SameTables == \A l \in Logs : file'[l].alerts = file[l].alerts /\ file'[l].hits = file[l].hits
Others(t) == \A u \in Tasks \ {t} : pc'[u] = pc[u] /\ loc'[u] = loc[u] /\ on'[u] = on[u]

(* What a step of t leaves of a log: its tables, and who runs rules on it.   *)
LEMMA LogStays ==
  ASSUME NEW t \in Tasks, Others(t), NEW l \in Logs,
         file'[l].alerts = file[l].alerts, file'[l].hits = file[l].hits,
         verdict'[l] = verdict[l], crowded'[l] = crowded[l],
         pc'[t] = "rule" /\ Log(t)' = l => pc[t] = "rule" /\ Log(t) = l
  PROVE  /\ \A u \in Tasks \ {t} : OwnerOK(l, u) => OwnerOK(l, u)'
         /\ ReportOK(l) => ReportOK(l)'
<1>1. \A u \in Tasks : pc'[u] = "rule" /\ Log(u)' = l => pc[u] = "rule" /\ Log(u) = l
  BY DEF Others, Log
<1>2. \A u \in Tasks : OnlyRunner(l, u) => OnlyRunner(l, u)'
  BY <1>1 DEF OnlyRunner
<1>3. ASSUME NEW u \in Tasks \ {t}, OwnerOK(l, u) PROVE OwnerOK(l, u)'
  <2>1. pc'[u] = pc[u] /\ loc'[u] = loc[u] /\ Log(u)' = Log(u)
    BY DEF Others, Log
  <2>2. QED
    BY <1>2, <1>3, <2>1 DEF OwnerOK
<1>4. ReportOK(l) => ReportOK(l)'
  BY <1>1 DEF ReportOK
<1>5. QED
  BY <1>3, <1>4

LEMMA NumberedStays ==
  ASSUME CInv, NEW t \in Tasks, Others(t), Numbered(pc'[t], loc'[t])
  PROVE  NumberedInv'
BY DEF CInv, HuntInv, NumberedInv, Others

LEMMA CalmStep ==
  ASSUME CInv, NEW t \in Tasks, SameTables, Others(t), UNCHANGED history,
         pc[t] \notin Hunting, pc'[t] \notin Hunting,
         pc'[t] \in Emptied => pc[t] \in Emptied /\ on'[t] = on[t]
  PROVE  HuntInv'
<1>1. \A u \in Tasks : pc[u] # "idle" => Log(u) \in Logs
  BY BusyLog DEF CInv, Typed
<1>2. \A u \in Tasks \ {t} : Log(u)' = Log(u)
  BY DEF Others, Log
<1>3. ASSUME NEW l \in Logs
      PROVE  /\ \A u \in Tasks \ {t} : OwnerOK(l, u) => OwnerOK(l, u)'
             /\ ReportOK(l) => ReportOK(l)'
  BY LogStays DEF SameTables, Hunting, history
<1>4. KeyedInv'
  BY DEF CInv, HuntInv, KeyedInv, SameTables
<1>5. ReportedInv'
  BY <1>3 DEF CInv, HuntInv, ReportedInv
<1>6. NumberedInv'
  BY NumberedStays DEF Numbered
<1>7. OwnerInv'
  <2> SUFFICES ASSUME NEW l \in Logs, NEW u \in Tasks, owner'[l] = u PROVE OwnerOK(l, u)'
    BY DEF OwnerInv
  <2>1. OwnerOK(l, u) /\ u # t
    BY DEF CInv, HuntInv, OwnerInv, OwnerOK, history
  <2>2. QED
    BY <1>3, <2>1
<1>8. EmptiedInv'
  <2> SUFFICES ASSUME NEW u \in Tasks, pc'[u] \in Emptied
               PROVE  file'[Log(u)'].alerts = {} /\ ~verdict'[Log(u)'].done
    BY DEF EmptiedInv
  <2>1. pc[u] \in Emptied /\ Log(u)' = Log(u)
    BY <1>2 DEF Others, Log
  <2>2. Log(u) \in Logs
    BY <1>1, <2>1 DEF Emptied
  <2>3. file[Log(u)].alerts = {} /\ ~verdict[Log(u)].done
    BY <2>1 DEF CInv, HuntInv, EmptiedInv
  <2>4. QED
    BY <2>1, <2>2, <2>3 DEF SameTables, history
<1>9. QED
  BY <1>4, <1>5, <1>6, <1>7, <1>8 DEF HuntInv

(* One command goes on, with its own file. *)
LEMMA OthersQuiet ==
  ASSUME CInv, NEW t \in Tasks, NEW step, pc' = [pc EXCEPT ![t] = step],
         loc' = loc \/ \E c : loc' = [loc EXCEPT ![t] = c],
         on' = on \/ on' = [on EXCEPT ![t] = None]
  PROVE  Others(t) /\ pc'[t] = step
BY DEF CInv, Typed, TypeOK, Others

LEMMA OwnFileOnly ==
  ASSUME CInv, NEW t \in Tasks, pc[t] # "idle", NEW f, file' = [file EXCEPT ![Log(t)] = f]
  PROVE  /\ Log(t) \in Logs /\ file'[Log(t)] = f
         /\ \A l \in Logs \ {Log(t)} : file'[l] = file[l]
BY BusyLog DEF CInv, Typed

(* While one command loads a log, no other works on it.                      *)
LEMMA OthersElsewhere ==
  ASSUME Copies = 1, CInv, NEW t \in Tasks, pc[t] \in Loading
  PROVE  \A u \in Tasks \ {t} : pc[u] # "idle" => Log(u) \in Logs \ {Log(t)}
<1>1. on[t] \in Handles /\ \A u \in Tasks \ {t} : on[u] # on[t]
  BY DEF CInv, IInv, Shape, Exclusive, Loading
<1>2. \A u \in Tasks : pc[u] # "idle" => on[u] \in Handles /\ Log(u) \in Logs
  BY BusyLog DEF CInv, Typed
<1>3. QED
  BY <1>1, <1>2, OneHandle DEF Log

(* A step of t changes one log's tables or history, that of its own.         *)
OnlyLog(t) ==
  \A l \in Logs \ {Log(t)} :
    file'[l] = file[l] /\ owner'[l] = owner[l] /\ verdict'[l] = verdict[l]
      /\ crowded'[l] = crowded[l]

LEMMA OtherLogs ==
  ASSUME CInv, NEW t \in Tasks, Others(t), OnlyLog(t), NEW k \in Logs, Log(t) = k,
         pc'[t] \in Emptied \cup {"rule"} => Log(t)' = k,
         \A u \in Tasks : owner'[k] = u => OwnerOK(k, u)',
         ReportOK(k)', Keyed(file'[k].alerts), Numbered(pc'[t], loc'[t]),
         \A u \in Tasks : pc'[u] \in Emptied /\ Log(u)' = k =>
           file'[k].alerts = {} /\ ~verdict'[k].done
  PROVE  HuntInv'
<1>1. ASSUME NEW l \in Logs \ {k}
      PROVE  /\ \A u \in Tasks \ {t} : OwnerOK(l, u) => OwnerOK(l, u)'
             /\ ReportOK(l) => ReportOK(l)'
  BY <1>1, LogStays DEF OnlyLog
<1>2. KeyedInv'
  BY DEF CInv, HuntInv, KeyedInv, OnlyLog
<1>3. ReportedInv'
  BY <1>1 DEF CInv, HuntInv, ReportedInv
<1>4. NumberedInv'
  BY NumberedStays
<1>5. OwnerInv'
  <2> SUFFICES ASSUME NEW l \in Logs, NEW u \in Tasks, owner'[l] = u PROVE OwnerOK(l, u)'
    BY DEF OwnerInv
  <2>1. CASE l = k
    BY <2>1
  <2>2. CASE l # k
    <3>1. OwnerOK(l, u) /\ u # t
      BY <2>2 DEF CInv, HuntInv, OwnerInv, OwnerOK, OnlyLog
    <3>2. QED
      BY <1>1, <2>2, <3>1
  <2>3. QED
    BY <2>1, <2>2
<1>6. EmptiedInv'
  <2> SUFFICES ASSUME NEW u \in Tasks, pc'[u] \in Emptied
               PROVE  file'[Log(u)'].alerts = {} /\ ~verdict'[Log(u)'].done
    BY DEF EmptiedInv
  <2>1. CASE Log(u)' = k
    BY <2>1
  <2>2. CASE Log(u)' # k
    <3>1. u # t
      BY <2>2
    <3>2. pc[u] \in Emptied /\ Log(u)' = Log(u) /\ Log(u) \in Logs
      BY <3>1, BusyLog DEF Others, Log, Emptied, CInv, Typed
    <3>3. QED
      BY <2>2, <3>2 DEF CInv, HuntInv, EmptiedInv, OnlyLog
  <2>3. QED
    BY <2>1, <2>2
<1>7. QED
  BY <1>2, <1>3, <1>4, <1>5, <1>6 DEF HuntInv

LEMMA DropAlertsStep ==
  ASSUME CInv, NEW t \in Tasks, DropAlerts(t)
  PROVE  HuntInv'
<1> DEFINE f == [file[Log(t)] EXCEPT !.alerts = {}, !.ready = FALSE]
<1>1. /\ pc[t] = "drop alerts" /\ pc' = [pc EXCEPT ![t] = "drop runs"]
      /\ file' = [file EXCEPT ![Log(t)] = f] /\ loc' = loc /\ on' = on
      /\ Forget(Log(t))
  BY DEF DropAlerts, Write, At, Goto
<1>2. PICK k \in Logs : Log(t) = k
  BY <1>1, BusyLog DEF CInv, Typed
<1>3. f.alerts = {}
  BY <1>2, FilesOK, FileFields DEF CInv, Typed, FileOK
<1> HIDE DEF f
<1>4. file'[k].alerts = {} /\ \A l \in Logs \ {k} : file'[l] = file[l]
  BY <1>1, <1>2, <1>3, OwnFileOnly
<1>5. Others(t) /\ pc'[t] = "drop runs"
  BY <1>1, OthersQuiet
<1>6. /\ owner'[k] = None /\ verdict'[k] = NoReport
      /\ \A l \in Logs \ {k} :
           owner'[l] = owner[l] /\ verdict'[l] = verdict[l] /\ crowded'[l] = crowded[l]
  BY <1>1, <1>2 DEF Forget, CInv, Typed, TypeOK
<1>7. OnlyLog(t)
  BY <1>2, <1>4, <1>6 DEF OnlyLog
<1>8. Log(t)' = k /\ \A u \in Tasks : owner'[k] # u
  BY <1>1, <1>2, <1>6, LogAssumption DEF Log
<1>9. ReportOK(k)'
  BY <1>6 DEF ReportOK, Reported, NoReport
<1>10. Keyed(file'[k].alerts) /\ Numbered(pc'[t], loc'[t])
  BY <1>4, <1>5 DEF Keyed, Numbered, Hunting
<1>11. file'[k].alerts = {} /\ ~verdict'[k].done
  BY <1>4, <1>6 DEF NoReport
<1>12. QED
  BY <1>2, <1>5, <1>7, <1>8, <1>9, <1>10, <1>11, OtherLogs

(* The events change: their log has no alerts and no hunt.                   *)
LEMMA EventsStep ==
  ASSUME Copies = 1, CInv, NEW t \in Tasks, DropEvents(t) \/ Flush(t)
  PROVE  HuntInv'
<1> DEFINE F == file[Log(t)]
<1>1. PICK f : /\ f.alerts = F.alerts
               /\ pc[t] \in {"drop events", "append"} /\ pc' = [pc EXCEPT ![t] = "append"]
               /\ file' = [file EXCEPT ![Log(t)] = f] /\ loc' = loc /\ on' = on
               /\ UNCHANGED history
  <2>1. pc[t] \in {"drop events", "append"}
    BY DEF DropEvents, Flush, At
  <2>2. DOMAIN F = DOMAIN NoFile
    BY <2>1, BusyLog DEF CInv, Typed, FileOK
  <2>3. CASE DropEvents(t)
    <3> DEFINE g == [F EXCEPT !.load = @ + 1, !.hits = NoHits, !.full = FALSE]
    <3>1. Write(t, g, "append") /\ UNCHANGED <<loc, history>>
      BY <2>3 DEF DropEvents
    <3>2. g.alerts = F.alerts
      BY <2>2, FileFields
    <3> HIDE DEF g
    <3>3. QED
      BY <2>1, <3>1, <3>2 DEF Write, Goto
  <2>4. CASE Flush(t)
    <3>1. PICK h \in Hits : Write(t, [F EXCEPT !.hits = h], "append")
      BY <2>4 DEF Flush
    <3> DEFINE g == [F EXCEPT !.hits = h]
    <3>2. g.alerts = F.alerts
      BY <2>2, FileFields
    <3>3. Write(t, g, "append") /\ UNCHANGED <<loc, history>>
      BY <2>4, <3>1 DEF Flush
    <3> HIDE DEF g
    <3>4. QED
      BY <2>1, <3>2, <3>3 DEF Write, Goto
  <2>5. QED
    BY <2>3, <2>4
<1>2. F.alerts = {} /\ ~verdict[Log(t)].done
  BY <1>1 DEF CInv, HuntInv, EmptiedInv, Emptied
<1>3. PICK k \in Logs : Log(t) = k
  BY <1>1, BusyLog DEF CInv, Typed
<1>4. file'[k].alerts = {} /\ \A l \in Logs \ {k} : file'[l] = file[l]
  BY <1>1, <1>2, <1>3, OwnFileOnly
<1>5. Others(t) /\ pc'[t] = "append" /\ Log(t)' = k
  BY <1>1, <1>3, OthersQuiet DEF Log
<1>6. \A u \in Tasks : owner[k] # u
  <2>1. SUFFICES ASSUME NEW u \in Tasks, owner[k] = u PROVE FALSE
    OBVIOUS
  <2>2. pc[u] \in Hunting /\ Log(u) = k
    BY <2>1 DEF CInv, HuntInv, OwnerInv, OwnerOK
  <2>3. u # t /\ pc[u] # "idle"
    BY <1>1, <2>2 DEF Hunting
  <2>4. QED
    BY <1>1, <1>3, <2>2, <2>3, OthersElsewhere DEF Loading
<1>7. OnlyLog(t)
  BY <1>1, <1>3, <1>4 DEF OnlyLog, history
<1>8. /\ ~verdict'[k].done /\ \A u \in Tasks : owner'[k] # u
  BY <1>1, <1>2, <1>3, <1>6 DEF history
<1>9. ReportOK(k)'
  BY <1>8 DEF ReportOK, Reported
<1>10. Keyed(file'[k].alerts) /\ Numbered(pc'[t], loc'[t])
  BY <1>4, <1>5 DEF Keyed, Numbered, Hunting
<1>11. QED
  BY <1>3, <1>4, <1>5, <1>7, <1>8, <1>9, <1>10, OtherLogs

(* A hunt resets the table, and takes it over from any other hunt.           *)
LEMMA ResetStep ==
  ASSUME CInv, NEW t \in Tasks, HuntReset(t)
  PROVE  HuntInv'
<1> DEFINE f == [file[Log(t)] EXCEPT !.alerts = {}]
<1>1. /\ pc[t] = "reset" /\ pc' = [pc EXCEPT ![t] = "rule"]
      /\ file' = [file EXCEPT ![Log(t)] = f] /\ loc' = loc /\ on' = on
  BY DEF HuntReset, Write, At, Goto
<1>2. PICK k \in Logs : Log(t) = k
  BY <1>1, BusyLog DEF CInv, Typed
<1>3. f.alerts = {}
  BY <1>2, FilesOK, FileFields DEF CInv, Typed, FileOK
<1> HIDE DEF f
<1>4. file'[k].alerts = {} /\ \A l \in Logs \ {k} : file'[l] = file[l]
  BY <1>1, <1>2, <1>3, OwnFileOnly
<1>5. Others(t) /\ pc'[t] = "rule" /\ Log(t)' = k
  BY <1>1, <1>2, OthersQuiet DEF Log
<1>6. /\ owner'[k] = t /\ verdict'[k] = NoReport /\ crowded'[k] = OtherRuns(t)
      /\ \A l \in Logs \ {k} :
           owner'[l] = owner[l] /\ verdict'[l] = verdict[l] /\ crowded'[l] = crowded[l]
  BY <1>2 DEF HuntReset, CInv, Typed, TypeOK
<1>7. OnlyLog(t)
  BY <1>2, <1>4, <1>6 DEF OnlyLog
<1>8. /\ loc'[t] = loc[t] /\ loc[t].rule = 1 /\ loc[t].next = 1 /\ loc[t].total = 0
      /\ loc[t].list \in Catalogs
  BY <1>1 DEF CInv, Typed, Between, Fresh, HuntSteps
<1>9. OwnerOK(k, t)'
  <2>1. Covers({}, file'[k].hits, loc[t].list, 1, 1)
    <3>1. {q \in DOMAIN loc[t].list : q < 1} = {}
      BY <1>8, ListsHaveRules
    <3>2. Done(loc[t].list, file'[k].hits, 1) = {}
      BY <3>1 DEF Done
    <3>3. QED
      BY <3>2 DEF Covers, Marks, Below
  <2>2. Ran(loc'[t], file'[k].alerts, file'[k].hits)
    BY <1>4, <1>8, <2>1 DEF Ran
  <2>3. ASSUME ~crowded'[k] PROVE OnlyRunner(k, t)'
    BY <1>2, <1>5, <1>6, <2>3 DEF OtherRuns, OnlyRunner, Others, Log, At
  <2>4. IdsBelow(file'[k].alerts, loc'[t].next)
    BY <1>4 DEF IdsBelow
  <2>5. QED
    BY <1>5, <2>2, <2>3, <2>4 DEF OwnerOK, Hunting
<1>10. ReportOK(k)'
  BY <1>6 DEF ReportOK, Reported, NoReport
<1>11. Keyed(file'[k].alerts) /\ Numbered(pc'[t], loc'[t])
  BY <1>4, <1>8 DEF Keyed, Numbered
<1>12. file'[k].alerts = {} /\ ~verdict'[k].done
  BY <1>4, <1>6 DEF NoReport
<1>13. QED
  BY <1>2, <1>5, <1>6, <1>7, <1>9, <1>10, <1>11, <1>12, OtherLogs

(* A rule has run: it took the ids of its first d matches and stored m rows; *)
(* if it did not fail, all of them.                                          *)
LEMMA RuleStep ==
  ASSUME Copies = 1, CInv, NEW t \in Tasks, At(t, "rule"),
         NEW d \in 0 .. Found(t), NEW m \in 0 .. d, NEW e \in Nat, NEW failed \in Nat,
         failed = 0 => d = Found(t) /\ m = Found(t) /\ e = Found(t),
         \A i \in 1 .. m : ~Taken(t, i),
         NEW k \in Logs, Log(t) = k,
         file'[k].alerts = file[k].alerts \cup Rows(t, m),
         file'[k].hits = file[k].hits,
         \A l \in Logs \ {k} : file'[l] = file[l],
         pc' = [pc EXCEPT ![t] = NextRule(t)],
         loc' = [loc EXCEPT ![t] = After(loc[t], d, e, failed)],
         UNCHANGED <<on, owner, verdict, crowded>>
  PROVE  HuntInv'
<1> DEFINE h == file[k].hits
           T == file[k].alerts
           R == Rows(t, m)
<1>1. /\ T \in SUBSET AlertRow /\ loc[t] \in LocOK /\ Found(t) \in Nat
      /\ loc[t].next \in Nat /\ loc[t].total \in Nat /\ loc[t].errors \in Nat
      /\ d \in Nat /\ m \in Nat /\ m <= d /\ d <= Found(t)
  <2>1. Found(t) \in Nat
    BY RunningRule DEF CInv
  <2>2. T \in SUBSET AlertRow
    BY FilesOK DEF CInv, Typed, FileOK
  <2>3. loc[t] \in LocOK
    BY DEF CInv, Typed, TypeOK, LocOK
  <2>4. loc[t].next \in Nat /\ loc[t].total \in Nat /\ loc[t].errors \in Nat
    BY <2>3 DEF LocOK
  <2>5. d \in Nat /\ m \in Nat /\ m <= d /\ d <= Found(t)
    BY <2>1
  <2> HIDE DEF T
  <2>6. QED
    BY <2>1, <2>2, <2>3, <2>4, <2>5
<1>2. Others(t) /\ pc'[t] = NextRule(t) /\ NextRule(t) \in Hunting
  BY OthersQuiet DEF NextRule, Hunting
<1>3. /\ loc'[t].rule = loc[t].rule + 1 /\ loc'[t].next = loc[t].next + d
      /\ loc'[t].total = loc[t].total + e /\ loc'[t].errors = loc[t].errors + failed
      /\ loc'[t].list = loc[t].list
  BY DEF After, CInv, Typed, TypeOK
<1>4. Log(t)' = k
  BY DEF Log
<1>5. 1 <= loc[t].next /\ (loc[t].errors = 0 => loc[t].total = loc[t].next - 1)
  BY DEF CInv, HuntInv, NumberedInv, Numbered, Hunting, At
<1>6. /\ R \in SUBSET AlertRow
      /\ \A a \in R : a.id \in loc[t].next .. (loc[t].next + m - 1)
      /\ \A a, b \in R : a.id = b.id => a = b
  BY <1>1, RowFields DEF CInv
<1>7. \A b \in R : 1 <= b.id /\ \A a \in T : a.id # b.id
  <2> SUFFICES ASSUME NEW b \in R PROVE 1 <= b.id /\ \A a \in T : a.id # b.id
    OBVIOUS
  <2>1. b.id \in loc[t].next .. (loc[t].next + m - 1)
    BY <1>6
  <2>2. /\ b.id - loc[t].next + 1 \in 1 .. m
        /\ loc[t].next + (b.id - loc[t].next + 1) - 1 = b.id /\ 1 <= b.id
    BY <1>1, <1>5, <2>1
  <2> HIDE DEF R
  <2>3. ~Taken(t, b.id - loc[t].next + 1)
    BY <2>2
  <2>4. QED
    BY <2>2, <2>3 DEF Taken
<1>8. Keyed(T \cup R)
  <2>1. Keyed(T)
    BY DEF CInv, HuntInv, KeyedInv
  <2> HIDE DEF T, R
  <2>2. QED
    BY <1>6, <1>7, <2>1 DEF Keyed
<1>9. ASSUME NEW list, NEW n, NEW j \in Nat, Covers(T, h, list, n, j)
      PROVE  Covers(T \cup R, h, list, n, j)
  <2> HIDE DEF T, h, R
  <2>1. QED
    BY <1>1, <1>6, <1>7, <1>9, CoversStays
<1>10. OnlyLog(t)
  BY DEF OnlyLog
<1>11. \A u \in Tasks : pc'[u] = "rule" /\ Log(u)' = k => pc[u] = "rule" /\ Log(u) = k
  BY <1>2 DEF Others, Log, At
<1>12. ASSUME owner[k] = t PROVE OwnerOK(k, t)'
  <2>1. OwnerOK(k, t)
    BY <1>12 DEF CInv, HuntInv, OwnerInv
  <2>2. ASSUME loc'[t].errors = 0
        PROVE  Covers(T \cup R, h, loc'[t].list, loc'[t].rule, loc'[t].next)
    <3>1. loc[t].errors = 0 /\ failed = 0
      BY <1>1, <1>3, <2>2
    <3>2. d = Found(t) /\ R = Rows(t, Found(t))
      BY <3>1
    <3>3. Covers(T, h, loc[t].list, loc[t].rule, loc[t].next)
      BY <2>1, <3>1 DEF OwnerOK, Ran
    <3> HIDE DEF T
    <3>4. Covers(T \cup Rows(t, Found(t)), h, loc[t].list, loc[t].rule + 1,
                 loc[t].next + Found(t))
      BY <1>1, <1>5, <1>7, <3>2, <3>3, RowsCover DEF CInv
    <3>5. QED
      BY <1>3, <3>2, <3>4
  <2>3. ASSUME ~crowded[k] PROVE IdsBelow(T \cup R, loc'[t].next)
    <3>1. \A a \in T : a.id \in Nat /\ a.id < loc[t].next
      BY <1>1, <2>1, <2>3 DEF OwnerOK, IdsBelow, AlertRow
    <3> HIDE DEF T, R
    <3>2. QED
      BY <1>1, <1>3, <1>6, <3>1 DEF IdsBelow
  <2>4. ~crowded[k] => OnlyRunner(k, t)'
    BY <1>11, <2>1 DEF OwnerOK, OnlyRunner
  <2>5. Ran(loc'[t], file'[k].alerts, file'[k].hits)
    BY <2>2 DEF Ran
  <2>6. QED
    BY <1>2, <1>4, <2>3, <2>4, <2>5 DEF OwnerOK
<1>13. ASSUME NEW u \in Tasks \ {t}, owner[k] = u PROVE OwnerOK(k, u)'
  <2>1. OwnerOK(k, u)
    BY <1>13 DEF CInv, HuntInv, OwnerInv
  <2>2. crowded[k]
    BY <2>1 DEF OwnerOK, OnlyRunner, At
  <2>3. loc[u].next \in Nat /\ loc'[u] = loc[u] /\ pc'[u] = pc[u] /\ Log(u)' = Log(u)
    BY <1>2 DEF CInv, Typed, TypeOK, Others, Log
  <2>4. loc[u].errors = 0 => Covers(T \cup R, h, loc[u].list, loc[u].rule, loc[u].next)
    <3>1. loc[u].errors = 0 => Covers(T, h, loc[u].list, loc[u].rule, loc[u].next)
      BY <2>1 DEF OwnerOK, Ran
    <3> HIDE DEF T, h, R
    <3>2. QED
      BY <1>9, <2>3, <3>1
  <2>5. Ran(loc'[u], file'[k].alerts, file'[k].hits)
    BY <2>3, <2>4 DEF Ran
  <2>6. QED
    BY <2>1, <2>2, <2>3, <2>5 DEF OwnerOK
<1>14. ReportOK(k)'
  <2>1. verdict[k].total + 1 \in Nat /\ ReportOK(k)
    BY DEF CInv, HuntInv, ReportedInv, Typed, TypeOK
  <2>2. verdict[k].done => crowded[k]
    BY <2>1 DEF ReportOK, At
  <2>3. Reported(verdict[k], T \cup R, h)
    BY <1>9, <2>1 DEF ReportOK, Reported
  <2>4. QED
    BY <2>2, <2>3 DEF ReportOK
<1>15. Numbered(pc'[t], loc'[t])
  <2>1. ASSUME loc'[t].errors = 0 PROVE loc'[t].total = loc'[t].next - 1
    <3>1. loc[t].errors = 0 /\ failed = 0
      BY <1>1, <1>3, <2>1
    <3>2. d = e
      BY <3>1
    <3>3. QED
      BY <1>1, <1>3, <1>5, <3>1, <3>2
  <2>2. QED
    BY <1>1, <1>3, <1>5, <2>1 DEF Numbered
<1>16. \A u \in Tasks : pc'[u] \in Emptied => Log(u)' # k
  <2> SUFFICES ASSUME NEW u \in Tasks, pc'[u] \in Emptied PROVE Log(u)' # k
    OBVIOUS
  <2>1. u # t /\ pc[u] \in Loading /\ Log(u)' = Log(u)
    BY <1>2 DEF Others, Emptied, Hunting, Loading, Log
  <2>2. pc[t] # "idle"
    BY DEF At
  <2>3. QED
    BY <2>1, <2>2, OthersElsewhere
<1>17. \A u \in Tasks : owner'[k] = u => OwnerOK(k, u)'
  BY <1>12, <1>13
<1>18. QED
  BY <1>2, <1>4, <1>8, <1>10, <1>14, <1>15, <1>16, <1>17, OtherLogs

LEMMA RulesHunt ==
  ASSUME Copies = 1, CInv, NEW t \in Tasks, RuleOk(t) \/ RuleFails(t) \/ RuleRejected(t)
  PROVE  HuntInv'
<1> DEFINE F == file[Log(t)]
<1>1. At(t, "rule") /\ pc[t] # "idle" /\ Found(t) \in Nat
  <2>1. At(t, "rule") /\ pc[t] # "idle"
    BY DEF RuleOk, RuleFails, RuleRejected, At
  <2>2. QED
    BY <2>1, RunningRule DEF CInv
<1>2. PICK k \in Logs : Log(t) = k
  BY <1>1, RunningRule DEF CInv
<1>3. DOMAIN F = DOMAIN NoFile /\ DOMAIN file = Logs
  BY <1>2 DEF CInv, Typed, TypeOK
<1>4. ASSUME NEW m, Write(t, [F EXCEPT !.alerts = @ \cup Rows(t, m)], NextRule(t))
      PROVE  /\ file'[k].alerts = file[k].alerts \cup Rows(t, m)
             /\ file'[k].hits = file[k].hits
             /\ \A l \in Logs \ {k} : file'[l] = file[l]
             /\ pc' = [pc EXCEPT ![t] = NextRule(t)] /\ on' = on
  <2> DEFINE f == [F EXCEPT !.alerts = @ \cup Rows(t, m)]
  <2>1. f.alerts = F.alerts \cup Rows(t, m) /\ f.hits = F.hits
    BY <1>3, FileFields
  <2>2. file' = [file EXCEPT ![Log(t)] = f] /\ pc' = [pc EXCEPT ![t] = NextRule(t)] /\ on' = on
    BY <1>4 DEF Write, Goto
  <2> HIDE DEF f
  <2>3. QED
    BY <1>2, <1>3, <2>1, <2>2
<1>5. CASE RuleOk(t)
  <2> DEFINE n == Found(t)
  <2>1. Write(t, [F EXCEPT !.alerts = @ \cup Rows(t, n)], NextRule(t))
    BY <1>5 DEF RuleOk
  <2>2. n \in 0 .. Found(t) /\ n \in 0 .. n /\ n \in Nat /\ 0 \in Nat /\ n \in Int
    BY <1>1
  <2>3. loc' = [loc EXCEPT ![t] = After(loc[t], n, n, 0)]
    BY <1>5, <2>2, RuleLocals DEF RuleOk, CInv
  <2>4. UNCHANGED <<owner, verdict, crowded>> /\ \A i \in 1 .. n : ~Taken(t, i)
    BY <1>5 DEF RuleOk, history
  <2>5. /\ file'[k].alerts = file[k].alerts \cup Rows(t, n)
        /\ file'[k].hits = file[k].hits
        /\ \A l \in Logs \ {k} : file'[l] = file[l]
        /\ pc' = [pc EXCEPT ![t] = NextRule(t)] /\ on' = on
    BY <1>4, <2>1
  <2>6. n = Found(t)
    OBVIOUS
  <2> HIDE DEF n, F
  <2>7. QED
    BY <1>1, <1>2, <2>2, <2>3, <2>4, <2>5, <2>6, RuleStep
<1>6. CASE RuleFails(t)
  <2>1. PICK n \in 1 .. Found(t) :
          /\ \E m \in {n - 1, n} :
               /\ \A i \in 1 .. m : ~Taken(t, i)
               /\ Write(t, [F EXCEPT !.alerts = @ \cup Rows(t, m)], NextRule(t))
          /\ loc' = [loc EXCEPT ![t].rule = @ + 1, ![t].next = @ + n, ![t].errors = @ + 1]
    BY <1>6 DEF RuleFails
  <2>2. PICK m \in {n - 1, n} :
          /\ \A i \in 1 .. m : ~Taken(t, i)
          /\ Write(t, [F EXCEPT !.alerts = @ \cup Rows(t, m)], NextRule(t))
    BY <2>1
  <2>3. n \in 0 .. Found(t) /\ m \in 0 .. n /\ n \in Int /\ 0 \in Nat /\ 1 \in Nat
    BY <1>1
  <2>4. loc' = [loc EXCEPT ![t] = After(loc[t], n, 0, 1)]
    BY <2>1, <2>3, RuleLocals DEF CInv
  <2>5. UNCHANGED <<owner, verdict, crowded>>
    BY <1>6 DEF RuleFails, history
  <2>6. /\ file'[k].alerts = file[k].alerts \cup Rows(t, m)
        /\ file'[k].hits = file[k].hits
        /\ \A l \in Logs \ {k} : file'[l] = file[l]
        /\ pc' = [pc EXCEPT ![t] = NextRule(t)] /\ on' = on
    BY <1>4, <2>2
  <2>7. 1 = 0 => n = Found(t) /\ m = Found(t) /\ 0 = Found(t)
    OBVIOUS
  <2>8. QED
    BY <1>1, <1>2, <2>2, <2>3, <2>4, <2>5, <2>6, <2>7, RuleStep, Zenon
<1>7. CASE RuleRejected(t)
  <2>1. Rows(t, 0) = {}
    BY DEF Rows
  <2>2. /\ 0 \in 0 .. Found(t) /\ 0 \in 0 .. 0 /\ 0 \in Nat /\ 1 \in Nat
        /\ \A i \in 1 .. 0 : ~Taken(t, i)
    BY <1>1
  <2>3. [loc EXCEPT ![t].rule = @ + 1, ![t].errors = @ + 1]
          = [loc EXCEPT ![t] = After(loc[t], 0, 0, 1)]
    BY 0 \in Int, RuleLocals, Zenon DEF CInv
  <2>4. loc' = [loc EXCEPT ![t] = After(loc[t], 0, 0, 1)]
    BY <1>7, <2>3, Zenon DEF RuleRejected
  <2>5. /\ UNCHANGED <<file, on, owner, verdict, crowded>>
        /\ pc' = [pc EXCEPT ![t] = NextRule(t)]
    BY <1>7 DEF RuleRejected, history, Goto
  <2>6. /\ file'[k].alerts = file[k].alerts \cup Rows(t, 0)
        /\ file'[k].hits = file[k].hits
        /\ \A l \in Logs \ {k} : file'[l] = file[l]
    BY <2>1, <2>5
  <2>7. 1 = 0 => 0 = Found(t) /\ 0 = Found(t) /\ 0 = Found(t)
    OBVIOUS
  <2>8. QED
    BY <1>1, <1>2, <2>2, <2>4, <2>5, <2>6, <2>7, RuleStep, Zenon
<1>8. QED
  BY <1>5, <1>6, <1>7

(* The report: what its hunt has done, if it still owns the table.           *)
LEMMA ReturnsStep ==
  ASSUME Copies = 1, CInv, NEW t \in Tasks, HuntReturns(t)
  PROVE  HuntInv'
<1>1. /\ pc[t] = "report" /\ pc' = [pc EXCEPT ![t] = "idle"] /\ on' = [on EXCEPT ![t] = None]
      /\ loc' = [loc EXCEPT ![t] = Locals] /\ file' = file /\ crowded' = crowded
  BY DEF HuntReturns, Return, Goto, At
<1>2. PICK k \in Logs : Log(t) = k
  BY <1>1, BusyLog DEF CInv, Typed
<1>3. /\ loc[t].rule = Len(loc[t].list) + 1 /\ 1 <= loc[t].next /\ loc[t].next \in Nat
      /\ loc[t].errors = 0 => loc[t].total + 1 = loc[t].next
  <2>1. loc[t].rule = Len(loc[t].list) + 1
    BY <1>1 DEF CInv, Typed, Between
  <2>2. loc[t].next \in Nat
    BY DEF CInv, Typed, TypeOK
  <2>3. 1 <= loc[t].next /\ (loc[t].errors = 0 => loc[t].total = loc[t].next - 1)
    BY <1>1 DEF CInv, HuntInv, NumberedInv, Numbered, Hunting
  <2>4. QED
    BY <2>1, <2>2, <2>3
<1>4. Others(t) /\ pc'[t] = "idle"
  <2>1. \E c : loc' = [loc EXCEPT ![t] = c]
    BY <1>1
  <2>2. QED
    BY <1>1, <2>1, OthersQuiet
<1>5. /\ \A l \in Logs \ {k} : owner'[l] = owner[l] /\ verdict'[l] = verdict[l]
      /\ owner[k] # t => owner' = owner /\ verdict' = verdict
      /\ owner[k] = t =>
           /\ owner'[k] = None
           /\ verdict'[k] = [done |-> TRUE, clean |-> loc[t].errors = 0,
                             total |-> loc[t].total, list |-> loc[t].list]
  BY <1>2 DEF HuntReturns, CInv, Typed, TypeOK
<1>6. OnlyLog(t)
  BY <1>1, <1>2, <1>5 DEF OnlyLog
<1>7. /\ \A u \in Tasks \ {t} : OwnerOK(k, u) => OwnerOK(k, u)'
      /\ owner[k] # t => ReportOK(k)'
  <2>1. ASSUME owner[k] # t PROVE ReportOK(k)'
    BY <1>1, <1>4, <1>5, <2>1, LogStays DEF CInv, HuntInv, ReportedInv
  <2>2. ASSUME NEW u \in Tasks \ {t}, OwnerOK(k, u) PROVE OwnerOK(k, u)'
    <3>1. pc'[u] = pc[u] /\ loc'[u] = loc[u] /\ Log(u)' = Log(u)
      BY <1>4 DEF Others, Log
    <3>2. \A w \in Tasks : pc'[w] = "rule" /\ Log(w)' = k => pc[w] = "rule" /\ Log(w) = k
      BY <1>4 DEF Others, Log
    <3>3. OnlyRunner(k, u) => OnlyRunner(k, u)'
      BY <3>2 DEF OnlyRunner
    <3>4. QED
      BY <1>1, <2>2, <3>1, <3>3 DEF OwnerOK
  <2>3. QED
    BY <2>1, <2>2
<1>8. ASSUME NEW u \in Tasks, owner'[k] = u PROVE OwnerOK(k, u)'
  <2>1. owner[k] = u /\ u # t
    BY <1>5, <1>8, LogAssumption
  <2>2. OwnerOK(k, u)
    BY <2>1 DEF CInv, HuntInv, OwnerInv
  <2>3. QED
    BY <1>7, <2>1, <2>2
<1>9. ASSUME owner[k] = t PROVE ReportOK(k)'
  <2>1. OwnerOK(k, t)
    BY <1>9 DEF CInv, HuntInv, OwnerInv
  <2>2. /\ verdict'[k].clean = (loc[t].errors = 0) /\ verdict'[k].total = loc[t].total
        /\ verdict'[k].list = loc[t].list
    BY <1>5, <1>9
  <2>3. ASSUME loc[t].errors = 0
        PROVE  Covers(file[k].alerts, file[k].hits, loc[t].list, Len(loc[t].list) + 1,
                      loc[t].total + 1)
    BY <1>3, <2>1, <2>3 DEF OwnerOK, Ran
  <2>4. Reported(verdict'[k], file'[k].alerts, file'[k].hits)
    BY <1>1, <2>2, <2>3, Zenon DEF Reported
  <2>5. ASSUME ~crowded[k]
        PROVE  /\ ReportedAll(verdict'[k], file'[k].alerts)
               /\ \A u \in Tasks : ~(pc'[u] = "rule" /\ Log(u)' = k)
    <3>1. IdsBelow(file[k].alerts, loc[t].next) /\ OnlyRunner(k, t)
      BY <2>1, <2>5 DEF OwnerOK
    <3>2. loc[t].errors = 0 => IdsBelow(file[k].alerts, loc[t].total + 1)
      BY <1>3, <3>1
    <3>3. ReportedAll(verdict'[k], file'[k].alerts)
      BY <1>1, <2>2, <3>2, Zenon DEF ReportedAll
    <3>4. \A u \in Tasks : ~(pc'[u] = "rule" /\ Log(u)' = k)
      BY <1>1, <1>4, <3>1 DEF OnlyRunner, Others, Log
    <3>5. QED
      BY <3>3, <3>4
  <2>6. QED
    BY <1>1, <2>4, <2>5 DEF ReportOK
<1>10. ReportOK(k)'
  BY <1>7, <1>9
<1>11. Keyed(file'[k].alerts) /\ Numbered(pc'[t], loc'[t])
  BY <1>1, <1>4 DEF CInv, HuntInv, KeyedInv, Numbered, Hunting
<1>12. ASSUME NEW u \in Tasks, pc'[u] \in Emptied PROVE Log(u)' # k
  <2>1. u # t /\ pc[u] \in Loading /\ Log(u)' = Log(u)
    BY <1>4, <1>12 DEF Others, Emptied, Loading, Log
  <2>2. QED
    BY <1>1, <1>2, <2>1, OthersElsewhere
<1>13. QED
  BY <1>2, <1>4, <1>6, <1>8, <1>10, <1>11, <1>12, OtherLogs DEF Emptied

(* Triage changes neither the id nor the match of a row.                     *)
LEMMA Retagged ==
  ASSUME NEW T \in SUBSET AlertRow, NEW M \in SUBSET T
  PROVE  LET U == (T \ M) \cup {[a EXCEPT !.triage = "fp"] : a \in M}
         IN  /\ Keyed(T) => Keyed(U)
             /\ \A h, list, n, k : Covers(T, h, list, n, k) => Covers(U, h, list, n, k)
             /\ \A k : IdsBelow(T, k) => IdsBelow(U, k)
<1> DEFINE tag(a) == [a EXCEPT !.triage = "fp"]
           U == (T \ M) \cup {tag(a) : a \in M}
<1>1. \A a \in T : tag(a).id = a.id /\ tag(a).rule = a.rule /\ tag(a).nth = a.nth
  BY DEF AlertRow
<1> HIDE DEF tag
<1> DEFINE new(a) == IF a \in M THEN tag(a) ELSE a
<1>2. \A a \in T : /\ new(a) \in U /\ new(a).id = a.id /\ new(a).rule = a.rule
                   /\ new(a).nth = a.nth
  BY <1>1
<1>3. \A b \in U : \E a \in T : b = new(a)
  OBVIOUS
<1> HIDE DEF new, U
<1>4. ASSUME Keyed(T) PROVE Keyed(U)
  BY <1>2, <1>3, <1>4 DEF Keyed
<1>5. ASSUME NEW h, NEW list, NEW n, NEW k, Covers(T, h, list, n, k)
      PROVE  Covers(U, h, list, n, k)
  <2>1. \A id \in 1 .. (k - 1) : \E b \in U : b.id = id
    BY <1>2, <1>5 DEF Covers
  <2>2. Marks(Below(U, k)) \subseteq Marks(Below(T, k))
    <3>1. SUFFICES ASSUME NEW b \in U, b.id < k
                   PROVE  \E a \in T : a.id < k /\ a.rule = b.rule /\ a.nth = b.nth
      BY Zenon DEF Marks, Below
    <3>2. QED
      BY <1>2, <1>3, <3>1
  <2>3. Marks(Below(T, k)) \subseteq Marks(Below(U, k))
    <3>1. SUFFICES ASSUME NEW a \in T, a.id < k
                   PROVE  \E b \in U : b.id < k /\ b.rule = a.rule /\ b.nth = a.nth
      BY Zenon DEF Marks, Below
    <3>2. QED
      BY <1>2, <3>1
  <2>4. QED
    BY <1>5, <2>1, <2>2, <2>3 DEF Covers
<1>6. ASSUME NEW k, IdsBelow(T, k) PROVE IdsBelow(U, k)
  BY <1>2, <1>3, <1>6 DEF IdsBelow
<1>7. QED
  BY <1>4, <1>5, <1>6 DEF U, tag

LEMMA TriageStep ==
  ASSUME CInv, NEW t \in Tasks, TriageDone(t)
  PROVE  HuntInv'
<1> DEFINE T == file[Log(t)].alerts
           U == (T \ Marked(t)) \cup {[a EXCEPT !.triage = "fp"] : a \in Marked(t)}
<1>1. /\ pc[t] = "update" /\ pc' = [pc EXCEPT ![t] = "idle"] /\ on' = [on EXCEPT ![t] = None]
      /\ loc' = [loc EXCEPT ![t] = Locals] /\ UNCHANGED <<owner, verdict, crowded>>
      /\ file' = [file EXCEPT ![Log(t)].alerts = U]
  BY DEF TriageDone, Return, Goto, At, history
<1>2. PICK k \in Logs : Log(t) = k
  BY <1>1, BusyLog DEF CInv, Typed
<1>3. /\ DOMAIN file = Logs /\ DOMAIN file[k] = DOMAIN NoFile
      /\ T \in SUBSET AlertRow
  BY <1>2, FilesOK DEF CInv, Typed, FileOK
<1>4. /\ Keyed(T) => Keyed(U)
      /\ \A h, list, n, j : Covers(T, h, list, n, j) => Covers(U, h, list, n, j)
      /\ \A j : IdsBelow(T, j) => IdsBelow(U, j)
  <2>1. Marked(t) \in SUBSET T
    BY DEF Marked
  <2> HIDE DEF T
  <2>2. QED
    BY <1>3, <2>1, Retagged
<1> HIDE DEF U
<1>5. /\ file'[k].alerts = U /\ file'[k].hits = file[k].hits
      /\ \A l \in Logs \ {k} : file'[l] = file[l]
  BY <1>1, <1>2, <1>3, FileFields
<1>6. Others(t) /\ pc'[t] = "idle"
  <2>1. \E c : loc' = [loc EXCEPT ![t] = c]
    BY <1>1
  <2>2. QED
    BY <1>1, <2>1, OthersQuiet
<1>7. \A u \in Tasks : pc'[u] = "rule" /\ Log(u)' = k => pc[u] = "rule" /\ Log(u) = k
  BY <1>6 DEF Others, Log
<1>8. OnlyLog(t)
  BY <1>1, <1>2, <1>5 DEF OnlyLog
<1>9. ASSUME NEW u \in Tasks, owner'[k] = u PROVE OwnerOK(k, u)'
  <2>1. OwnerOK(k, u)
    BY <1>1, <1>9 DEF CInv, HuntInv, OwnerInv
  <2>2. u # t
    BY <1>1, <2>1 DEF OwnerOK, Hunting
  <2>3. pc'[u] = pc[u] /\ loc'[u] = loc[u] /\ Log(u)' = Log(u)
    BY <1>6, <2>2 DEF Others, Log
  <2>4. Ran(loc'[u], file'[k].alerts, file'[k].hits)
    BY <1>2, <1>4, <1>5, <2>1, <2>3 DEF OwnerOK, Ran
  <2>5. ~crowded'[k] => IdsBelow(file'[k].alerts, loc'[u].next) /\ OnlyRunner(k, u)'
    BY <1>1, <1>2, <1>4, <1>5, <1>7, <2>1, <2>3 DEF OwnerOK, OnlyRunner
  <2>6. QED
    BY <2>1, <2>3, <2>4, <2>5 DEF OwnerOK
<1>10. ReportOK(k)'
  <2>1. ReportOK(k)
    BY DEF CInv, HuntInv, ReportedInv
  <2>2. Reported(verdict'[k], file'[k].alerts, file'[k].hits)
    BY <1>1, <1>2, <1>4, <1>5, <2>1 DEF ReportOK, Reported
  <2>3. ReportedAll(verdict[k], file[k].alerts) => ReportedAll(verdict'[k], file'[k].alerts)
    BY <1>1, <1>2, <1>4, <1>5 DEF ReportedAll
  <2>4. QED
    BY <1>1, <1>7, <2>1, <2>2, <2>3 DEF ReportOK
<1>11. Keyed(file'[k].alerts) /\ Numbered(pc'[t], loc'[t])
  BY <1>2, <1>4, <1>5, <1>6 DEF CInv, HuntInv, KeyedInv, Numbered, Hunting
<1>12. ASSUME NEW u \in Tasks, pc'[u] \in Emptied, Log(u)' = k
       PROVE  file'[k].alerts = {} /\ ~verdict'[k].done
  <2>1. pc[u] \in Emptied /\ Log(u) = k
    BY <1>6, <1>12 DEF Others, Emptied, Log
  <2>2. T = {} /\ ~verdict[k].done
    BY <1>2, <2>1 DEF CInv, HuntInv, EmptiedInv
  <2>3. QED
    BY <1>1, <1>5, <2>2 DEF U, Marked
<1>13. QED
  BY <1>2, <1>6, <1>8, <1>9, <1>10, <1>11, <1>12, OtherLogs DEF Emptied

(* The steps that leave the tables and the events of every log.              *)
LEMMA BeginHunt ==
  ASSUME CInv, NEW t \in Tasks, NEW cmd, NEW h,
         NEW step \in {"drop alerts", "publish", "init", "update"},
         Issue(t, cmd, h, step), loc' = loc \/ \E c : loc' = [loc EXCEPT ![t] = c],
         SameTables, UNCHANGED history
  PROVE  HuntInv'
<1>1. pc[t] = "idle" /\ pc'[t] = step /\ Others(t)
  BY DEF Issue, Goto, Others, CInv, Typed, TypeOK
<1>2. QED
  BY <1>1, CalmStep DEF Hunting, Emptied

LEMMA EndHunt ==
  ASSUME CInv, NEW t \in Tasks,
         \/ IngestFails(t) \/ Publish(t) \/ PublishFails(t) \/ HuntFails(t) \/ TriageFails(t)
  PROVE  HuntInv'
<1>1. /\ Return(t) /\ file' = file /\ UNCHANGED history /\ pc[t] \notin Hunting
  BY DEF IngestFails, Publish, PublishFails, HuntFails, TriageFails, At, Hunting
<1>2. Others(t) /\ pc'[t] = "idle" /\ SameTables
  BY <1>1 DEF Return, Goto, Others, SameTables, CInv, Typed, TypeOK
<1>3. QED
  BY <1>1, <1>2, CalmStep DEF Hunting, Emptied

LEMMA CalmWrite ==
  ASSUME CInv, NEW t \in Tasks,
         DropRuns(t) \/ LastFlush(t) \/ RecordRun(t) \/ EnsureAlertSchema(t) \/ HuntInit(t)
  PROVE  HuntInv'
<1> DEFINE F == file[Log(t)]
<1>1. /\ pc[t] \in {"drop runs", "append", "record", "ensure", "init"}
      /\ UNCHANGED <<loc, history>>
  BY DEF DropRuns, LastFlush, RecordRun, EnsureAlertSchema, HuntInit, At
<1>2. DOMAIN F = DOMAIN NoFile
  BY <1>1, BusyLog DEF CInv, Typed, FileOK
<1>3. PICK f, step : /\ Write(t, f, step) /\ f.alerts = F.alerts /\ f.hits = F.hits
                     /\ step \notin Hunting
                     /\ step \in Emptied => pc[t] \in Emptied
  <2>1. /\ [F EXCEPT !.whole = FALSE].alerts = F.alerts
        /\ [F EXCEPT !.whole = FALSE].hits = F.hits
        /\ [F EXCEPT !.full = TRUE].alerts = F.alerts
        /\ [F EXCEPT !.full = TRUE].hits = F.hits
        /\ [F EXCEPT !.whole = TRUE].alerts = F.alerts
        /\ [F EXCEPT !.whole = TRUE].hits = F.hits
        /\ [F EXCEPT !.ready = TRUE].alerts = F.alerts
        /\ [F EXCEPT !.ready = TRUE].hits = F.hits
    BY <1>2, FileFields
  <2>2. /\ \A step \in {"record", "ensure", "publish", "reset"} :
             step \notin Hunting /\ step \notin Emptied
        /\ "drop events" \notin Hunting /\ "drop runs" \in Emptied
    BY DEF Hunting, Emptied
  <2>3. CASE DropRuns(t)
    BY <2>1, <2>2, <2>3 DEF DropRuns, At
  <2>4. CASE LastFlush(t)
    BY <2>1, <2>2, <2>4 DEF LastFlush
  <2>5. CASE RecordRun(t)
    BY <2>1, <2>2, <2>5 DEF RecordRun
  <2>6. CASE EnsureAlertSchema(t)
    BY <2>1, <2>2, <2>6 DEF EnsureAlertSchema
  <2>7. CASE HuntInit(t)
    BY <2>1, <2>2, <2>7 DEF HuntInit
  <2>8. QED
    BY <2>3, <2>4, <2>5, <2>6, <2>7
<1>4. /\ Log(t) \in Logs /\ file'[Log(t)] = f /\ \A l \in Logs \ {Log(t)} : file'[l] = file[l]
  BY <1>1, <1>3, OwnFileOnly DEF Write
<1>5. SameTables
  BY <1>3, <1>4 DEF SameTables
<1>6. Others(t) /\ pc'[t] = step /\ on' = on
  BY <1>1, <1>3, OthersQuiet DEF Write, Goto
<1>7. QED
  BY <1>1, <1>3, <1>5, <1>6, CalmStep DEF Hunting

LEMMA StepHunt ==
  ASSUME Copies = 1, CInv, NEW t \in Tasks, Step(t)
  PROVE  HuntInv'
BY DropAlertsStep, EventsStep, ResetStep, RulesHunt, ReturnsStep, TriageStep, EndHunt,
   CalmWrite DEF Step

LEMMA NextHunt ==
  ASSUME Copies = 1, CInv, [Next]_vars
  PROVE  HuntInv'
<1>1. ASSUME NEW t \in Tasks, NEW l \in Logs, Ingest(t, l) \/ OpenExisting(t, l)
      PROVE  HuntInv'
  <2>1. \/ OpenStore(t, "ingest", l, "drop alerts")
        \/ OpenStore(t, "open", l, "publish")
    BY <1>1 DEF Ingest, OpenExisting
  <2> DEFINE opens(cmd, h, step) ==
               /\ Issue(t, cmd, h, step) /\ UNCHANGED <<loc, history>>
               /\ file' = [file EXCEPT ![l] = Opened(l)]
  <2>2. PICK h : opens("ingest", h, "drop alerts") \/ opens("open", h, "publish")
    BY <2>1 DEF OpenStore
  <2>3. Opened(l).alerts = file[l].alerts /\ Opened(l).hits = file[l].hits
    BY FilesOK, FileFields DEF CInv, Typed, FileOK, Opened
  <2>4. SameTables
    BY <2>2, <2>3 DEF SameTables, CInv, Typed
  <2>5. QED
    BY <2>2, <2>4, BeginHunt
<1>2. ASSUME NEW t \in Tasks, Hunt(t) PROVE HuntInv'
  BY <1>2, BeginHunt DEF Hunt, SameTables
<1>3. ASSUME NEW t \in Tasks, NEW id, Triage(t, id) PROVE HuntInv'
  BY <1>3, BeginHunt DEF Triage, SameTables
<1>4. CASE Close \/ UNCHANGED vars
  <2>1. UNCHANGED <<file, pc, on, loc, owner, verdict, crowded>>
    BY <1>4 DEF Close, vars, history
  <2>2. KeyedInv' /\ NumberedInv' /\ EmptiedInv'
    BY <2>1 DEF CInv, HuntInv, KeyedInv, NumberedInv, EmptiedInv, Log
  <2>3. \A l \in Logs : ReportOK(l) => ReportOK(l)'
    BY <2>1 DEF ReportOK, Log
  <2>4. \A l \in Logs : \A t \in Tasks : OwnerOK(l, t) => OwnerOK(l, t)'
    BY <2>1 DEF OwnerOK, OnlyRunner, Log
  <2>5. QED
    BY <2>1, <2>2, <2>3, <2>4 DEF CInv, HuntInv, OwnerInv, ReportedInv
<1>5. CASE Restart
  <2>1. /\ UNCHANGED <<file, verdict, crowded>>
        /\ \A t \in Tasks : pc'[t] = "idle" /\ \A l \in Logs : owner'[l] # t
    BY <1>5, LogAssumption DEF Restart
  <2>2. KeyedInv'
    BY <2>1 DEF CInv, HuntInv, KeyedInv
  <2>3. ReportedInv'
    BY <2>1 DEF CInv, HuntInv, ReportedInv, ReportOK
  <2>4. NumberedInv' /\ OwnerInv' /\ EmptiedInv'
    BY <2>1 DEF NumberedInv, Numbered, OwnerInv, EmptiedInv, Hunting, Emptied
  <2>5. QED
    BY <2>2, <2>3, <2>4 DEF HuntInv
<1>6. QED
  BY <1>1, <1>2, <1>3, <1>4, <1>5, StepHunt DEF Next

(* Where a file can be open only once: of a hunt that reports no error, the  *)
(* alerts it counts are one for each match of each rule it ran, although     *)
(* hunts of the same log overlap, with rules of their own, reset each        *)
(* other's tables and all number their alerts from 1, a rule can fail        *)
(* between two inserts, and triage, failures and restarts come in between.   *)
(* Nothing else is in the table, unless another hunt was running rules when  *)
(* it reset the table.                                                       *)
THEOREM CleanHuntsAreComplete == ASSUME Copies = 1 PROVE Spec => []CleanHuntComplete
<1>1. Init => CInv
  BY InitIInv, InitTyped, InitHuntInv DEF CInv
<1>2. CInv /\ [Next]_vars => CInv'
  BY NextIInv, NextTyped, NextHunt DEF CInv
<1>3. CInv => CleanHuntComplete
  <2> SUFFICES ASSUME CInv, NEW l \in Logs, verdict[l].done, verdict[l].clean
               PROVE  /\ {<<a.rule, a.nth>> : a \in Counted(l)}
                           = Matches(verdict[l].list, file[l].hits)
                      /\ Cardinality(Counted(l)) = verdict[l].total
                      /\ crowded[l] \/ Counted(l) = file[l].alerts
    BY DEF CleanHuntComplete
  <2> DEFINE T == file[l].alerts
             v == verdict[l]
  <2>1. /\ T \in SUBSET AlertRow /\ v.total \in Nat /\ v.list \in Catalogs \cup {<<>>}
    BY FilesOK DEF CInv, Typed, FileOK, TypeOK
  <2>2. Keyed(T) /\ Covers(T, file[l].hits, v.list, Len(v.list) + 1, v.total + 1)
    BY DEF CInv, HuntInv, KeyedInv, ReportedInv, ReportOK, Reported
  <2>3. Counted(l) = Below(T, v.total + 1)
    BY <2>1 DEF Counted, Below, AlertRow
  <2>4. Done(v.list, file[l].hits, Len(v.list) + 1) = Matches(v.list, file[l].hits)
    <3> HIDE DEF T, v
    <3>1. DOMAIN v.list = 1 .. Len(v.list) /\ Len(v.list) \in Nat
      <4>1. CASE v.list \in Catalogs
        BY <4>1, ListsHaveRules
      <4>2. CASE v.list = <<>>
        BY <4>2
      <4>3. QED
        BY <2>1, <4>1, <4>2
    <3>2. {q \in DOMAIN v.list : q < Len(v.list) + 1} = DOMAIN v.list
      BY <3>1
    <3>3. QED
      BY <3>2 DEF Done, Matches
  <2>5. Marks(Counted(l)) = Matches(v.list, file[l].hits)
    BY <2>2, <2>3, <2>4 DEF Covers
  <2>6. Cardinality(Counted(l)) = v.total
    <3>1. \A id \in 1 .. v.total : \E a \in T : a.id = id
      BY <2>1, <2>2 DEF Covers
    <3> HIDE DEF T, v
    <3>2. Cardinality({a \in T : a.id <= v.total}) = v.total
      BY <2>1, <2>2, <3>1, AsManyRows
    <3>3. QED
      BY <3>2 DEF Counted, T, v
  <2>7. ASSUME ~crowded[l] PROVE Counted(l) = T
    <3>1. IdsBelow(T, v.total + 1)
      BY <2>7 DEF CInv, HuntInv, ReportedInv, ReportOK, ReportedAll
    <3>2. QED
      BY <2>3, <3>1 DEF Below, IdsBelow
  <2>8. QED
    BY <2>5, <2>6, <2>7 DEF Marks
<1>4. QED
  BY <1>1, <1>2, <1>3, PTL DEF Spec
=============================================================================
