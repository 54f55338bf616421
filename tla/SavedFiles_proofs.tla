-------------------------- MODULE SavedFiles_proofs --------------------------
(***************************************************************************)
(* Theorems about how a profile reaches its file.                          *)
(*                                                                         *)
(* AtomicWrite, for any number of writers, contents, process ids, temp     *)
(* names and restarts: type correctness, that the target is never missing  *)
(* its data, that temporaries are exclusive, and that `write` implements   *)
(* the atomic register of AtomicFile.                                      *)
(*                                                                         *)
(* ProfileSession, for any number of files, saves and edits: its variables *)
(* keep their types, and a profile that is not marked dirty is what its    *)
(* file holds (CleanMeansSaved).                                           *)
(***************************************************************************)
EXTENDS AtomicWrite, ProfileSession, TLAPS

(* What a call has achieved by the time it reaches each of its steps: its    *)
(* counter value has been handed out, so the next call gets another one, and *)
(* its file is durable before the rename.                                    *)
TempProgress ==
  /\ \A w \in Writers : Named(w) => num[w] < counter
  /\ \A w \in Writers : pc[w] = "rename" => tmp[TempPath(w)].synced

(* The inductive invariant. *)
IInv == TypeOK /\ TargetWhole /\ TempExclusive /\ TempProgress

-----------------------------------------------------------------------------
(* Every initial state satisfies the inductive invariant. *)
LEMMA InitIInv == Init => IInv
<1> SUFFICES ASSUME Init PROVE IInv
  OBVIOUS
<1>1. TypeOK
  <2>1. target \in File /\ replaced \in Data
    BY DEF Init, File, Data
  <2>2. tmp \in [Names -> File]
    BY DEF Init, File, NoFile, Data
  <2>3. counter \in 0 .. MaxTemps /\ num \in [Writers -> 0 .. MaxTemps]
    BY BoundsAssumption DEF Init
  <2>4. pc \in [Writers -> Steps] /\ src \in [Writers -> Data]
    BY DEF Init, Steps, Data
  <2>5. QED
    BY <2>1, <2>2, <2>3, <2>4 DEF Init, TypeOK, Data
<1>2. TargetWhole
  BY ContentsAssumption DEF Init, TargetWhole, WholeOnDisk
<1>3. TempExclusive /\ TempProgress
  BY DEF Init, TempExclusive, TempProgress, Named
<1>4. QED
  BY <1>1, <1>2, <1>3 DEF IInv

(* A temp name is one of the names. *)
LEMMA PathType == ASSUME TypeOK, NEW w \in Writers PROVE TempPath(w) \in Names
BY DEF TypeOK, TempPath, Names

(* A call in progress has contents to write. *)
LEMMA BusyHasContents ==
  ASSUME TypeOK, NEW w \in Writers, pc[w] # "idle" PROVE arg[w] \in Contents
BY DEF TypeOK

(* A call's step keeps every variable in its type. *)
LEMMA CallTypeOK == ASSUME IInv, NEW w \in Writers, Call(w) PROVE TypeOK'
<1> USE DEF IInv, TypeOK, Data, File, NoFile, Names, Steps, Goto,
            fsVars, callVars, procVars, histVars
<1>1. ASSUME NEW c \in Contents, Begin(w, c) PROVE TypeOK'
  BY <1>1, ContentsAssumption DEF Begin
<1>2. CASE CopyOpen(w)
  BY <1>2 DEF CopyOpen
<1>3. CASE CopyDone(w)
  BY <1>3 DEF CopyDone
<1>4. CASE CopyFails(w)
  BY <1>4 DEF CopyFails
<1>5. CASE TakeName(w)
  BY <1>5, BoundsAssumption DEF TakeName
<1>6. CASE Create(w)
  BY <1>6 DEF Create, TempPath
<1>7. CASE Fill(w)
  BY <1>7 DEF Fill, TempPath
<1>8. CASE Sync(w)
  BY <1>8, ZenonT(30) DEF Sync, TempPath
<1>9. CASE TempFails(w)
  BY <1>9, BoundsAssumption DEF TempFails, Return
<1>10. CASE Rename(w)
  BY <1>10, BoundsAssumption DEF Rename, Return, TempPath
<1>11. CASE RenameFails(w)
  <2>1. NoFile \in File
    OBVIOUS
  <2>2. [tmp EXCEPT ![TempPath(w)] = NoFile] \in [Names -> File]
    BY <2>1
  <2>3. tmp' \in [Names -> File]
    BY <1>11, <2>2 DEF RenameFails
  <2>4. QED
    BY <1>11, <2>3, BoundsAssumption DEF RenameFails, Return
<1>12. QED
  BY <1>1, <1>2, <1>3, <1>4, <1>5, <1>6, <1>7, <1>8, <1>9, <1>10, <1>11 DEF Call

(* A call's step leaves whole contents at the target, now and after power    *)
(* loss: only the rename writes there, and it moves a synced, filled file.   *)
LEMMA CallTargetWhole == ASSUME IInv, NEW w \in Writers, Call(w) PROVE TargetWhole'
<1> USE DEF IInv, TargetWhole, fsVars
<1>1. CASE Rename(w)
  <2>1. WholeOnDisk(tmp[TempPath(w)])
    BY <1>1, BusyHasContents, ContentsAssumption
    DEF Rename, TempExclusive, TempProgress, WholeOnDisk
  <2>2. QED
    BY <1>1, <2>1 DEF Rename
<1>2. CASE ~Rename(w)
  <2>1. target' = target /\ past' = past
    BY <1>2 DEF Call, Begin, CopyOpen, CopyDone, CopyFails, TakeName, Create,
                Fill, Sync, TempFails, RenameFails
  <2>2. QED
    BY <2>1
<1>3. QED
  BY <1>1, <1>2

(* A call's step keeps temporaries exclusive and every call on course. *)
LEMMA CallExclusive ==
  ASSUME IInv, NEW w \in Writers, Call(w) PROVE (TempExclusive /\ TempProgress)'
<1> USE DEF IInv, TempExclusive, TempProgress, Named, Goto, TempPath,
            fsVars, callVars, procVars
<1>0. TypeOK /\ \A v \in Writers : num[v] \in Nat /\ TempPath(v) \in Names
  BY PathType, BoundsAssumption DEF TypeOK
<1>1. ASSUME NEW c \in Contents, Begin(w, c)
      PROVE  (TempExclusive /\ TempProgress)'
  BY <1>1 DEF Begin, TypeOK
<1>2. CASE CopyOpen(w) \/ CopyDone(w) \/ CopyFails(w)
  BY <1>2 DEF CopyOpen, CopyDone, CopyFails, TypeOK
<1>3. CASE TakeName(w)
  BY <1>0, <1>3 DEF TakeName, TypeOK
<1>4. CASE Create(w)
  BY <1>0, <1>4 DEF Create, TypeOK
<1>5. CASE Fill(w)
  BY <1>0, <1>5 DEF Fill, TypeOK
<1>6. CASE Sync(w)
  BY <1>0, <1>6 DEF Sync, TypeOK
<1>7. CASE TempFails(w)
  BY <1>0, <1>7 DEF TempFails, Return, TypeOK
<1>8. CASE Rename(w)
  BY <1>0, <1>8 DEF Rename, Return, TypeOK
<1>9. CASE RenameFails(w)
  BY <1>0, <1>9 DEF RenameFails, Return, TypeOK
<1>10. QED
  BY <1>1, <1>2, <1>3, <1>4, <1>5, <1>6, <1>7, <1>8, <1>9 DEF Call

(* A restart, by a crash or a power loss, keeps the inductive invariant: no  *)
(* call survives it, and what the target may hold afterwards was durable.    *)
LEMMA RestartIInv == ASSUME IInv, Crash \/ PowerLoss PROVE IInv'
<1> USE DEF IInv
<1>1. (TempExclusive /\ TempProgress)'
  BY DEF Crash, PowerLoss, Restart, TempExclusive, TempProgress, Named
<1>2. \A f \in past \cup {target} : Survivor(f) = f
  BY DEF TargetWhole, WholeOnDisk, Survivor
<1>3. TargetWhole' /\ target' \in File /\ past' \subseteq File
  BY <1>2 DEF Crash, PowerLoss, TargetWhole, fsVars, TypeOK
<1>4. tmp' \in [Names -> File]
  <2>1. \A f \in File : Survivor(f) \in File
    BY DEF Survivor, File, Data
  <2>2. QED
    BY <2>1 DEF Crash, PowerLoss, fsVars, TypeOK
<1>5. bak' \in Data
  BY DEF Crash, PowerLoss, fsVars, TypeOK, Data
<1>6. TypeOK'
  <2>1. Restart
    BY DEF Crash, PowerLoss
  <2>2. counter' \in 0 .. MaxTemps /\ num' \in [Writers -> 0 .. MaxTemps]
    BY <2>1, BoundsAssumption DEF Restart
  <2>3. pc' \in [Writers -> Steps] /\ src' \in [Writers -> Data]
    BY <2>1 DEF Restart, Steps, Data
  <2>4. boots' \in Nat /\ inherited' \subseteq Names
    BY <2>1 DEF Restart, TypeOK
  <2>5. QED
    BY <1>3, <1>4, <1>5, <2>1, <2>2, <2>3, <2>4 DEF Restart, TypeOK
<1>7. QED
  BY <1>1, <1>3, <1>6

(* Every step keeps the inductive invariant. *)
LEMMA NextIInv == IInv /\ [Next]_vars => IInv'
<1> SUFFICES ASSUME IInv, [Next]_vars PROVE IInv'
  OBVIOUS
<1>1. ASSUME NEW w \in Writers, Call(w) PROVE IInv'
  BY <1>1, CallTypeOK, CallTargetWhole, CallExclusive DEF IInv
<1>2. CASE Crash \/ PowerLoss
  BY <1>2, RestartIInv
<1>3. CASE Flush
  BY <1>3 DEF Flush, IInv, TypeOK, TargetWhole, TempExclusive, TempProgress,
              Named, TempPath, callVars, procVars, histVars
<1>4. CASE UNCHANGED vars
  BY <1>4 DEF vars, IInv, TypeOK, TargetWhole, TempExclusive, TempProgress,
              Named, TempPath, fsVars, callVars, procVars, histVars
<1>5. QED
  BY <1>1, <1>2, <1>3, <1>4 DEF Next

(* The inductive invariant holds in every reachable state. *)
THEOREM Invariance == Spec => []IInv
BY InitIInv, NextIInv, PTL DEF Spec

(* Every variable keeps its type. *)
THEOREM TypeCorrect == Spec => []TypeOK
<1>1. IInv => TypeOK
  BY DEF IInv
<1>2. QED
  BY <1>1, Invariance, PTL

(* A reader of the target sees one whole version or another, and so does a   *)
(* reader after a power loss: no interleaving of calls, failures, crashes    *)
(* and power losses leaves a missing or half-written file there.             *)
THEOREM TargetAlwaysWhole == Spec => []TargetWhole
<1>1. IInv => TargetWhole
  BY DEF IInv
<1>2. QED
  BY <1>1, Invariance, PTL

(* No two calls ever share a temporary, and each renames its own contents.   *)
THEOREM TempAlwaysExclusive == Spec => []TempExclusive
<1>1. IInv => TempExclusive
  BY DEF IInv
<1>2. QED
  BY <1>1, Invariance, PTL

-----------------------------------------------------------------------------
(* Where temporaries come from: a name that this process has not handed out  *)
(* yet, and a name that nobody holds although no IO call failed, can exist   *)
(* only since before this process.                                           *)
Held(n) == \E w \in Writers : pc[w] \in {"fill", "sync", "rename"} /\ TempPath(w) = n
TempOrigin ==
  /\ \A n \in Strays : n[1] = pid /\ n[2] >= counter => n \in inherited
  /\ CollisionsInherited
  /\ ~ioFailed => \A n \in Strays : n \in inherited \/ Held(n)

LEMMA InitOrigin == Init => TempOrigin
BY DEF Init, TempOrigin, CollisionsInherited, Strays

(* The steps before a call has a temporary name. *)
LEMMA CopyOrigin ==
  ASSUME IInv, TempOrigin, NEW w \in Writers,
         \/ \E c \in Contents : Begin(w, c)
         \/ CopyOpen(w) \/ CopyDone(w) \/ CopyFails(w)
  PROVE  TempOrigin'
<1>1. /\ UNCHANGED <<tmp, num, counter, pid, inherited, ioFailed>>
      /\ pc[w] \in {"idle", "copy", "copying"}
      /\ \E step \in {"copy", "copying", "temp"} : Goto(w, step)
  BY DEF Begin, CopyOpen, CopyDone, CopyFails, fsVars, procVars
<1>2. \A v \in Writers : \A s \in {"create", "fill", "sync", "rename"} :
        pc'[v] = s <=> pc[v] = s
  BY <1>1 DEF IInv, TypeOK, Goto
<1>3. QED
  BY <1>1, <1>2 DEF TempOrigin, CollisionsInherited, Strays, Held, TempPath

(* The steps that take a name and fill the file of that name. *)
LEMMA FillOrigin ==
  ASSUME IInv, TempOrigin, NEW w \in Writers,
         TakeName(w) \/ Create(w) \/ Fill(w) \/ Sync(w)
  PROVE  TempOrigin'
<1> USE DEF IInv, TypeOK, TempOrigin, CollisionsInherited, Strays, Held, TempPath,
            Goto, fsVars, procVars
<1>1. /\ \A v \in Writers : num[v] \in Nat /\ TempPath(v) \in Names
      /\ \A n \in Names : n[1] \in Pids /\ n[2] \in Nat /\ n = <<n[1], n[2]>>
  BY BoundsAssumption DEF Names
<1>2. CASE TakeName(w)
  <2>1. /\ tmp' = tmp /\ pid' = pid /\ inherited' = inherited /\ ioFailed' = ioFailed
        /\ counter \in Nat /\ counter' = counter + 1
        /\ pc[w] = "temp" /\ pc'[w] = "create" /\ TempPath(w)' = <<pid, counter>>
        /\ \A v \in Writers \ {w} : pc'[v] = pc[v] /\ TempPath(v)' = TempPath(v)
        /\ <<pid, counter>> \in Names
    BY <1>2, BoundsAssumption DEF TakeName, Names
  <2>2. \A n \in Strays' : n[1] = pid' /\ n[2] >= counter' => n \in inherited'
    BY <1>1, <2>1
  <2>3. CollisionsInherited'
    BY <2>1
  <2>4. ~ioFailed' => \A n \in Strays' : n \in inherited' \/ Held(n)'
    BY <2>1
  <2>5. QED
    BY <2>2, <2>3, <2>4
<1>3. CASE Create(w) \/ Fill(w) \/ Sync(w)
  <2>1. /\ num' = num /\ counter' = counter /\ pid' = pid
        /\ inherited' = inherited /\ ioFailed' = ioFailed
        /\ \A n \in Names \ {TempPath(w)} : tmp'[n] = tmp[n]
        /\ pc' = [pc EXCEPT ![w] = pc'[w]] /\ pc'[w] \in {"fill", "sync", "rename"}
        /\ Named(w)
    BY <1>3 DEF Create, Fill, Sync, Named
  <2>2. num[w] < counter /\ \A v \in Writers \ {w} : Named(v) => TempPath(v) # TempPath(w)
    BY <2>1 DEF TempProgress, TempExclusive
  <2>3. \A n \in Strays' : n[1] = pid' /\ n[2] >= counter' => n \in inherited'
    BY <1>1, <2>1, <2>2
  <2>4. CollisionsInherited'
    BY <1>1, <2>1, <2>2 DEF Named
  <2>5. ~ioFailed' => \A n \in Strays' : n \in inherited' \/ Held(n)'
    BY <1>1, <2>1
  <2>6. QED
    BY <2>3, <2>4, <2>5
<1>4. QED
  BY <1>2, <1>3

(* The steps that end a call. *)
LEMMA ReturnOrigin ==
  ASSUME IInv, TempOrigin, NEW w \in Writers,
         TempFails(w) \/ Rename(w) \/ RenameFails(w)
  PROVE  TempOrigin'
<1> USE DEF TempOrigin, CollisionsInherited, Strays, Held, TempPath
<1>1. /\ counter' = counter /\ pid' = pid /\ inherited' = inherited
      /\ \A v \in Writers \ {w} : pc'[v] = pc[v] /\ num'[v] = num[v]
      /\ pc'[w] = "idle"
      /\ Strays' \subseteq Strays
  BY DEF IInv, TypeOK, TempFails, Rename, RenameFails, Return, Goto, fsVars, procVars
<1>2. ~ioFailed' => ~ioFailed /\ Strays' \subseteq Strays \ {TempPath(w)}
  BY PathType DEF IInv, TypeOK, TempFails, Rename, RenameFails, procVars
<1>3. (\A n \in Strays : n[1] = pid /\ n[2] >= counter => n \in inherited)'
  BY <1>1
<1>4. CollisionsInherited'
  <2>1. \A v \in Writers \ {w} : tmp'[TempPath(v)] # NoFile => tmp[TempPath(v)] # NoFile
    BY PathType DEF IInv, TypeOK, TempFails, Rename, RenameFails, fsVars
  <2>2. QED
    BY <1>1, <2>1
<1>5. (~ioFailed => \A n \in Strays : n \in inherited \/ Held(n))'
  BY <1>1, <1>2
<1>6. QED
  BY <1>3, <1>4, <1>5

(* A new process inherits whatever it finds. *)
LEMMA RestartOrigin == ASSUME IInv, Crash \/ PowerLoss PROVE TempOrigin'
BY DEF Crash, PowerLoss, Restart, TempOrigin, CollisionsInherited, Strays

LEMMA NextOrigin == IInv /\ TempOrigin /\ [Next]_vars => TempOrigin'
<1> SUFFICES ASSUME IInv, TempOrigin, [Next]_vars PROVE TempOrigin'
  OBVIOUS
<1>1. ASSUME NEW w \in Writers, Call(w) PROVE TempOrigin'
  BY <1>1, CopyOrigin, FillOrigin, ReturnOrigin DEF Call
<1>2. CASE Crash \/ PowerLoss
  BY <1>2, RestartOrigin
<1>3. CASE Flush \/ UNCHANGED vars
  BY <1>3 DEF Flush, vars, TempOrigin, CollisionsInherited, Strays, Held, TempPath,
              fsVars, callVars, procVars
<1>4. QED
  BY <1>1, <1>2, <1>3 DEF Next

(* The origin of temporaries, in every reachable state. *)
LEMMA Origin == Spec => []TempOrigin
BY InitOrigin, NextOrigin, Invariance, PTL DEF Spec

(* create_new fails over an existing name only where a process of the same   *)
(* pid left a file before this one started: calls of one process never make  *)
(* each other fail.                                                          *)
THEOREM CollisionsComeFromBefore == Spec => []CollisionsInherited
<1>1. TempOrigin => CollisionsInherited
  BY DEF TempOrigin
<1>2. QED
  BY <1>1, Origin, PTL

(* A process at rest in which no IO call failed leaves no temporary behind.  *)
THEOREM NoStraysWithoutFailure == Spec => []StraysOnlyFromFailures
<1>1. TempOrigin => StraysOnlyFromFailures
  BY DEF TempOrigin, Held, StraysOnlyFromFailures
<1>2. QED
  BY <1>1, Origin, PTL

-----------------------------------------------------------------------------
(* Where the backup comes from.  A copy that is still undisturbed belongs to *)
(* a call that is alone, so it reads the target as it is and stays the copy  *)
(* of it until that call renames; and while a copy is being filled no        *)
(* earlier one counts as clean.                                              *)
Undisturbed(w) ==
  /\ pc[w] \notin {"idle", "copy"}
  /\ \A v \in Writers \ {w} : pc[v] = "idle"
  /\ IF pc[w] = "copying" THEN src[w] = target.data ELSE bak = target.data
BackupOrigin ==
  /\ \A w \in Writers : copied[w] => Undisturbed(w)
  /\ clean => bak = replaced /\ \A w \in Writers : pc[w] # "copying"

LEMMA InitBackup == Init => BackupOrigin
BY DEF Init, BackupOrigin

(* The steps that make the copy. *)
LEMMA CopyBackup ==
  ASSUME IInv, BackupOrigin, NEW w \in Writers,
         \/ \E c \in Contents : Begin(w, c)
         \/ CopyOpen(w) \/ CopyDone(w) \/ CopyFails(w)
  PROVE  BackupOrigin'
<1> USE DEF IInv, TypeOK, BackupOrigin, Undisturbed, Goto, fsVars, histVars
<1>1. CASE \E c \in Contents : Begin(w, c)
  BY <1>1 DEF Begin
<1>2. CASE CopyOpen(w)
  <2>1. \A v \in Writers \ {w} : ~copied[v]
    BY <1>2 DEF CopyOpen
  <2>2. QED
    BY <1>2, <2>1 DEF CopyOpen
<1>3. CASE CopyDone(w)
  <2>1. ~clean /\ \A v \in Writers \ {w} : ~copied[v]
    BY <1>3 DEF CopyDone
  <2>2. copied[w] => bak' = target.data /\ \A v \in Writers \ {w} : pc[v] = "idle"
    BY <1>3 DEF CopyDone
  <2>3. QED
    BY <1>3, <2>1, <2>2 DEF CopyDone
<1>4. CASE CopyFails(w)
  BY <1>4 DEF CopyFails
<1>5. QED
  BY <1>1, <1>2, <1>3, <1>4

(* The steps between the copy and the end of the call touch neither the      *)
(* backup nor the target.                                                    *)
LEMMA TempBackup ==
  ASSUME IInv, BackupOrigin, NEW w \in Writers,
         TakeName(w) \/ Create(w) \/ Fill(w) \/ Sync(w)
  PROVE  BackupOrigin'
<1>1. /\ UNCHANGED <<target, bak, src, copied, histVars>>
      /\ pc[w] \in {"temp", "create", "fill", "sync"}
      /\ \E step \in {"create", "fill", "sync", "rename"} : Goto(w, step)
  BY DEF TakeName, Create, Fill, Sync, fsVars
<1>2. QED
  BY <1>1 DEF IInv, TypeOK, BackupOrigin, Undisturbed, Goto, histVars

(* The steps that end a call: the rename replaces what the backup is of. *)
LEMMA ReturnBackup ==
  ASSUME IInv, BackupOrigin, NEW w \in Writers,
         TempFails(w) \/ Rename(w) \/ RenameFails(w)
  PROVE  BackupOrigin'
<1> USE DEF IInv, TypeOK, BackupOrigin, Undisturbed
<1>1. /\ pc[w] \in {"create", "fill", "sync", "rename"} /\ pc'[w] = "idle"
      /\ ~copied'[w] /\ bak' = bak /\ src'[w] = Absent
      /\ \A v \in Writers \ {w} : /\ pc'[v] = pc[v] /\ src'[v] = src[v]
                                  /\ copied'[v] = copied[v] /\ ~copied[v]
  BY DEF TempFails, Rename, RenameFails, Return, Goto, fsVars
<1>2. CASE Rename(w)
  <2>1. replaced' = target.data /\ clean' = copied[w]
    BY <1>2 DEF Rename
  <2>2. QED
    BY <1>1, <2>1
<1>3. CASE TempFails(w) \/ RenameFails(w)
  <2>1. UNCHANGED histVars
    BY <1>3 DEF TempFails, RenameFails
  <2>2. QED
    BY <1>1, <2>1 DEF histVars
<1>4. QED
  BY <1>2, <1>3

LEMMA NextBackup == IInv /\ BackupOrigin /\ [Next]_vars => BackupOrigin'
<1> SUFFICES ASSUME IInv, BackupOrigin, [Next]_vars PROVE BackupOrigin'
  OBVIOUS
<1>1. ASSUME NEW w \in Writers, Call(w) PROVE BackupOrigin'
  BY <1>1, CopyBackup, TempBackup, ReturnBackup DEF Call
<1>2. CASE Crash \/ PowerLoss
  BY <1>2 DEF Crash, PowerLoss, Restart, BackupOrigin
<1>3. CASE Flush \/ UNCHANGED vars
  BY <1>3 DEF Flush, vars, BackupOrigin, Undisturbed, fsVars, callVars, histVars
<1>4. QED
  BY <1>1, <1>2, <1>3 DEF Next

(* With failures, crashes and power losses before it: once a write that no   *)
(* other call overlapped and whose copy was made has returned, and nothing   *)
(* has begun since, .bak holds what that write replaced.                     *)
THEOREM BackupIsPrevious == Spec => []BackupHoldsPrevious
<1>1. BackupOrigin => BackupHoldsPrevious
  BY DEF BackupOrigin, BackupHoldsPrevious
<1>2. QED
  BY <1>1, InitBackup, NextBackup, Invariance, PTL DEF Spec

-----------------------------------------------------------------------------
(* The initial states map to initial states of the register. *)
LEMMA InitRegister == Init => Register!Init
BY DEF Init, Register!Init

(* Begin is the register's Start. *)
LEMMA BeginStarts ==
  ASSUME IInv, NEW w \in Writers, NEW c \in Contents, Begin(w, c)
  PROVE  Register!Start(w, c)
BY ContentsAssumption DEF IInv, TypeOK, Begin, Goto, Register!Start, fsVars

(* Rename is the register's Commit. *)
LEMMA RenameCommits ==
  ASSUME IInv, NEW w \in Writers, Rename(w) PROVE Register!Commit(w)
<1>1. tmp[TempPath(w)].data = arg[w] /\ arg[w] # Idle
  BY BusyHasContents, ContentsAssumption DEF IInv, TempExclusive, Rename
<1>2. {f.data : f \in past'} = {f.data : f \in past} \cup {target.data}
  BY DEF Rename
<1>3. QED
  BY <1>1, <1>2 DEF IInv, TypeOK, Rename, Return, Goto, Register!Commit

(* A failed write or rename is the register's Fail. *)
LEMMA FailureFails ==
  ASSUME IInv, NEW w \in Writers, TempFails(w) \/ RenameFails(w)
  PROVE  Register!Fail(w)
<1>1. pc[w] # "idle" /\ arg[w] # Idle
  BY BusyHasContents, ContentsAssumption DEF IInv, TempFails, RenameFails
<1>2. target' = target /\ past' = past
  BY DEF TempFails, RenameFails, fsVars
<1>3. Return(w)
  BY DEF TempFails, RenameFails
<1>4. QED
  BY <1>1, <1>2, <1>3 DEF IInv, TypeOK, Return, Goto, Register!Fail

(* The other steps of a call do not show at the register. *)
LEMMA OthersStutter ==
  ASSUME IInv, NEW w \in Writers,
         \/ CopyOpen(w) \/ CopyDone(w) \/ CopyFails(w) \/ TakeName(w)
         \/ Create(w) \/ Fill(w) \/ Sync(w)
  PROVE  UNCHANGED Register!vars
<1>1. /\ target' = target /\ past' = past /\ arg' = arg
      /\ pc[w] # "idle"
      /\ \E step \in Steps \ {"idle"} : Goto(w, step)
  BY DEF CopyOpen, CopyDone, CopyFails, TakeName, Create, Fill, Sync, fsVars, Steps
<1>2. \A v \in Writers : pc[v] = "idle" <=> pc'[v] = "idle"
  BY <1>1 DEF IInv, TypeOK, Goto
<1>3. QED
  BY <1>1, <1>2 DEF Register!vars

(* A crash or a power loss is the register's. *)
LEMMA RestartRestarts ==
  ASSUME IInv, Crash \/ PowerLoss PROVE Register!Crash \/ Register!PowerLoss
<1>1. CASE Crash
  BY <1>1 DEF Crash, Restart, fsVars, Register!Crash
<1>2. CASE PowerLoss
  <2>1. PICK f \in past \cup {target} : target' = Survivor(f)
    BY <1>2 DEF PowerLoss
  <2>2. target' = f
    BY <2>1 DEF IInv, TargetWhole, WholeOnDisk, Survivor
  <2>3. QED
    BY <1>2, <2>2 DEF PowerLoss, Restart, Register!PowerLoss
<1>3. QED
  BY <1>1, <1>2

(* Every step is a step of the register or a stutter. *)
LEMMA NextRegister == IInv /\ [Next]_vars => [Register!Next]_(Register!vars)
<1> SUFFICES ASSUME IInv, [Next]_vars PROVE [Register!Next]_(Register!vars)
  OBVIOUS
<1>1. ASSUME NEW w \in Writers, Call(w) PROVE [Register!Next]_(Register!vars)
  <2>1. ASSUME NEW c \in Contents, Begin(w, c) PROVE Register!Next
    BY <2>1, BeginStarts DEF Register!Next
  <2>2. CASE Rename(w)
    BY <2>2, RenameCommits DEF Register!Next
  <2>3. CASE TempFails(w) \/ RenameFails(w)
    BY <2>3, FailureFails DEF Register!Next
  <2>4. CASE \/ CopyOpen(w) \/ CopyDone(w) \/ CopyFails(w) \/ TakeName(w)
             \/ Create(w) \/ Fill(w) \/ Sync(w)
    BY <2>4, OthersStutter
  <2>5. QED
    BY <1>1, <2>1, <2>2, <2>3, <2>4 DEF Call
<1>2. CASE Crash \/ PowerLoss
  BY <1>2, RestartRestarts DEF Register!Next
<1>3. CASE Flush
  BY <1>3 DEF Flush, callVars, Register!Next, Register!Flush
<1>4. CASE UNCHANGED vars
  BY <1>4 DEF vars, fsVars, callVars, Register!vars
<1>5. QED
  BY <1>1, <1>2, <1>3, <1>4 DEF Next

(* `write` is an atomic register: for any number of overlapping calls, with  *)
(* any IO failures, crashes and power losses, the target changes only by     *)
(* whole replacements, one per call that succeeds and none per call that     *)
(* fails ("if any step fails, the original file is untouched").              *)
THEOREM Refinement == Spec => RegisterSpec
BY InitRegister, NextRegister, Invariance, PTL DEF Spec, RegisterSpec, Register!Spec

-----------------------------------------------------------------------------
(* The session of the edited profile. *)

(* A save that is pending has a file to write to, and an open that is        *)
(* pending one to read.                                                      *)
CallsWhole ==
  /\ \A s \in Saves : save[s] # NoSave =>
       save[s].step # "none" /\ save[s].path \in Paths
  /\ load # NoLoad => load.step # "none" /\ load.path \in Paths

(* As long as nothing is entangled: one save at a time, of the profile as it *)
(* is, with no open beside it,                                               *)
OneSave ==
  ~entangled =>
    /\ \A s, t \in Saves : save[s] # NoSave /\ save[t] # NoSave => s = t
    /\ \A s \in Saves : save[s] # NoSave => load = NoLoad /\ save[s].version = profile

(* ... what a save has written is still there when it returns, and so is     *)
(* what an open has read.                                                    *)
WrittenStays ==
  ~entangled => \A s \in Saves :
    save[s].step = "written" => disk[save[s].path] = profile
ReadStays ==
  ~entangled => (load.step = "read" => disk[load.path] = load.version)

SessionInv == SessionTypeOK /\ CallsWhole /\ OneSave /\ WrittenStays /\ ReadStays /\ CleanMeansSaved

-----------------------------------------------------------------------------
LEMMA InitSessionInv == SessionInit => SessionInv
<1> SUFFICES ASSUME SessionInit PROVE SessionInv
  OBVIOUS
<1> USE SessionAssumption DEF SessionInit
<1>1. SessionTypeOK
  <2>1. disk \in [Paths -> Versions \cup {None}]
    BY DEF Versions
  <2>2. NoSave \in [step : {"none", "writing", "written"},
                   path : Paths \cup {None}, version : Versions \cup {None}]
    BY DEF NoSave
  <2>3. NoLoad \in [step : {"none", "reading", "read"},
                   path : Paths \cup {None}, version : Versions \cup {None}]
    BY DEF NoLoad
  <2>4. newest \in Versions
    BY DEF Versions
  <2> QED
    BY <2>1, <2>2, <2>3, <2>4 DEF SessionTypeOK
<1>2. CallsWhole /\ OneSave
  BY DEF CallsWhole, OneSave
<1>3. WrittenStays /\ ReadStays
  BY DEF WrittenStays, ReadStays, NoSave, NoLoad
<1>4. CleanMeansSaved
  BY DEF CleanMeansSaved
<1> QED
  BY <1>1, <1>2, <1>3, <1>4 DEF SessionInv

LEMMA StepSessionInv == SessionInv /\ [SessionNext]_sessionVars => SessionInv'
<1> SUFFICES ASSUME SessionInv, [SessionNext]_sessionVars PROVE SessionInv'
  OBVIOUS
<1> USE SessionAssumption DEF SessionInv
<1>a. \A s \in Saves : save[s].step # "none" => save[s] # NoSave
  BY DEF NoSave
<1>b. load.step # "none" => load # NoLoad
  BY DEF NoLoad
<1>1. CASE Edit
  <2> USE <1>1 DEF Edit, editor, Entangle
  <2>1. SessionTypeOK'
    BY DEF SessionTypeOK, Versions
  <2>2. CallsWhole'
    BY DEF CallsWhole
  <2>3. OneSave'
    BY DEF OneSave, Saving
  <2>4. WrittenStays'
    BY <1>a DEF WrittenStays, Saving
  <2>5. ReadStays'
    BY DEF ReadStays
  <2>6. CleanMeansSaved'
    BY DEF CleanMeansSaved
  <2> QED
    BY <2>1, <2>2, <2>3, <2>4, <2>5, <2>6
<1>2. ASSUME NEW s \in Saves, NEW p \in Paths, StartSave(s, p) PROVE SessionInv'
  <2> USE <1>2 DEF StartSave, editor, Entangle
  <2>1. SessionTypeOK'
    BY DEF SessionTypeOK
  <2>2. CallsWhole'
    BY DEF CallsWhole
  <2>3. OneSave'
    BY DEF OneSave, SessionTypeOK, Saving, Busy
  <2>4. WrittenStays'
    BY DEF WrittenStays, SessionTypeOK
  <2>5. ReadStays'
    BY DEF ReadStays
  <2>6. CleanMeansSaved'
    BY DEF CleanMeansSaved
  <2> QED
    BY <2>1, <2>2, <2>3, <2>4, <2>5, <2>6
<1>3. ASSUME NEW s \in Saves, Written(s) PROVE SessionInv'
  <2> USE <1>3 DEF Written, editor, Entangle
  <2>0. save[s] # NoSave /\ save[s].path \in Paths
    BY <1>a DEF CallsWhole
  <2>1. SessionTypeOK'
    BY DEF SessionTypeOK
  <2>2. CallsWhole'
    BY DEF CallsWhole, NoSave
  <2>3. OneSave'
    BY DEF OneSave, NoSave
  <2>4. WrittenStays'
    BY <2>0 DEF WrittenStays, OneSave, SessionTypeOK
  <2>5. ReadStays'
    BY DEF ReadStays, OneSave, NoSave, NoLoad
  <2>6. CleanMeansSaved'
    BY DEF CleanMeansSaved, OneSave, NoSave
  <2> QED
    BY <2>1, <2>2, <2>3, <2>4, <2>5, <2>6
<1>4. ASSUME NEW s \in Saves, SaveFails(s) PROVE SessionInv'
  <2> USE <1>4 DEF SaveFails, editor, Entangle
  <2>1. SessionTypeOK'
    BY DEF SessionTypeOK, NoSave
  <2>2. CallsWhole'
    BY DEF CallsWhole
  <2>3. OneSave'
    BY DEF OneSave
  <2>4. WrittenStays'
    BY DEF WrittenStays, NoSave
  <2>5. ReadStays'
    BY DEF ReadStays
  <2>6. CleanMeansSaved'
    BY DEF CleanMeansSaved
  <2> QED
    BY <2>1, <2>2, <2>3, <2>4, <2>5, <2>6
<1>5. ASSUME NEW s \in Saves, SaveReturns(s) PROVE SessionInv'
  <2> USE <1>5 DEF SaveReturns, editor, Entangle
  <2>0. save[s] # NoSave /\ save[s].path \in Paths
    BY <1>a DEF CallsWhole
  <2>1. SessionTypeOK'
    BY <2>0 DEF SessionTypeOK, NoSave
  <2>2. CallsWhole'
    BY DEF CallsWhole
  <2>3. OneSave'
    BY DEF OneSave
  <2>4. WrittenStays'
    BY DEF WrittenStays, NoSave
  <2>5. ReadStays'
    BY DEF ReadStays
  <2>6. CleanMeansSaved'
    BY <2>0 DEF CleanMeansSaved, WrittenStays
  <2> QED
    BY <2>1, <2>2, <2>3, <2>4, <2>5, <2>6
<1>6. ASSUME NEW p \in Paths, StartOpen(p) PROVE SessionInv'
  <2> USE <1>6 DEF StartOpen, editor, Entangle
  <2>1. SessionTypeOK'
    BY DEF SessionTypeOK
  <2>2. CallsWhole'
    BY DEF CallsWhole
  <2>3. OneSave'
    BY DEF OneSave, Saving, Busy
  <2>4. WrittenStays'
    BY DEF WrittenStays
  <2>5. ReadStays'
    BY DEF ReadStays
  <2>6. CleanMeansSaved'
    BY DEF CleanMeansSaved
  <2> QED
    BY <2>1, <2>2, <2>3, <2>4, <2>5, <2>6
<1>7. CASE Read
  <2> USE <1>7 DEF Read, editor, Entangle
  <2>0. load # NoLoad /\ load.path \in Paths
    BY <1>b DEF CallsWhole
  <2>1. SessionTypeOK'
    BY <2>0 DEF SessionTypeOK
  <2>2. CallsWhole'
    BY DEF CallsWhole, NoLoad
  <2>3. OneSave'
    BY DEF OneSave, NoLoad
  <2>4. WrittenStays'
    BY DEF WrittenStays
  <2>5. ReadStays'
    BY DEF ReadStays
  <2>6. CleanMeansSaved'
    BY DEF CleanMeansSaved
  <2> QED
    BY <2>1, <2>2, <2>3, <2>4, <2>5, <2>6
<1>8. CASE OpenFails
  <2> USE <1>8 DEF OpenFails, editor, Entangle
  <2>1. SessionTypeOK'
    BY DEF SessionTypeOK, NoLoad
  <2>2. CallsWhole'
    BY DEF CallsWhole
  <2>3. OneSave'
    BY DEF OneSave
  <2>4. WrittenStays'
    BY DEF WrittenStays
  <2>5. ReadStays'
    BY DEF ReadStays, NoLoad
  <2>6. CleanMeansSaved'
    BY DEF CleanMeansSaved
  <2> QED
    BY <2>1, <2>2, <2>3, <2>4, <2>5, <2>6
<1>9. CASE Opened
  <2> USE <1>9 DEF Opened, editor, Entangle
  <2>0. load # NoLoad /\ load.path \in Paths
    BY <1>b DEF CallsWhole
  <2>1. SessionTypeOK'
    BY <2>0 DEF SessionTypeOK, NoLoad
  <2>2. CallsWhole'
    BY DEF CallsWhole
  <2>3. OneSave'
    BY DEF OneSave, Saving
  <2>4. WrittenStays'
    BY <1>a DEF WrittenStays, Saving
  <2>5. ReadStays'
    BY DEF ReadStays, NoLoad
  <2>6. CleanMeansSaved'
    BY <2>0 DEF CleanMeansSaved, ReadStays
  <2> QED
    BY <2>1, <2>2, <2>3, <2>4, <2>5, <2>6
<1>10. CASE Close \/ DiscardAndClose
  <2> USE <1>10 DEF Close, DiscardAndClose, ClearStore, editor, Entangle
  <2>1. SessionTypeOK'
    BY DEF SessionTypeOK
  <2>2. CallsWhole'
    BY DEF CallsWhole
  <2>3. OneSave'
    BY DEF OneSave, Saving
  <2>4. WrittenStays'
    BY <1>a DEF WrittenStays, Saving
  <2>5. ReadStays'
    BY DEF ReadStays
  <2>6. CleanMeansSaved'
    BY DEF CleanMeansSaved
  <2> QED
    BY <2>1, <2>2, <2>3, <2>4, <2>5, <2>6
<1>11. CASE /\ UNCHANGED <<editor, disk, save, load, newest, entangled>>
          /\ modal' \in BOOLEAN /\ confirmed' \in BOOLEAN
          /\ window' \in {"open", "asking", "closed"}
  BY <1>11 DEF editor, SessionTypeOK, CallsWhole, OneSave, WrittenStays, ReadStays, CleanMeansSaved
<1>12. QED
  BY <1>1, <1>2, <1>3, <1>4, <1>5, <1>6, <1>7, <1>8, <1>9, <1>10, <1>11
  DEF SessionNext, sessionVars, editor, SessionTypeOK, Save, SaveAs, AskClose, KeepEditing, CloseWindow,
      AskCloseWindow, CloseWindowAgain, CloseAnyway, StayOpen

(* Every variable of the profile session keeps its type, and a profile has a *)
(* path: onSave never needs a picker of its own.                             *)
THEOREM SessionTypeCorrect == SessionSpec => []SessionTypeOK
<1>1. SessionInv => SessionTypeOK
  BY DEF SessionInv
<1> QED
  BY <1>1, InitSessionInv, StepSessionInv, PTL DEF SessionSpec

(* A profile that is not marked dirty is what its file holds, as long as     *)
(* nothing was done while a save was pending.                                *)
THEOREM CleanIsSaved == SessionSpec => []CleanMeansSaved
<1>1. SessionInv => CleanMeansSaved
  BY DEF SessionInv
<1> QED
  BY <1>1, InitSessionInv, StepSessionInv, PTL DEF SessionSpec
=============================================================================
