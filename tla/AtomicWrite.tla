---------------------------- MODULE AtomicWrite -----------------------------
(***************************************************************************)
(* src-tauri/src/atomic.rs: `write` and `temp_sibling`, step by step, for  *)
(* one target file, its `.bak` and its `.tmp-<pid>-<n>` siblings.  Several *)
(* calls run at once (Tauri commands are async and run on a pool), any IO  *)
(* call may fail, the process may die between two steps, and the machine   *)
(* may lose power, which loses data no fsync has made durable.             *)
(***************************************************************************)
EXTENDS Naturals

CONSTANTS
  Writers,     \* calls of `write` that can be in progress at once
  Contents,    \* whole file contents a caller may pass
  Absent,      \* "there is no such file"
  Torn,        \* an empty, cut short or mixed up file
  Idle,        \* no call in progress (of the abstract register)
  Keep,        \* the Backup mode of this file: TRUE for Keep, FALSE for Skip
  Pids,        \* process ids the OS may hand out, and hand out again
  MaxTemps,    \* bound on COUNTER, a u64 in the code
  MaxBoots     \* bound on the number of process starts

ASSUME ContentsAssumption ==
  /\ Absent \notin Contents /\ Torn \notin Contents /\ Idle \notin Contents
  /\ Absent # Torn
ASSUME BoundsAssumption ==
  /\ Keep \in BOOLEAN
  /\ MaxTemps \in Nat /\ MaxBoots \in Nat

VARIABLES
  target,      \* the file at the target path: its data, and whether fsync'd
  past,        \* files the target's directory entry may revert to on power loss
  bak,         \* contents of `<target>.bak`
  tmp,         \* the temporary siblings: temp name -> file
  pc,          \* per call: its next step in `write`
  arg,         \* per call: the contents it writes
  num,         \* per call: the counter value in its temp name
  src,         \* per call: what fs::copy has open for reading
  copied,      \* per call: its backup copy, undisturbed by other calls so far
  counter,     \* temp_sibling's static COUNTER
  pid,         \* std::process::id()
  boots,       \* history: process starts so far, for the bound
  inherited,   \* history: temp names already there when this process started
  ioFailed,    \* history: some IO call on a temporary failed in this process
  replaced,    \* history: contents the last successful write replaced
  clean        \* history: ... and its backup copy was made undisturbed, and no copy since

fsVars   == <<target, past, bak, tmp>>
callVars == <<pc, arg, num, src, copied>>
procVars == <<counter, pid, boots, inherited, ioFailed>>
histVars == <<replaced, clean>>
vars     == <<fsVars, callVars, procVars, histVars>>

Names   == Pids \X (0 .. MaxTemps)
Data    == Contents \cup {Absent, Torn}
File    == [data : Data, synced : BOOLEAN]
NoFile  == [data |-> Absent, synced |-> TRUE]
Steps   == {"idle", "copy", "copying", "temp", "create", "fill", "sync", "rename"}

Goto(w, step) == pc' = [pc EXCEPT ![w] = step]

(* The call returns, and its locals are gone. *)
Return(w) ==
  /\ Goto(w, "idle")
  /\ arg' = [arg EXCEPT ![w] = Absent]
  /\ num' = [num EXCEPT ![w] = 0]
  /\ src' = [src EXCEPT ![w] = Absent]
  /\ copied' = [copied EXCEPT ![w] = FALSE]

(* The temp name of a call that has one, and the temp files on the disk. *)
TempPath(w) == <<pid, num[w]>>
Named(w) == pc[w] \in {"create", "fill", "sync", "rename"}
Strays   == {n \in Names : tmp[n] # NoFile}

Init ==
  /\ \E c \in Contents \cup {Absent} :
       target = [data |-> c, synced |-> TRUE] /\ replaced = c
  /\ past = {}
  /\ bak = Absent
  /\ tmp = [n \in Names |-> NoFile]
  /\ pc = [w \in Writers |-> "idle"]
  /\ arg = [w \in Writers |-> Absent]
  /\ num = [w \in Writers |-> 0]
  /\ src = [w \in Writers |-> Absent]
  /\ copied = [w \in Writers |-> FALSE]
  /\ counter = 0
  /\ pid \in Pids
  /\ boots = 1
  /\ inherited = {}
  /\ ioFailed = FALSE
  /\ clean = FALSE

-----------------------------------------------------------------------------
(* `write` is called; a backup is attempted only over an existing file. *)
Begin(w, c) ==
  /\ pc[w] = "idle"
  /\ Goto(w, IF Keep /\ target.data # Absent THEN "copy" ELSE "temp")
  /\ arg' = [arg EXCEPT ![w] = c]
  /\ copied' = [v \in Writers |-> FALSE]
  /\ UNCHANGED <<fsVars, num, src, procVars, histVars>>

(* fs::copy opens the target and truncates the backup... *)
CopyOpen(w) ==
  /\ pc[w] = "copy"
  /\ Goto(w, "copying")
  /\ src' = [src EXCEPT ![w] = target.data]
  /\ bak' = Torn
  /\ copied' = [copied EXCEPT ![w] = \A v \in Writers \ {w} : pc[v] = "idle"]
  /\ clean' = FALSE
  /\ UNCHANGED <<target, past, tmp, arg, num, procVars, replaced>>

(* Mutated form: the backup is taken of what is about to be written. *)
CopyDoneOfNew(w) ==
  /\ pc[w] = "copying"
  /\ Goto(w, "temp")
  /\ bak' = arg[w]
  /\ UNCHANGED <<target, past, tmp, arg, num, src, copied, procVars, histVars>>

(* ... and fills it. Two copies at once may interleave their chunks. *)
CopyDone(w) ==
  /\ pc[w] = "copying"
  /\ Goto(w, "temp")
  /\ \/ bak' = src[w]
     \/ /\ \E v \in Writers \ {w} : pc[v] = "copying" /\ src[v] # src[w]
        /\ bak' = Torn
  /\ UNCHANGED <<target, past, tmp, arg, num, src, copied, procVars, histVars>>

(* "backup copy failed, proceeding anyway", at the open or half way through. *)
CopyFails(w) ==
  /\ pc[w] \in {"copy", "copying"}
  /\ Goto(w, "temp")
  /\ copied' = [copied EXCEPT ![w] = FALSE]
  /\ UNCHANGED <<fsVars, arg, num, src, procVars, histVars>>

(* Mutated form: the counter is read but not advanced. *)
TakeNameNoAdvance(w) ==
  /\ pc[w] = "temp"
  /\ counter < MaxTemps
  /\ Goto(w, "create")
  /\ num' = [num EXCEPT ![w] = counter]
  /\ UNCHANGED <<fsVars, arg, src, copied, procVars, histVars>>

(* temp_sibling: fetch_add on the counter. *)
TakeName(w) ==
  /\ pc[w] = "temp"
  /\ counter < MaxTemps
  /\ Goto(w, "create")
  /\ num' = [num EXCEPT ![w] = counter]
  /\ counter' = counter + 1
  /\ UNCHANGED <<fsVars, arg, src, copied, pid, boots, inherited, ioFailed, histVars>>

(* The temporary file is opened with create_new: never over an existing one. *)
Create(w) ==
  /\ pc[w] = "create"
  /\ tmp[TempPath(w)] = NoFile
  /\ tmp' = [tmp EXCEPT ![TempPath(w)] = [data |-> Torn, synced |-> FALSE]]
  /\ Goto(w, "fill")
  /\ UNCHANGED <<target, past, bak, arg, num, src, copied, procVars, histVars>>

(* write_all succeeds: the data is in the page cache. *)
Fill(w) ==
  /\ pc[w] = "fill"
  /\ tmp' = [tmp EXCEPT ![TempPath(w)] = [data |-> arg[w], synced |-> FALSE]]
  /\ Goto(w, "sync")
  /\ UNCHANGED <<target, past, bak, arg, num, src, copied, procVars, histVars>>

(* Mutated form: the write is renamed without sync_all. *)
SyncSkipped(w) ==
  /\ pc[w] = "sync"
  /\ Goto(w, "rename")
  /\ UNCHANGED <<fsVars, arg, num, src, copied, procVars, histVars>>

(* sync_all succeeds: the data is durable. *)
Sync(w) ==
  /\ pc[w] = "sync"
  /\ tmp' = [tmp EXCEPT ![TempPath(w)].synced = TRUE]
  /\ Goto(w, "rename")
  /\ UNCHANGED <<target, past, bak, arg, num, src, copied, procVars, histVars>>

(* Opening (also over an existing name), writing or syncing the temporary    *)
(* fails: `?` returns at once and whatever is there of the file stays there. *)
TempFails(w) ==
  /\ pc[w] \in {"create", "fill", "sync"}
  /\ Return(w)
  /\ ioFailed' = TRUE
  /\ UNCHANGED <<fsVars, counter, pid, boots, inherited, histVars>>

(* Mutated form: the temporary is copied over the target and left behind. *)
RenameByCopy(w) ==
  /\ pc[w] = "rename"
  /\ target' = tmp[TempPath(w)]
  /\ past' = past \cup {target}
  /\ replaced' = target.data
  /\ clean' = copied[w]
  /\ Return(w)
  /\ UNCHANGED <<bak, tmp, procVars>>

(* The rename succeeds: the call has taken effect and returns Ok. *)
Rename(w) ==
  /\ pc[w] = "rename"
  /\ target' = tmp[TempPath(w)]
  /\ past' = past \cup {target}
  /\ tmp' = [tmp EXCEPT ![TempPath(w)] = NoFile]
  /\ replaced' = target.data
  /\ clean' = copied[w]
  /\ Return(w)
  /\ UNCHANGED <<bak, procVars>>

(* Mutated form: the failed rename is cleaned up by removing the target. *)
RenameFailsTarget(w) ==
  /\ pc[w] = "rename"
  /\ target' = NoFile
  /\ Return(w)
  /\ UNCHANGED <<past, bak, tmp, procVars, histVars>>

(* The rename fails: the temporary is removed, if that succeeds. *)
RenameFails(w) ==
  /\ pc[w] = "rename"
  /\ tmp' \in {tmp, [tmp EXCEPT ![TempPath(w)] = NoFile]}
  /\ Return(w)
  /\ ioFailed' = TRUE
  /\ UNCHANGED <<target, past, bak, counter, pid, boots, inherited, histVars>>

-----------------------------------------------------------------------------
(* A new process: every call is gone, the counter restarts, and the pid may  *)
(* be one that was used before.                                              *)
Restart ==
  /\ boots < MaxBoots
  /\ boots' = boots + 1
  /\ pc' = [w \in Writers |-> "idle"]
  /\ arg' = [w \in Writers |-> Absent]
  /\ num' = [w \in Writers |-> 0]
  /\ src' = [w \in Writers |-> Absent]
  /\ copied' = [w \in Writers |-> FALSE]
  /\ counter' = 0
  /\ pid' \in Pids
  /\ inherited' = {n \in Names : tmp'[n] # NoFile}
  /\ ioFailed' = FALSE
  /\ clean' = FALSE
  /\ UNCHANGED replaced

(* The process is killed; the files stay as they are. *)
Crash ==
  /\ UNCHANGED fsVars
  /\ Restart

(* What a file holds after a power loss. *)
Survivor(f) == IF f.synced THEN f ELSE [data |-> Torn, synced |-> TRUE]

(* The machine loses power: unsynced data is lost, and the rename, whose     *)
(* directory nobody syncs, may or may not have reached the disk.             *)
PowerLoss ==
  /\ \E f \in past \cup {target} : target' = Survivor(f)
  /\ past' = {}
  /\ bak' \in IF bak = Absent THEN {Absent} ELSE {bak, Torn}
  /\ tmp' = [n \in Names |-> Survivor(tmp[n])]
  /\ Restart

(* The OS writes its directory back, in its own time. *)
Flush ==
  /\ past' = {}
  /\ UNCHANGED <<target, bak, tmp, callVars, procVars, histVars>>

Call(w) ==
  \/ \E c \in Contents : Begin(w, c)
  \/ CopyOpen(w)
  \/ CopyDone(w)
  \/ CopyFails(w)
  \/ TakeName(w)
  \/ Create(w)
  \/ Fill(w)
  \/ Sync(w)
  \/ TempFails(w)
  \/ Rename(w)
  \/ RenameFails(w)

Next ==
  \/ \E w \in Writers : Call(w)
  \/ Crash
  \/ PowerLoss
  \/ Flush

Spec == Init /\ [][Next]_vars

-----------------------------------------------------------------------------
(* Type invariant: in particular a call has contents to write from the step  *)
(* it begins at to the one it returns at, whichever way it returns.          *)
TypeOK ==
  /\ target \in File /\ past \subseteq File
  /\ bak \in Data
  /\ tmp \in [Names -> File]
  /\ pc \in [Writers -> Steps]
  /\ arg \in [Writers -> Contents \cup {Absent}]
  /\ \A w \in Writers : arg[w] = Absent <=> pc[w] = "idle"
  /\ num \in [Writers -> 0 .. MaxTemps]
  /\ src \in [Writers -> Data]
  /\ copied \in [Writers -> BOOLEAN]
  /\ counter \in 0 .. MaxTemps
  /\ pid \in Pids
  /\ boots \in Nat
  /\ inherited \subseteq Names
  /\ ioFailed \in BOOLEAN
  /\ replaced \in Data
  /\ clean \in BOOLEAN

(* The header of atomic.rs: "a reader sees the old file or the new one,      *)
(* never a missing or half-written one" - now, and after any power loss.     *)
WholeOnDisk(f) == f.synced /\ f.data # Torn
TargetWhole == WholeOnDisk(target) /\ \A f \in past : WholeOnDisk(f)

(* "A temp path next to target that no one else holds": calls in progress    *)
(* have different temp names, and the file a call is about to sync or rename *)
(* holds exactly what that call was asked to write.                          *)
TempExclusive ==
  /\ \A v, w \in Writers : v # w /\ Named(v) /\ Named(w) => TempPath(v) # TempPath(w)
  /\ \A w \in Writers :
       pc[w] \in {"sync", "rename"} => tmp[TempPath(w)].data = arg[w]

(* create_new can meet an existing file only if an earlier process with the  *)
(* same pid left it: no call makes another call of its own process fail.     *)
CollisionsInherited ==
  \A w \in Writers :
    pc[w] = "create" /\ tmp[TempPath(w)] # NoFile => TempPath(w) \in inherited

(* The test keeps_a_backup_when_asked, with failures, crashes and power loss *)
(* before it: once a write that no other call overlapped and whose copy was  *)
(* made has returned, and nothing has begun since, .bak holds what the write *)
(* replaced.                                                                 *)
BackupHoldsPrevious ==
  clean /\ (\A w \in Writers : pc[w] = "idle") => bak = replaced

(* The test leaves_no_temp_files_behind, for overlapping calls: unless an IO *)
(* call failed, a process at rest leaves no temporary file of its own.       *)
StraysOnlyFromFailures ==
  ~ioFailed /\ (\A w \in Writers : pc[w] = "idle") => Strays \subseteq inherited

(* The atomic register this implements: a call is in effect at its rename.   *)
Register == INSTANCE AtomicFile WITH
  target <- target.data,
  past   <- {f.data : f \in past},
  call   <- [w \in Writers |-> IF pc[w] = "idle" THEN Idle ELSE arg[w]]

(* Every behaviour of `write` is one of the atomic register's.               *)
RegisterSpec == Register!Spec
=============================================================================
