--------------------------- MODULE ProfileSession ---------------------------
(***************************************************************************)
(* The life of the edited profile around the store: ProfileBar.tsx and     *)
(* use-open-profile.ts (open, save, save as, close), use-dirty-guard.ts    *)
(* (the window's close request), ipc/profile.ts, and the backend's         *)
(* profile_save_to_path and profile_open_from_path, whose file write is    *)
(* AtomicWrite's.  Every save and open is a promise: the user, other saves *)
(* and the window go on while it is pending.                               *)
(*                                                                         *)
(* The contents of a profile are a version; ProfileStore says which edits  *)
(* lead from one to the next.                                              *)
(***************************************************************************)
EXTENDS Integers, FiniteSets

CONSTANTS
  Paths,        \* .ppx files the user may pick
  Saves,        \* saves that can be pending at once
  None,         \* no profile, no path, no file
  MaxVersions   \* bound on the edits

ASSUME SessionAssumption ==
  /\ None \notin Paths /\ None \notin Saves
  /\ MaxVersions \in Nat

VARIABLES
  profile,     \* the store's profile: its version
  path,        \* the store's path
  dirty,       \* the store's dirty flag
  disk,        \* path -> version in the file
  save,        \* save -> what it writes, where, and how far it is
  load,        \* the open that is pending
  modal,       \* the "Close without saving?" dialog is open
  window,      \* open, asking about unsaved changes, or closed
  newest,      \* history: versions made so far
  entangled,   \* history: an operation began, or the profile changed, while
               \* a save was pending, or two operations overlapped
  confirmed    \* history: the user agreed to close with unsaved changes

sessionVars == <<profile, path, dirty, disk, save, load, modal, window,
          newest, entangled, confirmed>>
editor == <<profile, path, dirty>>

Versions == 0 .. MaxVersions
NoSave == [step |-> "none", path |-> None, version |-> None]
NoLoad == [step |-> "none", path |-> None, version |-> None]
Saving == \E s \in Saves : save[s] # NoSave
Busy   == Saving \/ load # NoLoad

SessionInit ==
  /\ profile = None /\ path = None /\ dirty = FALSE
  /\ disk \in [Paths -> {0, None}] /\ \E p \in Paths : disk[p] = 0
  /\ save = [s \in Saves |-> NoSave]
  /\ load = NoLoad
  /\ modal = FALSE
  /\ window = "open"
  /\ newest = 0
  /\ entangled = FALSE
  /\ confirmed = FALSE

(* The user acts on the main window; the native dialog is modal. *)
Acting == window = "open"
Entangle(overlap) == entangled' = (entangled \/ overlap)

-----------------------------------------------------------------------------
(* commit(), undo and redo of the store: another version, not yet saved. *)
Edit ==
  /\ Acting /\ profile # None /\ newest < MaxVersions
  /\ newest' = newest + 1
  /\ profile' = newest'
  /\ dirty' = TRUE
  /\ Entangle(Saving)
  /\ UNCHANGED <<path, disk, save, load, modal, window, confirmed>>

(* onSave and onSaveAs, up to the call of profile_save_to_path.             *)
StartSave(s, p) ==
  /\ Acting /\ profile # None /\ save[s] = NoSave
  /\ save' = [save EXCEPT ![s] = [step |-> "writing", path |-> p, version |-> profile]]
  /\ Entangle(Busy)
  /\ UNCHANGED <<editor, disk, load, modal, window, newest, confirmed>>
Save(s)      == path # None /\ StartSave(s, path)
SaveAs(s, p) == StartSave(s, p)

(* profile_save_to_path writes the file, all of it. *)
Written(s) ==
  /\ save[s].step = "writing"
  /\ disk' = [disk EXCEPT ![save[s].path] = save[s].version]
  /\ save' = [save EXCEPT ![s].step = "written"]
  /\ UNCHANGED <<editor, load, modal, window, newest, entangled, confirmed>>

(* Mutated form: the path is recorded and the profile marked clean whether   *)
(* the write succeeded or not.                                               *)
SaveFailsQuietly(s) ==
  /\ save[s].step = "writing"
  /\ path' = save[s].path
  /\ dirty' = FALSE
  /\ save' = [save EXCEPT ![s] = NoSave]
  /\ UNCHANGED <<profile, disk, load, modal, window, newest, entangled, confirmed>>

(* Serialising or writing fails: the file is as it was, the user is told. *)
SaveFails(s) ==
  /\ save[s].step = "writing" /\ window # "closed"
  /\ save' = [save EXCEPT ![s] = NoSave]
  /\ UNCHANGED <<editor, disk, load, modal, window, newest, entangled, confirmed>>

(* The promise resolves: markSaved(path), whatever the profile is by now. *)
SaveReturns(s) ==
  /\ save[s].step = "written" /\ window # "closed"
  /\ path' = save[s].path
  /\ dirty' = FALSE
  /\ save' = [save EXCEPT ![s] = NoSave]
  /\ UNCHANGED <<profile, disk, load, modal, window, newest, entangled, confirmed>>

-----------------------------------------------------------------------------
(* The picker returned p; profile_open_from_path is called, and reads it.    *)
StartOpen(p) ==
  /\ Acting /\ load = NoLoad
  /\ load' = [step |-> "reading", path |-> p, version |-> None]
  /\ Entangle(Busy)
  /\ UNCHANGED <<editor, disk, save, modal, window, newest, confirmed>>
Read ==
  /\ load.step = "reading" /\ disk[load.path] # None
  /\ load' = [load EXCEPT !.step = "read", !.version = disk[load.path]]
  /\ UNCHANGED <<editor, disk, save, modal, window, newest, entangled, confirmed>>
OpenFails ==
  /\ load.step = "reading"
  /\ load' = NoLoad
  /\ UNCHANGED <<editor, disk, save, modal, window, newest, entangled, confirmed>>

(* setLoaded, without asking about the profile it replaces.                  *)
Opened ==
  /\ load.step = "read" /\ window # "closed"
  /\ profile' = load.version
  /\ path' = load.path
  /\ dirty' = FALSE
  /\ load' = NoLoad
  /\ Entangle(Saving)
  /\ UNCHANGED <<disk, save, modal, window, newest, confirmed>>

-----------------------------------------------------------------------------
ClearStore ==
  /\ profile' = None /\ path' = None /\ dirty' = FALSE
  /\ Entangle(Saving)

(* onClose: a dirty profile is asked about first. *)
Close ==
  /\ Acting /\ profile # None /\ ~dirty /\ ~modal
  /\ ClearStore
  /\ UNCHANGED <<disk, save, load, modal, window, newest, confirmed>>
AskClose ==
  /\ Acting /\ profile # None /\ dirty /\ ~modal
  /\ modal' = TRUE
  /\ UNCHANGED <<editor, disk, save, load, window, newest, entangled, confirmed>>
DiscardAndClose ==
  /\ Acting /\ modal
  /\ ClearStore
  /\ modal' = FALSE
  /\ UNCHANGED <<disk, save, load, window, newest, confirmed>>
KeepEditing ==
  /\ Acting /\ modal
  /\ modal' = FALSE
  /\ UNCHANGED <<editor, disk, save, load, window, newest, entangled, confirmed>>

(* onCloseRequested with nothing unsaved: the close goes on. *)
CloseWindow ==
  /\ window = "open" /\ ~dirty
  /\ window' = "closed"
  /\ UNCHANGED <<editor, disk, save, load, modal, newest, entangled, confirmed>>

(* ... with unsaved changes: it is prevented, and the user asked.  A second  *)
(* request meanwhile is swallowed, unless the profile has become clean.      *)
AskCloseWindow ==
  /\ window = "open" /\ dirty
  /\ window' = "asking"
  /\ UNCHANGED <<editor, disk, save, load, modal, newest, entangled, confirmed>>
CloseWindowAgain ==
  /\ window = "asking" /\ ~dirty
  /\ window' = "closed"
  /\ UNCHANGED <<editor, disk, save, load, modal, newest, entangled, confirmed>>
CloseAnyway ==
  /\ window = "asking"
  /\ window' = "closed"
  /\ confirmed' = TRUE
  /\ UNCHANGED <<editor, disk, save, load, modal, newest, entangled>>
StayOpen ==
  /\ window = "asking"
  /\ window' = "open"
  /\ UNCHANGED <<editor, disk, save, load, modal, newest, entangled, confirmed>>

SessionNext ==
  \/ Edit
  \/ \E s \in Saves : Save(s) \/ Written(s) \/ SaveFails(s) \/ SaveReturns(s)
  \/ \E s \in Saves, p \in Paths : SaveAs(s, p)
  \/ \E p \in Paths : StartOpen(p)
  \/ Read \/ OpenFails \/ Opened
  \/ Close \/ AskClose \/ DiscardAndClose \/ KeepEditing
  \/ CloseWindow \/ AskCloseWindow \/ CloseWindowAgain \/ CloseAnyway \/ StayOpen

SessionSpec == SessionInit /\ [][SessionNext]_sessionVars

-----------------------------------------------------------------------------
(* Type invariant. *)
SessionTypeOK ==
  /\ profile \in Versions \cup {None}
  /\ path \in Paths \cup {None}
  /\ dirty \in BOOLEAN
  /\ disk \in [Paths -> Versions \cup {None}]
  /\ save \in [Saves -> [step : {"none", "writing", "written"},
                         path : Paths \cup {None}, version : Versions \cup {None}]]
  /\ load \in [step : {"none", "reading", "read"},
               path : Paths \cup {None}, version : Versions \cup {None}]
  /\ modal \in BOOLEAN
  /\ window \in {"open", "asking", "closed"}
  /\ newest \in Versions
  /\ entangled \in BOOLEAN /\ confirmed \in BOOLEAN
  /\ profile # None => path # None   \* onSave never needs its own picker

OnDisk == \E p \in Paths : disk[p] = profile

(* As long as nothing was done while a save was pending: a profile that is   *)
(* not marked dirty is what its file holds, through failed saves, failed     *)
(* opens, Save As over other files, closes and reopens.                      *)
CleanMeansSaved ==
  ~entangled /\ ~dirty /\ profile # None => path # None /\ disk[path] = profile

(* use-dirty-guard.ts: "ask the user to confirm when there are unsaved       *)
(* profile edits"; App.tsx: "a quit button that loses work is worse than     *)
(* none". Closing the window without a question loses nothing.               *)
ClosingLosesNothing ==
  window = "closed" /\ ~confirmed /\ profile # None => OnDisk
=============================================================================
