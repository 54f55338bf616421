----------------------------- MODULE AtomicFile -----------------------------
(***************************************************************************)
(* What src-tauri/src/atomic.rs promises to the callers of `write`: the    *)
(* target file is an atomic register.  A call that succeeds replaces the   *)
(* whole contents in one instant, a call that fails or dies with the       *)
(* process leaves them alone, and after a power loss the file holds some   *)
(* contents it has really had.  How the temporary file, the fsync and the  *)
(* rename achieve this is AtomicWrite.tla.                                 *)
(***************************************************************************)
CONSTANTS
  Writers,     \* calls of `write` that can be in progress at once
  Contents,    \* whole file contents a caller may pass
  Absent,      \* "there is no such file"
  Idle         \* "no call in progress"

VARIABLES
  target,      \* contents of the file as every reader sees them
  past,        \* contents it may still fall back to if power is lost
  call         \* per writer: the contents it was asked to write, or Idle

vars == <<target, past, call>>

Init ==
  /\ target \in Contents \cup {Absent}
  /\ past = {}
  /\ call = [w \in Writers |-> Idle]

(* A caller asks for `c` to be written. *)
Start(w, c) ==
  /\ call[w] = Idle
  /\ call' = [call EXCEPT ![w] = c]
  /\ UNCHANGED <<target, past>>

(* The call takes effect and returns Ok. *)
Commit(w) ==
  /\ call[w] # Idle
  /\ target' = call[w]
  /\ past' = past \cup {target}
  /\ call' = [call EXCEPT ![w] = Idle]

(* The call returns an error and has had no effect. *)
Fail(w) ==
  /\ call[w] # Idle
  /\ call' = [call EXCEPT ![w] = Idle]
  /\ UNCHANGED <<target, past>>

(* The program dies: every call in progress is lost, the file is not. *)
Crash ==
  /\ call' = [w \in Writers |-> Idle]
  /\ UNCHANGED <<target, past>>

(* The machine dies: replacements the OS had not yet persisted may be undone. *)
PowerLoss ==
  /\ target' \in past \cup {target}
  /\ past' = {}
  /\ call' = [w \in Writers |-> Idle]

(* The OS persists the directory. *)
Flush ==
  /\ past' = {}
  /\ UNCHANGED <<target, call>>

Next ==
  \/ \E w \in Writers : \/ \E c \in Contents : Start(w, c)
                        \/ Commit(w)
                        \/ Fail(w)
  \/ Crash
  \/ PowerLoss
  \/ Flush

Spec == Init /\ [][Next]_vars
=============================================================================
