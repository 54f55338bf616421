----------------------------- MODULE Assistant -----------------------------
(***************************************************************************)
(* The opt-in assistant: src-tauri/src/commands/llm.rs (settings, consent, *)
(* the conversation loop), settings.rs, llm-bridge's client and audit log, *)
(* and the renderer code that decides when those commands are called       *)
(* (AssistantSettings.tsx, use-assistant.ts, PayloadPreviewModal.tsx,      *)
(* ConversationList.tsx).  Every command is asynchronous: each ask loads   *)
(* the settings once and then runs through several network round trips,    *)
(* while other commands read and write the same settings file and the same *)
(* transcripts.  The renderer stops the user from little of that, and what *)
(* the program keeps depends on it: history variables note who overlapped. *)
(*                                                                         *)
(* Texts, SQL and query results are abstracted to what decides whether     *)
(* they may be sent: the place they go to and the privacy level they were  *)
(* filtered at.                                                            *)
(***************************************************************************)
EXTENDS Integers, FiniteSets

CONSTANTS
  Asks,         \* requests of the user that can be in flight at once
  Threads,      \* conversation ids
  Places,       \* provider and effective base URL: who receives a request
  None,         \* no place, no preview
  MaxSteps,     \* MAX_TOOL_STEPS: tool round trips of one ask
  MaxAsks,      \* bound on the asks of a run
  MaxCommits,   \* bound on the settings changes of a run
  MaxCalls      \* bound on the asks and settings changes of a run together

ASSUME AssistantAssumption ==
  /\ None \notin Places /\ None \notin Places \X (0 .. 2)
  /\ MaxSteps \in Nat /\ MaxAsks \in Nat /\ MaxCommits \in Nat /\ MaxCalls \in Nat

VARIABLES
  disk,       \* settings.json: the assistant's section
  status,     \* the settings as the renderer last heard of them
  commit,     \* the llm_set_settings in flight
  mark,       \* the llm_mark_reviewed in flight
  preview,    \* the payload preview on the screen
  conv,       \* thread -> unused, open, deleted (reset pending), forgotten,
              \* or outlived by a question that was pending at the reset
  chats,      \* AppState.llm_chats: thread -> turns
  ask,        \* the llm_ask and llm_test_connection calls in flight
  audit,      \* lines of llm-audit.jsonl, and those of which a failed append
              \* was warned about
  asked, committed,   \* how many asks and settings changes there were
  consent,    \* history: where and at what level the last approved preview
              \* said the request would go
  due,        \* history: requests sent and refusals, each owed a line, but
              \* for the requests that a quit cut off
  raced,      \* history: since settings.json was last seen without an
              \* approval, a settings change and a preview or an approval
              \* were pending together
  overtaken,  \* history: the asks in flight when the settings were saved
  crowded     \* history: the chats in flight together in a conversation

renderer == <<status, preview, conv>>
counts   == <<asked, committed>>
overlaps == <<raced, overtaken, crowded>>
history  == <<consent, due, overlaps>>
vars == <<disk, commit, mark, chats, ask, audit, renderer, counts, history>>

Scopes == 0 .. 2    \* schema-only, aggregates, raw
AllowsValues(scope) == scope >= 1
Settings == [enabled: BOOLEAN, place: Places, scope: Scopes, reviewed: BOOLEAN]
Boundary(s) == <<s.place, s.scope>>
Kinds == {"chat", "review", "explain-rule", "test"}
Turn == [by: 1 .. MaxAsks, place: Places, level: Scopes]

NoAsk == [pc |-> "idle"]
NoCommit == [pc |-> "idle"]
NoMark == [pc |-> "idle"]
NoPreview == [for |-> None, shown |-> None]

Active  == {a \in Asks : ask[a] # NoAsk}
OnWire  == {a \in Asks : ask[a].pc = "sending"}
PendingIn(t) ==
  \/ \E a \in Active : ask[a].kind # "test" /\ ask[a].thread = t
  \/ mark # NoMark /\ mark.for[2] = t
ChatsIn(t) == {ask[a].n : a \in {b \in Active : ask[b].kind = "chat" /\ ask[b].thread = t}}

(* A fresh install, where the assistant is off, or an earlier start of the *)
(* program that switched it on and asked nothing.                          *)
Init ==
  /\ \E p \in Places, on \in BOOLEAN :
       disk = [enabled |-> on, place |-> p, scope |-> 0, reviewed |-> FALSE]
  /\ status = disk
  /\ commit = NoCommit /\ mark = NoMark /\ preview = NoPreview
  /\ \E t \in Threads :
       conv = [u \in Threads |-> IF u = t THEN "open" ELSE "unused"]
  /\ chats = [t \in Threads |-> {}]
  /\ ask = [a \in Asks |-> NoAsk]
  /\ audit = {}
  /\ asked = 0 /\ committed = 0
  /\ consent = None /\ due = {}
  /\ raced = FALSE /\ overtaken = {} /\ crowded = {}

-----------------------------------------------------------------------------
(* llm_set_settings, and the settings form that calls it.                  *)

Changes(s) ==
  {[s EXCEPT !.enabled = ~ @]}
    \cup {[s EXCEPT !.place = p] : p \in Places}
    \cup {[s EXCEPT !.scope = l] : l \in Scopes}

(* The whole draft is sent, its reviewed_payload included.  The form is    *)
(* disabled while a commit is pending, and behind an open preview.         *)
Commit ==
  /\ commit = NoCommit /\ preview = NoPreview
  /\ committed < MaxCommits /\ asked + committed < MaxCalls
  /\ \E next \in Changes(status) :
       /\ next.enabled # status.enabled \/ status.enabled
       /\ commit' = [pc |-> "called", next |-> next]
  /\ committed' = committed + 1
  /\ raced' = (raced \/ mark # NoMark)
  /\ UNCHANGED <<disk, mark, chats, ask, audit, renderer, asked,
                 consent, due, overtaken, crowded>>

(* The approval is compared by place only.                                 *)
RevokedByPlace(previous, next) ==
  IF previous.place # next.place THEN [next EXCEPT !.reviewed = FALSE] ELSE next

Revoked(previous, next) ==
  IF Boundary(previous) # Boundary(next) THEN [next EXCEPT !.reviewed = FALSE] ELSE next

CommitLoad ==
  /\ commit.pc = "called"
  /\ commit' = [pc |-> "loaded", next |-> Revoked(disk, commit.next)]
  /\ UNCHANGED <<disk, mark, chats, ask, audit, renderer, counts, history>>

CommitSave ==
  /\ commit.pc = "loaded"
  /\ disk' = commit.next
  /\ commit' = [commit EXCEPT !.pc = "saved"]
  /\ raced' = (raced /\ (commit.next.reviewed \/ mark # NoMark \/ preview # NoPreview))
  /\ overtaken' = overtaken \cup {ask[a].n : a \in Active}
  /\ UNCHANGED <<mark, chats, ask, audit, renderer, counts, consent, due, crowded>>

(* The file cannot be read or written: the form refetches what is saved.   *)
CommitFails ==
  /\ commit.pc \in {"called", "loaded"}
  /\ commit' = NoCommit
  /\ status' = disk
  /\ UNCHANGED <<disk, mark, preview, conv, chats, ask, audit, counts, history>>

(* Transcripts survive a change of settings.                               *)
CommitResetNothing ==
  /\ commit.pc = "saved"
  /\ commit' = [commit EXCEPT !.pc = "reset"]
  /\ UNCHANGED <<disk, mark, chats, ask, audit, renderer, counts, history>>

CommitReset ==
  /\ commit.pc = "saved"
  /\ chats' = [t \in Threads |-> {}]
  /\ commit' = [commit EXCEPT !.pc = "reset"]
  /\ UNCHANGED <<disk, mark, ask, audit, renderer, counts, history>>

CommitReturns ==
  /\ commit.pc = "reset"
  /\ status' = commit.next
  /\ commit' = NoCommit
  /\ UNCHANGED <<disk, mark, preview, conv, chats, ask, audit, counts, history>>

-----------------------------------------------------------------------------
(* The preview, and llm_mark_reviewed.                                     *)

(* llm_preview: the payload is built from the settings on disk; the query  *)
(* is run again when a commit invalidates it.                              *)
Render ==
  /\ preview # NoPreview
  /\ preview' = [preview EXCEPT !.shown = Boundary(disk)]
  /\ UNCHANGED <<disk, commit, mark, status, conv, chats, ask, audit, counts, history>>

Cancel ==
  /\ preview # NoPreview
  /\ preview' = NoPreview
  /\ UNCHANGED <<disk, commit, mark, status, conv, chats, ask, audit, counts, history>>

(* "Send this": there is a button once a preview is rendered, and closing   *)
(* the preview does not call the approval back.                            *)
Approve ==
  /\ preview # NoPreview /\ preview.shown # None /\ mark = NoMark
  /\ mark' = [pc |-> "called", for |-> preview.for]
  /\ consent' = preview.shown
  /\ UNCHANGED <<disk, commit, chats, ask, audit, renderer, counts, due, overlaps>>

MarkLoad ==
  /\ mark.pc = "called"
  /\ mark' = [pc |-> "loaded", for |-> mark.for, next |-> [disk EXCEPT !.reviewed = TRUE]]
  /\ UNCHANGED <<disk, commit, chats, ask, audit, renderer, counts, history>>

(* It may put back what a settings change has replaced meanwhile, and       *)
(* forgets nothing.                                                        *)
MarkSave ==
  /\ mark.pc = "loaded"
  /\ disk' = mark.next
  /\ mark' = [pc |-> "saved", for |-> mark.for]
  /\ UNCHANGED <<commit, chats, ask, audit, renderer, counts, history>>

MarkFails ==
  /\ mark.pc \in {"called", "loaded"}
  /\ mark' = NoMark
  /\ UNCHANGED <<disk, commit, chats, ask, audit, renderer, counts, history>>

-----------------------------------------------------------------------------
(* Asking.                                                                 *)

Called(a, kind, t) ==
  /\ ask[a] = NoAsk
  /\ asked < MaxAsks /\ asked + committed < MaxCalls
  /\ asked' = asked + 1
  /\ ask' = [ask EXCEPT ![a] = [pc |-> "called", kind |-> kind, thread |-> t, n |-> asked']]
  /\ overtaken' = IF commit.pc = "saved" THEN overtaken \cup {asked'} ELSE overtaken
  /\ crowded' = IF kind = "chat" /\ ChatsIn(t) # {}
                THEN crowded \cup ChatsIn(t) \cup {asked'} ELSE crowded

(* The Ask button is disabled while the conversation is busy; Enter in the *)
(* question box is not.  Until the renderer has heard of an approval the   *)
(* preview comes first; a rule explanation asks the backend afresh.        *)
Submit(a, kind, t) ==
  /\ kind # "test" /\ conv[t] = "open" /\ preview = NoPreview
  /\ LET known == IF kind = "explain-rule" THEN disk ELSE status IN
       /\ known.enabled
       /\ IF known.reviewed
          THEN Called(a, kind, t) /\ UNCHANGED <<preview, raced>>
          ELSE /\ preview' = [for |-> <<kind, t>>, shown |-> None]
               /\ raced' = (raced \/ commit # NoCommit)
               /\ UNCHANGED <<asked, ask, overtaken, crowded>>
  /\ UNCHANGED <<disk, commit, mark, status, conv, chats, audit, committed, consent, due>>

(* The approved question is sent once the approval is saved, even when the *)
(* preview has been closed meanwhile.                                      *)
MarkReturns(a) ==
  /\ mark.pc = "saved"
  /\ mark' = NoMark
  /\ status' = disk
  /\ preview' = NoPreview
  /\ Called(a, mark.for[1], mark.for[2])
  /\ UNCHANGED <<disk, commit, conv, chats, audit, committed, consent, due, raced>>

(* "Test connection": needs no approval, carries no data.                  *)
TestConnection(a) ==
  /\ status.enabled /\ preview = NoPreview
  /\ \A b \in Active : ask[b].kind # "test"
  /\ Called(a, "test", None)
  /\ UNCHANGED <<disk, commit, mark, renderer, chats, audit, committed,
                 consent, due, raced>>

(* A failing append is warned about and changes nothing else.              *)
Append(line) == audit' = audit \cup {line}

Refused(kind, cfg) ==
  \/ kind # "test" /\ ~ cfg.reviewed
  \/ kind = "review" /\ ~ AllowsValues(cfg.scope)

(* The master switch is left to the renderer.                              *)
LoadCfgUnchecked(a) ==
  /\ ask[a].pc = "called"
  /\ ask' = [ask EXCEPT ![a] =
       [pc |-> "cleared", kind |-> @.kind, thread |-> @.thread, n |-> @.n, cfg |-> disk]]
  /\ UNCHANGED <<disk, commit, mark, chats, audit, renderer, counts, history>>

(* The settings are loaded once, and every check is made on that copy.     *)
LoadCfg(a) ==
  /\ ask[a].pc = "called"
  /\ UNCHANGED <<disk, commit, mark, chats, renderer, counts, consent, overlaps>>
  /\ \/ /\ disk.enabled /\ ~ Refused(ask[a].kind, disk)
        /\ ask' = [ask EXCEPT ![a] =
             [pc |-> "cleared", kind |-> @.kind, thread |-> @.thread, n |-> @.n, cfg |-> disk]]
        /\ UNCHANGED <<audit, due>>
     \/ /\ disk.enabled /\ Refused(ask[a].kind, disk)
        /\ ask' = [ask EXCEPT ![a] = NoAsk]
        /\ due' = due \cup {<<ask[a].n, "blocked">>}
        /\ Append(<<ask[a].n, "blocked">>)
     \/ /\ ~ disk.enabled
        /\ ask' = [ask EXCEPT ![a] = NoAsk]
        /\ UNCHANGED <<audit, due>>

(* Every question starts from an empty transcript.                         *)
PrepareAlone(a) ==
  /\ ask[a].pc = "cleared"
  /\ ask' = [ask EXCEPT ![a] =
       [pc |-> "ready", kind |-> @.kind, thread |-> @.thread, n |-> @.n, cfg |-> @.cfg,
        past |-> {}, level |-> 0, round |-> 0]]
  /\ UNCHANGED <<disk, commit, mark, chats, audit, renderer, counts, history>>

(* The key is read, then the transcript; only a chat has one.              *)
Prepare(a) ==
  /\ ask[a].pc = "cleared"
  /\ ask' = [ask EXCEPT ![a] =
       [pc |-> "ready", kind |-> @.kind, thread |-> @.thread, n |-> @.n, cfg |-> @.cfg,
        past |-> IF @.kind = "chat" THEN chats[@.thread] ELSE {}, level |-> 0, round |-> 0]]
  /\ UNCHANGED <<disk, commit, mark, chats, audit, renderer, counts, history>>

(* No key, no credential store, or no schema to describe.                  *)
PrepareFails(a) ==
  /\ ask[a].pc = "cleared"
  /\ ask' = [ask EXCEPT ![a] = NoAsk]
  /\ UNCHANGED <<disk, commit, mark, chats, audit, renderer, counts, history>>

Request(a) == <<ask[a].n, ask[a].round>>

Send(a) ==
  /\ ask[a].pc = "ready"
  /\ ask' = [ask EXCEPT ![a].pc = "sending"]
  /\ due' = due \cup {Request(a)}
  /\ UNCHANGED <<disk, commit, mark, chats, audit, renderer, counts, consent, overlaps>>

(* The answer, of whatever kind, is logged before it is looked at.         *)
Answered(a, then) ==
  /\ ask[a].pc = "sending"
  /\ Append(Request(a))
  /\ ask' = [ask EXCEPT ![a] = then]
  /\ UNCHANGED <<disk, commit, mark, chats, renderer, counts, consent, due, overlaps>>

(* An error is returned before its line is written.                        *)
SendFailsUnlogged(a) ==
  /\ ask[a].pc = "sending"
  /\ ask' = [ask EXCEPT ![a] = NoAsk]
  /\ UNCHANGED <<disk, commit, mark, chats, audit, renderer, counts, history>>

SendFails(a) == Answered(a, NoAsk)

FinalText(a) ==
  Answered(a, IF ask[a].kind = "test" THEN NoAsk ELSE [ask[a] EXCEPT !.pc = "final"])

(* Every call in an answer is run, even one to a question that offered no   *)
(* tool; a connection test takes any answer as one.                        *)
WantsTools(a) ==
  /\ ask[a].pc = "sending" /\ ask[a].kind # "test"
  /\ Answered(a, [ask[a] EXCEPT !.pc = IF ask[a].round = MaxSteps THEN "final" ELSE "tools"])

(* ... nor are the rounds counted.                                         *)
RunToolsUncounted(a) ==
  /\ ask[a].pc = "tools"
  /\ ask' = [ask EXCEPT ![a].pc = "ready"]
  /\ UNCHANGED <<disk, commit, mark, chats, audit, renderer, counts, history>>

(* run_tool_call: a result within the level of the loaded settings, or an  *)
(* error without values.                                                   *)
RunTools(a) ==
  /\ ask[a].pc = "tools"
  /\ \E level \in {ask[a].level, ask[a].cfg.scope} :
       ask' = [ask EXCEPT ![a].pc = "ready", ![a].level = level, ![a].round = @ + 1]
  /\ UNCHANGED <<disk, commit, mark, chats, audit, renderer, counts, history>>

Own(a) == [by |-> ask[a].n, place |-> ask[a].cfg.place, level |-> ask[a].level]

(* set_conversation, and the reply.                                        *)
Finish(a) ==
  /\ ask[a].pc = "final"
  /\ chats' = IF ask[a].kind = "chat"
              THEN [chats EXCEPT ![ask[a].thread] = ask[a].past \cup {Own(a)}]
              ELSE chats
  /\ ask' = [ask EXCEPT ![a] = NoAsk]
  /\ UNCHANGED <<disk, commit, mark, audit, renderer, counts, history>>

-----------------------------------------------------------------------------
(* Conversations, and leaving.                                             *)

StartNew(t) ==
  /\ conv[t] = "unused" /\ preview = NoPreview
  /\ conv' = [conv EXCEPT ![t] = "open"]
  /\ UNCHANGED <<disk, commit, mark, status, preview, chats, ask, audit, counts, history>>

(* Deleting the last conversation starts another.                          *)
Delete(t, u) ==
  /\ conv[t] = "open" /\ t # u /\ preview = NoPreview
  /\ conv[u] = IF \E v \in Threads \ {t} : conv[v] = "open" THEN "open" ELSE "unused"
  /\ conv' = [conv EXCEPT ![t] = "deleted", ![u] = "open"]
  /\ UNCHANGED <<disk, commit, mark, status, preview, chats, ask, audit, counts, history>>

(* Only the view of the conversation is dropped.                           *)
ResetChatView(t) ==
  /\ conv[t] = "deleted"
  /\ conv' = [conv EXCEPT ![t] = IF PendingIn(t) THEN "outlived" ELSE "forgotten"]
  /\ UNCHANGED <<disk, commit, mark, status, preview, chats, ask, audit, counts, history>>

(* llm_reset_chat, which the renderer does not wait for, and which stops    *)
(* no question.                                                            *)
ResetChat(t) ==
  /\ conv[t] = "deleted"
  /\ chats' = [chats EXCEPT ![t] = {}]
  /\ conv' = [conv EXCEPT ![t] = IF PendingIn(t) THEN "outlived" ELSE "forgotten"]
  /\ UNCHANGED <<disk, commit, mark, status, preview, ask, audit, counts, history>>

(* The program ends and starts again: only the two files survive.          *)
Quit ==
  /\ commit' = NoCommit /\ mark' = NoMark /\ preview' = NoPreview
  /\ status' = disk
  /\ conv' \in {[u \in Threads |-> IF u = t THEN "open" ELSE "unused"] : t \in Threads}
  /\ chats' = [t \in Threads |-> {}]
  /\ ask' = [a \in Asks |-> NoAsk]
  /\ due' = due \ {Request(a) : a \in OnWire}
  /\ raced' = (raced /\ disk.reviewed)
  /\ UNCHANGED <<disk, audit, counts, consent, overtaken, crowded>>

AskStep(a) ==
  \/ LoadCfg(a) \/ Prepare(a) \/ PrepareFails(a) \/ Send(a)
  \/ SendFails(a) \/ FinalText(a) \/ WantsTools(a) \/ RunTools(a) \/ Finish(a)

Next ==
  \/ Commit \/ CommitLoad \/ CommitSave \/ CommitFails \/ CommitReset \/ CommitReturns
  \/ Render \/ Cancel \/ Approve \/ MarkLoad \/ MarkSave \/ MarkFails
  \/ \E a \in Asks : MarkReturns(a) \/ TestConnection(a) \/ AskStep(a)
  \/ \E a \in Asks, t \in Threads, kind \in Kinds : Submit(a, kind, t)
  \/ \E t \in Threads : StartNew(t) \/ ResetChat(t)
  \/ \E t, u \in Threads : Delete(t, u)
  \/ Quit

(* Tokio polls a command that can go on, a request ends with its answer or *)
(* after REQUEST_TIMEOUT, and a query on the log ends.                     *)
Fairness == \A a \in Asks : WF_vars(AskStep(a))

Spec == Init /\ [][Next]_vars /\ Fairness

-----------------------------------------------------------------------------
(* Properties, of a user who does anything at any time.  Where the program *)
(* keeps less for one who does not wait, the property says for what.       *)

AskRecords ==
  {NoAsk}
    \cup [pc: {"called"}, kind: Kinds, thread: Threads \cup {None}, n: 1 .. MaxAsks]
    \cup [pc: {"cleared"}, kind: Kinds, thread: Threads \cup {None}, n: 1 .. MaxAsks,
          cfg: Settings]
AskLike(r) ==
  \/ r \in AskRecords
  \/ /\ DOMAIN r = {"pc", "kind", "thread", "n", "cfg", "past", "level", "round"}
     /\ r.pc \in {"ready", "sending", "tools", "final"}
     /\ r.kind \in Kinds /\ r.thread \in Threads \cup {None} /\ r.n \in 1 .. MaxAsks
     /\ r.cfg \in Settings
     /\ \A turn \in r.past : turn \in Turn
     /\ r.level \in 0 .. r.cfg.scope /\ r.round \in 0 .. MaxSteps

(* Every variable has its type; in particular no ask is in a round above   *)
(* MAX_TOOL_STEPS, and none holds values above the level of the settings   *)
(* it loaded.                                                              *)
TypeOK ==
  /\ disk \in Settings /\ status \in Settings
  /\ commit \in {NoCommit} \cup [pc: {"called", "loaded", "saved", "reset"}, next: Settings]
  /\ mark \in {NoMark} \cup [pc: {"called", "saved"}, for: Kinds \X Threads]
                       \cup [pc: {"loaded"}, for: Kinds \X Threads, next: Settings]
  /\ preview.for \in {None} \cup (Kinds \X Threads)
  /\ preview.shown \in {None} \cup (Places \X Scopes)
  /\ conv \in [Threads -> {"unused", "open", "deleted", "forgotten", "outlived"}]
  /\ \A t \in Threads : \A turn \in chats[t] : turn \in Turn
  /\ DOMAIN ask = Asks /\ \A a \in Asks : AskLike(ask[a])
  /\ asked \in 0 .. MaxAsks /\ committed \in 0 .. MaxCommits
  /\ consent \in {None} \cup (Places \X Scopes)
  /\ \A line \in audit \cup due : line[1] \in 1 .. MaxAsks
  /\ raced \in BOOLEAN /\ overtaken \subseteq 1 .. MaxAsks /\ crowded \subseteq 1 .. MaxAsks

(* The consent gate: while settings.json says the payload was reviewed,    *)
(* the preview the user approved last showed a request to the place, and   *)
(* at the level, that settings.json holds.  Neither file nor preview has a *)
(* lock: an approval that was pending together with a settings change may  *)
(* be of what the other replaced, until the approval is next revoked.      *)
ApprovedAsPreviewed == disk.reviewed /\ ~ raced => consent = Boundary(disk)

(* No request carries a turn of a conversation held with another place, or *)
(* values above the privacy level the request is sent at: changing either  *)
(* forgets the transcripts.  That stops no ask in flight: one that a       *)
(* change overtook carries what it has, and writes it back with its own    *)
(* turn for the next one to carry.                                         *)
WithinLevel ==
  \A a \in OnWire :
    \/ ask[a].n \in overtaken
    \/ \E turn \in ask[a].past : turn.by \in overtaken
    \/ \A turn \in ask[a].past :
         turn.place = ask[a].cfg.place /\ turn.level <= ask[a].cfg.scope

(* While the master switch stays off on disk, no ask and no connection test *)
(* gets past the checks, however old the settings are that the renderer    *)
(* called it with: only those that had passed them before go on.           *)
Waiting(r) == r.pc \in {"idle", "called"}
OffStopsAsks ==
  [][\A a \in Asks :
       ~ disk.enabled /\ ~ disk'.enabled /\ Waiting(ask[a]) => Waiting(ask'[a])]_vars

(* The egress log is complete: a request that is not on the wire, and a    *)
(* refusal to send one, has its line, or a failed append was warned about. *)
(* Only the requests that the end of the program cuts off have none.       *)
EgressLogged == due \subseteq audit \cup {Request(a) : a \in OnWire}

(* A transcript only grows, until it is forgotten as a whole: an answer    *)
(* never replaces a turn that an earlier one left, unless another question *)
(* was pending in the conversation together with its own.                  *)
TurnsKept ==
  [][\A t \in Threads :
       \/ chats[t] \subseteq chats'[t] \/ chats'[t] = {}
       \/ \E a \in Active : ask'[a] = NoAsk /\ ask[a].thread = t /\ ask[a].n \in crowded]_vars

(* Once a deleted conversation is forgotten, its transcript stays so, if   *)
(* no question was pending in it when it was.                              *)
DeletedStaysForgotten == \A t \in Threads : conv[t] = "forgotten" => chats[t] = {}

(* Every ask returns: the loop ends when the budget of tool calls is spent,*)
(* whatever the model asks for, and every early return ends it too.        *)
AskReturns == \A a \in Asks : ask[a] # NoAsk ~> ask[a] = NoAsk
=============================================================================
