--------------------------- MODULE Assistant_proofs ---------------------------
(***************************************************************************)
(* What the assistant keeps, for a user who does anything at any time, any *)
(* number of places, conversations and asks, any budget of tool calls, and *)
(* through every failure and quit.                                         *)
(***************************************************************************)
EXTENDS Assistant, TLAPS

(* The fields of a record say how far its command is.                        *)
AskShape(r) ==
  \/ r = NoAsk
  \/ r.pc = "called" /\ DOMAIN r = {"pc", "kind", "thread", "n"}
  \/ r.pc = "cleared" /\ DOMAIN r = {"pc", "kind", "thread", "n", "cfg"}
  \/ /\ r.pc \in {"ready", "sending", "tools", "final"}
     /\ DOMAIN r = {"pc", "kind", "thread", "n", "cfg", "past", "level", "round"}
Prepared(r) == r.pc \in {"ready", "sending", "tools", "final"}
Loaded(r)   == r.pc = "cleared" \/ Prepared(r)

Shape ==
  /\ DOMAIN ask = Asks /\ \A a \in Asks : AskShape(ask[a])
  /\ DOMAIN chats = Threads /\ DOMAIN conv = Threads
  /\ disk \in Settings /\ status \in Settings
  /\ commit # NoCommit =>
       /\ DOMAIN commit = {"pc", "next"} /\ commit.next \in Settings
       /\ commit.pc \in {"called", "loaded", "saved", "reset"}
  /\ mark # NoMark => mark.pc \in {"called", "loaded", "saved"}
  /\ mark.pc = "loaded" => mark.next \in Settings /\ mark.next.reviewed
  /\ DOMAIN preview = {"for", "shown"}

(* What the renderer, or a change under way, takes to be approved is         *)
(* approved on disk; a change that keeps an approval keeps the boundary, and *)
(* so does an approval that meets it.                                        *)
Revocable ==
  /\ commit.pc \notin {"saved", "reset"} => (status.reviewed => disk.reviewed)
  /\ commit.pc \in {"called", "saved", "reset"} => (commit.next.reviewed => disk.reviewed)
  /\ commit.pc = "loaded" /\ commit.next.reviewed =>
       /\ disk.reviewed /\ Boundary(commit.next) = Boundary(disk)
       /\ mark.pc = "loaded" => Boundary(mark.next) = Boundary(disk)

(* As long as no settings change was pending together with a preview or an   *)
(* approval, what is shown and approved is what is on disk.                  *)
Consented ==
  /\ commit # NoCommit => mark = NoMark /\ preview = NoPreview
  /\ commit.pc = "loaded" /\ commit.next.reviewed => consent = Boundary(commit.next)
  /\ mark.pc = "loaded" => Boundary(mark.next) = Boundary(disk)
  /\ mark # NoMark => consent = Boundary(disk)
  /\ preview.shown \in {None, Boundary(disk)}
  /\ disk.reviewed => consent = Boundary(disk)

(* Turns that a late ask has brought back, and turns within the settings.    *)
Exempt(turns, late) == \E turn \in turns : turn.by \in late
Within(turns, s, late) ==
  Exempt(turns, late) \/ \A turn \in turns : turn.place = s.place /\ turn.level <= s.scope

AskFits(r, s, late) ==
  /\ Loaded(r) => r.cfg \in Settings
  /\ Loaded(r) /\ r.kind # "test" /\ r.n \notin late => Boundary(r.cfg) = Boundary(s)
  /\ Prepared(r) =>
       /\ r.level \in 0 .. r.cfg.scope
       /\ r.kind # "chat" => r.past = {}
       /\ r.n \notin late => Within(r.past, s, late)

(* Between the save of other settings and the reset, every ask is overtaken; *)
(* of the others, settings and turns are those of the disk.                  *)
AsksWithin ==
  /\ commit.pc = "saved" => \A a \in Active : ask[a].n \in overtaken
  /\ commit.pc # "saved" => \A t \in Threads : Within(chats[t], disk, overtaken)
  /\ \A a \in Asks : AskFits(ask[a], disk, overtaken)

(* What an approval is about to replace has not been approved, so nothing    *)
(* has been asked under it.                                                  *)
PutBack ==
  mark.pc = "loaded" /\ Boundary(mark.next) # Boundary(disk) =>
    /\ ~ disk.reviewed
    /\ \A a \in Asks : Loaded(ask[a]) /\ ask[a].kind # "test" => ask[a].n \in overtaken
    /\ commit.pc # "saved" => \A t \in Threads : chats[t] = {} \/ Exempt(chats[t], overtaken)

(* A chat that has its conversation to itself has read all of it.            *)
Crowding ==
  /\ \A a, b \in Active :
       a # b /\ ask[a].kind = "chat" /\ ask[b].kind = "chat" /\ ask[a].thread = ask[b].thread =>
         ask[a].n \in crowded
  /\ \A a \in Asks :
       Prepared(ask[a]) /\ ask[a].kind = "chat" /\ ask[a].n \notin crowded =>
         chats[ask[a].thread] \subseteq ask[a].past

(* No question is pending in a conversation that is forgotten.               *)
Forgetting ==
  /\ preview # NoPreview => preview.for[2] \in Threads /\ conv[preview.for[2]] = "open"
  /\ mark # NoMark => mark.for[2] \in Threads /\ conv[mark.for[2]] # "forgotten"
  /\ \A a \in Active : ask[a].kind # "test" =>
       ask[a].thread \in Threads /\ conv[ask[a].thread] # "forgotten"
  /\ DeletedStaysForgotten

IInv ==
  /\ Shape /\ Revocable /\ (~ raced => Consented) /\ AsksWithin /\ PutBack
  /\ Crowding /\ Forgetting /\ EgressLogged

-----------------------------------------------------------------------------
LEMMA ChangesAreSettings ==
  ASSUME NEW s \in Settings, NEW next \in Changes(s)
  PROVE  next \in Settings /\ next.reviewed = s.reviewed
BY DEF Changes, Settings, Scopes

(* Other settings come without an approval. *)
LEMMA RevokedKeepsOrForgets ==
  ASSUME NEW s \in Settings, NEW next \in Settings
  PROVE  /\ Revoked(s, next) \in Settings
         /\ Revoked(s, next).reviewed =>
              Revoked(s, next) = next /\ next.reviewed /\ Boundary(next) = Boundary(s)
BY DEF Revoked, Settings

LEMMA BoundaryIsAPair ==
  ASSUME NEW s \in Settings
  PROVE  /\ Boundary(s) # None /\ s.scope \in 0 .. 2
         /\ \A r \in Settings :
              Boundary(r) = Boundary(s) <=> r.place = s.place /\ r.scope = s.scope
BY AssistantAssumption DEF Boundary, Settings, Scopes

(* What a step makes of an ask in flight.                                    *)
Same(r, s) == s.n = r.n /\ s.kind = r.kind /\ s.thread = r.thread
Loads(r, s) ==
  r.pc = "called" /\ s.pc = "cleared" /\ Same(r, s) /\ s.cfg = disk /\ (disk.reviewed \/ r.kind = "test")
Prepares(r, s) ==
  /\ r.pc = "cleared" /\ s.pc = "ready" /\ Same(r, s) /\ s.cfg = r.cfg /\ s.level = 0
  /\ s.past = IF r.kind = "chat" THEN chats[r.thread] ELSE {}
GoesOn(r, s) ==
  /\ Prepared(r) /\ Prepared(s) /\ Same(r, s) /\ s.cfg = r.cfg /\ s.past = r.past
  /\ s.level \in {r.level, r.cfg.scope}

AskFrame == <<disk, commit, mark, renderer, consent, raced, overtaken, crowded>>

Fields == {"pc", "kind", "thread", "n", "cfg", "past", "level", "round"}
Moved(r, s) == s # NoAsk /\ AskShape(s) /\ GoesOn(r, s)
At(r, pc) == [r EXCEPT !.pc = pc]
Worked(r, level) == [r EXCEPT !.pc = "ready", !.level = level, !.round = r.round + 1]

LEMMA GoingOn ==
  ASSUME NEW r, AskShape(r), Prepared(r)
  PROVE  /\ \A pc \in {"ready", "sending", "tools", "final"} : Moved(r, At(r, pc))
         /\ \A level \in {r.level, r.cfg.scope} : Moved(r, Worked(r, level))
<1>1. DOMAIN r = Fields
  BY DEF AskShape, Prepared, NoAsk, Fields
<1>2. ASSUME NEW s, DOMAIN s = Fields, s.pc \in {"ready", "sending", "tools", "final"},
             \A x \in Fields \ {"pc", "level", "round"} : s[x] = r[x], s.level \in {r.level, r.cfg.scope}
      PROVE  Moved(r, s)
  <2>1. s.kind = r.kind /\ s.thread = r.thread /\ s.n = r.n /\ s.cfg = r.cfg /\ s.past = r.past
    BY <1>2 DEF Fields
  <2>2. s # NoAsk
    BY <1>2 DEF NoAsk
  <2> QED
    BY <1>2, <2>1, <2>2 DEF AskShape, GoesOn, Prepared, Same, Fields, Moved
<1>3. ASSUME NEW pc \in {"ready", "sending", "tools", "final"} PROVE Moved(r, At(r, pc))
  <2>1. /\ DOMAIN At(r, pc) = Fields /\ At(r, pc).pc = pc /\ At(r, pc).level = r.level
        /\ \A x \in Fields \ {"pc", "level", "round"} : At(r, pc)[x] = r[x]
    BY <1>1 DEF Fields, At
  <2> QED
    BY <2>1, <1>2
<1>4. ASSUME NEW level \in {r.level, r.cfg.scope} PROVE Moved(r, Worked(r, level))
  <2>1. /\ DOMAIN Worked(r, level) = Fields /\ Worked(r, level).pc = "ready"
        /\ Worked(r, level).level = level
        /\ \A x \in Fields \ {"pc", "level", "round"} : Worked(r, level)[x] = r[x]
    BY <1>1 DEF Fields, Worked
  <2> QED
    BY <2>1, <1>2
<1>5. QED
  BY <1>3, <1>4

LEMMA AskStepsAre ==
  ASSUME Shape, NEW a \in Asks, AskStep(a)
  PROVE  /\ UNCHANGED AskFrame
         /\ ask[a] # NoAsk /\ DOMAIN ask' = Asks /\ AskShape(ask'[a])
         /\ \A b \in Asks \ {a} : ask'[b] = ask[b]
         /\ \/ Finish(a)
            \/ UNCHANGED chats /\ ask'[a] = NoAsk
            \/ UNCHANGED chats /\ ask'[a] # NoAsk /\
               (Loads(ask[a], ask'[a]) \/ Prepares(ask[a], ask'[a]) \/ GoesOn(ask[a], ask'[a]))
<1> USE DEF AskFrame, renderer, counts, history, overlaps
<1> DEFINE r == ask[a]
<1>0. DOMAIN ask = Asks /\ AskShape(r)
  BY DEF Shape
<1>1. CASE LoadCfg(a)
  <2>1. CASE ask'[a] = NoAsk
    BY <1>0, <1>1, <2>1 DEF LoadCfg, NoAsk, AskShape
  <2>2. CASE disk.enabled /\ ~ Refused(r.kind, disk)
             /\ ask' = [ask EXCEPT ![a] = [pc |-> "cleared", kind |-> @.kind, thread |-> @.thread,
                                           n |-> @.n, cfg |-> disk]]
    BY <1>0, <1>1, <2>2 DEF LoadCfg, NoAsk, AskShape, Loads, Same, Refused
  <2> QED
    BY <1>0, <1>1, <2>1, <2>2 DEF LoadCfg
<1>2. CASE Prepare(a)
  BY <1>0, <1>2 DEF Prepare, NoAsk, AskShape, Prepares, Same
<1>3. CASE PrepareFails(a) \/ SendFails(a)
  BY <1>0, <1>3 DEF PrepareFails, SendFails, Answered, NoAsk, AskShape
<1>4. CASE Send(a) \/ FinalText(a) \/ WantsTools(a)
  <2>1. Prepared(r) /\ UNCHANGED <<chats, AskFrame>>
    BY <1>4 DEF Send, FinalText, WantsTools, Answered, Prepared
  <2>2. PICK pc \in {"sending", "tools", "final"} :
          \/ ask' = [ask EXCEPT ![a] = NoAsk]
          \/ ask' = [ask EXCEPT ![a] = At(r, pc)]
    BY <1>4 DEF Send, FinalText, WantsTools, Answered, At
  <2>3. Moved(r, At(r, pc)) /\ r # NoAsk
    BY <1>0, <2>1, GoingOn DEF Prepared, NoAsk
  <2> HIDE DEF r
  <2> QED
    BY <1>0, <2>1, <2>2, <2>3 DEF AskShape, Moved, r
<1>5. CASE RunTools(a)
  <2>1. Prepared(r) /\ UNCHANGED <<chats, AskFrame>>
    BY <1>5 DEF RunTools, Prepared
  <2>2. PICK level \in {r.level, r.cfg.scope} : ask' = [ask EXCEPT ![a] = Worked(r, level)]
    BY <1>5 DEF RunTools, Worked
  <2>3. Moved(r, Worked(r, level)) /\ r # NoAsk
    BY <1>0, <2>1, GoingOn DEF Prepared, NoAsk
  <2> QED
    BY <1>0, <2>1, <2>2, <2>3 DEF Moved
<1>6. CASE Finish(a)
  BY <1>0, <1>6 DEF Finish, NoAsk, AskShape
<1>7. QED
  BY <1>1, <1>2, <1>3, <1>4, <1>5, <1>6 DEF AskStep

LEMMA CallIs ==
  ASSUME Shape, NEW a \in Asks, NEW kind, NEW t, Called(a, kind, t)
  PROVE  /\ ask[a] = NoAsk /\ ask'[a] # NoAsk /\ AskShape(ask'[a]) /\ DOMAIN ask' = Asks
         /\ ask'[a].pc = "called" /\ ask'[a].kind = kind /\ ask'[a].thread = t
         /\ ask'[a].n = asked'
         /\ \A b \in Asks \ {a} : ask'[b] = ask[b]
         /\ overtaken \subseteq overtaken' /\ crowded \subseteq crowded'
<1>1. DOMAIN ask = Asks
  BY DEF Shape
<1>2. QED
  BY <1>1 DEF Called, NoAsk, AskShape

LEMMA StepShape == ASSUME Shape, [Next]_vars PROVE Shape'
<1> USE DEF renderer, counts, history, overlaps
<1>1. CASE Commit
  BY <1>1, ChangesAreSettings DEF Commit, Shape, NoCommit
<1>2. CASE CommitLoad
  BY <1>2, RevokedKeepsOrForgets DEF CommitLoad, Shape, NoCommit
<1>3. CASE CommitSave \/ CommitFails \/ CommitReset \/ CommitReturns
  BY <1>3 DEF CommitSave, CommitFails, CommitReset, CommitReturns, Shape, NoCommit
<1>4. CASE Render \/ Cancel \/ Approve
  BY <1>4 DEF Render, Cancel, Approve, Shape, NoPreview, NoMark
<1>5. CASE MarkLoad
  <2>1. [disk EXCEPT !.reviewed = TRUE] \in Settings /\ [disk EXCEPT !.reviewed = TRUE].reviewed
    BY DEF Shape, Settings
  <2> QED
    BY <1>5, <2>1 DEF MarkLoad, Shape, NoMark
<1>6. CASE MarkSave \/ MarkFails
  BY <1>6 DEF MarkSave, MarkFails, Shape, NoMark
<1>7. ASSUME NEW a \in Asks, MarkReturns(a) \/ TestConnection(a) PROVE Shape'
  BY <1>7, CallIs DEF MarkReturns, TestConnection, Shape, NoMark, NoPreview
<1>8. ASSUME NEW a \in Asks, AskStep(a) PROVE Shape'
  <2>1. CASE Finish(a)
    BY <1>8, <2>1, AskStepsAre DEF Shape, AskFrame, Finish
  <2>2. CASE UNCHANGED chats
    BY <1>8, <2>2, AskStepsAre DEF Shape, AskFrame
  <2> QED
    BY <1>8, <2>1, <2>2, AskStepsAre
<1>9. ASSUME NEW a \in Asks, NEW t \in Threads, NEW kind \in Kinds, Submit(a, kind, t) PROVE Shape'
  BY <1>9, CallIs DEF Submit, Shape
<1>10. ASSUME NEW t \in Threads, StartNew(t) \/ ResetChat(t) \/ \E u \in Threads : Delete(t, u)
       PROVE  Shape'
  BY <1>10 DEF StartNew, ResetChat, Delete, Shape
<1>11. CASE Quit
  <2>1. DOMAIN conv' = Threads /\ DOMAIN chats' = Threads
    BY <1>11 DEF Quit
  <2>2. DOMAIN ask' = Asks /\ \A a \in Asks : AskShape(ask'[a])
    BY <1>11 DEF Quit, AskShape
  <2> QED
    BY <1>11, <2>1, <2>2 DEF Quit, Shape, NoPreview, NoMark
<1>12. CASE UNCHANGED vars
  BY <1>12 DEF vars, Shape
<1>13. QED
  BY <1>1, <1>2, <1>3, <1>4, <1>5, <1>6, <1>7, <1>8, <1>9, <1>10, <1>11, <1>12 DEF Next

LEMMA StepRevocable == ASSUME Shape, Revocable, PutBack, [Next]_vars PROVE Revocable'
<1> USE DEF renderer, counts, history, overlaps, Revocable
<1>1. CASE Commit
  BY <1>1, ChangesAreSettings DEF Commit, NoCommit, Shape
<1>2. CASE CommitLoad
  <2>1. commit.next \in Settings /\ disk \in Settings
    BY <1>2 DEF CommitLoad, Shape, NoCommit
  <2>2. commit'.pc = "loaded" /\ commit'.next = Revoked(disk, commit.next)
    BY <1>2 DEF CommitLoad
  <2>3. commit'.next.reviewed => disk.reviewed /\ Boundary(commit'.next) = Boundary(disk)
    BY <1>2, <2>1, <2>2, RevokedKeepsOrForgets DEF CommitLoad
  <2> QED
    BY <1>2, <2>2, <2>3 DEF CommitLoad, PutBack, Boundary
<1>3. CASE CommitSave \/ CommitFails \/ CommitReset \/ CommitReturns
  BY <1>3 DEF CommitSave, CommitFails, CommitReset, CommitReturns, NoCommit, Shape
<1>4. CASE Render \/ Cancel \/ Approve
  BY <1>4 DEF Render, Cancel, Approve, Boundary
<1>5. CASE MarkLoad
  <2>1. Boundary([disk EXCEPT !.reviewed = TRUE]) = Boundary(disk)
    BY DEF Boundary, Shape, Settings
  <2> QED
    BY <1>5, <2>1 DEF MarkLoad, Boundary
<1>6. CASE MarkSave
  <2>1. disk'.reviewed
    BY <1>6 DEF MarkSave, Shape
  <2>2. mark'.pc = "saved"
    BY <1>6 DEF MarkSave
  <2>3. commit' = commit /\ status' = status /\ mark.pc = "loaded" /\ disk' = mark.next
    BY <1>6 DEF MarkSave
  <2> QED
    BY <2>1, <2>2, <2>3 DEF Boundary
<1>7. CASE MarkFails
  BY <1>7 DEF MarkFails, NoMark, Boundary
<1>8. ASSUME NEW a \in Asks, MarkReturns(a) \/ TestConnection(a) PROVE Revocable'
  BY <1>8 DEF MarkReturns, TestConnection, NoMark, Boundary
<1>9. ASSUME NEW a \in Asks, AskStep(a) PROVE Revocable'
  BY <1>9, AskStepsAre DEF AskFrame, Boundary
<1>10. ASSUME NEW a \in Asks, NEW t \in Threads, NEW kind \in Kinds, Submit(a, kind, t) PROVE Revocable'
  BY <1>10 DEF Submit, Boundary
<1>11. ASSUME NEW t \in Threads, StartNew(t) \/ ResetChat(t) \/ \E u \in Threads : Delete(t, u)
       PROVE  Revocable'
  BY <1>11 DEF StartNew, ResetChat, Delete, Boundary
<1>12. CASE Quit
  BY <1>12 DEF Quit, NoCommit
<1>13. CASE UNCHANGED vars
  BY <1>13 DEF vars, Boundary
<1>14. QED
  BY <1>1, <1>2, <1>3, <1>4, <1>5, <1>6, <1>7, <1>8, <1>9, <1>10, <1>11, <1>12, <1>13 DEF Next

LEMMA StepConsented ==
  ASSUME Shape, Revocable, ~ raced => Consented, [Next]_vars
  PROVE  ~ raced' => Consented'
<1> USE DEF renderer, counts, history, overlaps, Consented
<1>0. Boundary(disk) # None /\ DOMAIN preview = {"for", "shown"}
  BY BoundaryIsAPair DEF Shape
<1>1. CASE Commit
  <2>1. /\ preview = NoPreview /\ commit'.pc = "called"
        /\ UNCHANGED <<disk, mark, preview, consent>>
    BY <1>1 DEF Commit
  <2>2. raced' = (raced \/ mark # NoMark)
    BY <1>1 DEF Commit
  <2>3. ~ raced' => ~ raced /\ mark = NoMark
    BY <2>2, Zenon
  <2> QED
    BY <2>1, <2>3 DEF NoMark, NoPreview, Boundary
<1>2. CASE CommitLoad
  <2>1. commit.next \in Settings /\ disk \in Settings /\ commit # NoCommit
    BY <1>2 DEF CommitLoad, Shape, NoCommit
  <2>2. commit'.pc = "loaded" /\ commit'.next = Revoked(disk, commit.next)
    BY <1>2 DEF CommitLoad
  <2>3. commit'.next.reviewed => disk.reviewed /\ Boundary(commit'.next) = Boundary(disk)
    BY <1>2, <2>1, <2>2, RevokedKeepsOrForgets DEF CommitLoad, Revocable
  <2> QED
    BY <1>2, <2>1, <2>2, <2>3 DEF CommitLoad, Boundary
<1>3. CASE CommitSave
  <2>1. /\ disk' = commit.next /\ commit # NoCommit /\ commit.pc = "loaded"
        /\ commit'.pc = "saved" /\ UNCHANGED <<mark, preview, consent>>
    BY <1>3 DEF CommitSave, NoCommit, Shape
  <2>2. ~ raced' => mark = NoMark /\ preview = NoPreview /\ (disk'.reviewed => consent = Boundary(disk'))
    BY <1>3, <2>1 DEF CommitSave, Boundary
  <2> QED
    BY <2>1, <2>2 DEF NoMark, NoPreview
<1>4. CASE CommitFails \/ CommitReset \/ CommitReturns
  <2>1. commit # NoCommit /\ commit'.pc # "loaded" /\ UNCHANGED <<disk, mark, preview, consent, raced>>
    BY <1>4 DEF CommitFails, CommitReset, CommitReturns, NoCommit, Shape
  <2> QED
    BY <2>1 DEF Boundary
<1>5. CASE Render \/ Cancel
  BY <1>0, <1>5 DEF Render, Cancel, NoPreview, Boundary
<1>6. CASE Approve
  BY <1>0, <1>6 DEF Approve, NoCommit, NoMark, Boundary
<1>7. CASE MarkLoad
  <2>1. Boundary([disk EXCEPT !.reviewed = TRUE]) = Boundary(disk)
    BY DEF Boundary, Shape, Settings
  <2>2. mark # NoMark
    BY <1>7 DEF MarkLoad, NoMark
  <2> QED
    BY <1>7, <2>1, <2>2 DEF MarkLoad, Boundary
<1>8. CASE MarkSave
  <2>1. mark # NoMark /\ mark'.pc = "saved" /\ mark.pc = "loaded" /\ disk' = mark.next
        /\ UNCHANGED <<commit, preview, consent, raced>>
    BY <1>8 DEF MarkSave, NoMark
  <2>2. ~ raced => Boundary(disk') = Boundary(disk) /\ consent = Boundary(disk) /\ commit = NoCommit
    BY <2>1 DEF Boundary
  <2> QED
    BY <2>1, <2>2 DEF NoCommit
<1>9. CASE MarkFails
  BY <1>9 DEF MarkFails, NoMark, Boundary
<1>10. ASSUME NEW a \in Asks, MarkReturns(a) \/ TestConnection(a) PROVE ~ raced' => Consented'
  BY <1>10 DEF MarkReturns, TestConnection, NoMark, NoPreview, Boundary
<1>11. ASSUME NEW a \in Asks, AskStep(a) PROVE ~ raced' => Consented'
  BY <1>11, AskStepsAre DEF AskFrame, Boundary
<1>12. ASSUME NEW a \in Asks, NEW t \in Threads, NEW kind \in Kinds, Submit(a, kind, t)
       PROVE  ~ raced' => Consented'
  <2>1. UNCHANGED <<disk, commit, mark, consent>>
    BY <1>12 DEF Submit
  <2>2. CASE UNCHANGED <<preview, raced>>
    BY <2>1, <2>2 DEF Boundary
  <2>3. CASE preview' = [for |-> <<kind, t>>, shown |-> None] /\ raced' = (raced \/ commit # NoCommit)
    BY <2>1, <2>3 DEF Boundary
  <2> QED
    BY <1>12, <2>2, <2>3 DEF Submit
<1>13. ASSUME NEW t \in Threads, StartNew(t) \/ ResetChat(t) \/ \E u \in Threads : Delete(t, u)
       PROVE  ~ raced' => Consented'
  BY <1>13 DEF StartNew, ResetChat, Delete, Boundary
<1>14. CASE Quit
  BY <1>14 DEF Quit, NoCommit, NoMark, NoPreview, Boundary
<1>15. CASE UNCHANGED vars
  BY <1>15 DEF vars, Boundary
<1>16. QED
  BY <1>1, <1>2, <1>3, <1>4, <1>5, <1>6, <1>7, <1>8, <1>9, <1>10, <1>11, <1>12, <1>13, <1>14, <1>15
  DEF Next

LEMMA WithinLater ==
  ASSUME NEW turns, NEW late, NEW later, late \subseteq later, NEW s \in Settings,
         NEW r \in Settings, Boundary(r) = Boundary(s)
  PROVE  /\ Exempt(turns, late) => Exempt(turns, later)
         /\ Within(turns, s, late) => Within(turns, r, later)
<1>1. r.place = s.place /\ r.scope = s.scope
  BY BoundaryIsAPair
<1>2. Exempt(turns, late) => Exempt(turns, later)
  BY DEF Exempt
<1>3. QED
  BY <1>1, <1>2 DEF Within

LEMMA FitsLater ==
  ASSUME NEW late, NEW later, late \subseteq later, NEW s \in Settings, NEW t \in Settings,
         NEW r, AskFits(r, s, late),
         Boundary(t) = Boundary(s) \/ (Loaded(r) /\ r.kind # "test" => r.n \in later)
  PROVE  AskFits(r, t, later)
<1>1. Prepared(r) /\ r.n \notin later => Within(r.past, t, later)
  <2>1. CASE Boundary(t) = Boundary(s)
    BY <2>1, WithinLater DEF AskFits
  <2>2. CASE r.kind # "chat"
    BY <2>2 DEF AskFits, Within
  <2>3. CASE r.kind = "chat" /\ (Loaded(r) /\ r.kind # "test" => r.n \in later)
    BY <2>3 DEF Loaded
  <2> QED
    BY <2>1, <2>2, <2>3
<1>2. QED
  BY <1>1 DEF AskFits

LEMMA IdleFits ==
  ASSUME NEW r, r = NoAsk \/ r.pc = "called", NEW s, NEW late
  PROVE  ~ Loaded(r) /\ AskFits(r, s, late)
BY DEF Loaded, Prepared, AskFits, NoAsk

(* The asks of a step that changes none of those that have passed the checks. *)
LEMMA OthersFit ==
  ASSUME AsksWithin, disk \in Settings, UNCHANGED disk, overtaken \subseteq overtaken',
         NEW A, \A a \in Asks \ A : ask'[a] = ask[a] \/ ask'[a] = NoAsk \/ ask'[a].pc = "called"
  PROVE  \A a \in Asks \ A : AskFits(ask'[a], disk', overtaken')
<1>1. \A a \in Asks : AskFits(ask[a], disk', overtaken')
  BY FitsLater DEF AsksWithin
<1>2. QED
  BY <1>1, IdleFits

LEMMA StepWithin ==
  ASSUME Shape, Revocable, Forgetting, AsksWithin, PutBack, [Next]_vars
  PROVE  AsksWithin' /\ PutBack'
<1> USE DEF renderer, counts, history, overlaps
<1>0. disk \in Settings /\ DOMAIN ask = Asks /\ DOMAIN chats = Threads
  BY DEF Shape
<1>1. ASSUME UNCHANGED <<disk, ask, chats, mark, overtaken>>, (commit'.pc = "saved") <=> (commit.pc = "saved")
      PROVE  AsksWithin' /\ PutBack'
  BY <1>1 DEF AsksWithin, PutBack, Active, Boundary
<1>2. CASE Commit \/ CommitLoad \/ CommitFails \/ CommitReturns
  BY <1>1, <1>2 DEF Commit, CommitLoad, CommitFails, CommitReturns, NoCommit
<1>3. CASE CommitSave
  <2>1. /\ disk' = commit.next /\ commit.pc = "loaded" /\ commit # NoCommit /\ commit'.pc = "saved"
        /\ overtaken' = overtaken \cup {ask[a].n : a \in Active}
        /\ UNCHANGED <<ask, chats, mark>>
    BY <1>3 DEF CommitSave, NoCommit, Shape
  <2>2. disk' \in Settings
    BY <2>1 DEF Shape
  <2>3. \A a \in Asks : Loaded(ask[a]) => ask[a].n \in overtaken'
    BY <2>1 DEF Active, Loaded, Prepared, NoAsk
  <2>4. \A a \in Asks : AskFits(ask'[a], disk', overtaken')
    BY <1>0, <2>1, <2>2, <2>3, FitsLater DEF AsksWithin
  <2>5. AsksWithin'
    BY <2>1, <2>4 DEF AsksWithin, Active
  <2>6. PutBack'
    BY <2>1, <2>3 DEF PutBack, Revocable, Boundary
  <2> QED
    BY <2>5, <2>6
<1>4. CASE CommitReset
  <2>1. /\ chats' = [t \in Threads |-> {}] /\ commit'.pc = "reset"
        /\ UNCHANGED <<disk, ask, mark, overtaken>>
    BY <1>4 DEF CommitReset, NoCommit, Shape
  <2> QED
    BY <2>1 DEF AsksWithin, PutBack, Active, Boundary, Within
<1>5. CASE Render \/ Cancel
  BY <1>1, <1>5 DEF Render, Cancel
<1>6. CASE Approve \/ MarkLoad \/ MarkFails
  <2>1. /\ UNCHANGED <<disk, ask, chats, commit, overtaken>>
        /\ mark'.pc = "loaded" => Boundary(mark'.next) = Boundary(disk)
    BY <1>6 DEF Approve, MarkLoad, MarkFails, NoMark, Boundary, Shape, Settings
  <2> QED
    BY <2>1 DEF AsksWithin, PutBack, Active, Boundary
<1>7. CASE MarkSave
  <2>1. /\ disk' = mark.next /\ mark.pc = "loaded" /\ mark'.pc = "saved" /\ disk' \in Settings
        /\ UNCHANGED <<ask, chats, commit, overtaken>>
    BY <1>7 DEF MarkSave, Shape
  <2>2. PutBack'
    BY <2>1 DEF PutBack
  <2>3. \A a \in Asks : AskFits(ask'[a], disk', overtaken')
    BY <1>0, <2>1, FitsLater DEF AsksWithin, PutBack
  <2>4. ASSUME commit.pc # "saved", NEW t \in Threads
        PROVE  Within(chats'[t], disk', overtaken')
    <3>1. CASE Boundary(disk') = Boundary(disk)
      BY <1>0, <2>1, <2>4, <3>1, WithinLater DEF AsksWithin
    <3>2. CASE Boundary(disk') # Boundary(disk)
      BY <2>1, <2>4, <3>2 DEF PutBack, Within
    <3> QED
      BY <3>1, <3>2
  <2> QED
    BY <2>1, <2>2, <2>3, <2>4 DEF AsksWithin, Active
<1>8. ASSUME NEW a \in Asks, NEW kind, NEW t, Called(a, kind, t), UNCHANGED <<disk, chats, commit>>,
             mark' = mark \/ mark' = NoMark
      PROVE  AsksWithin' /\ PutBack'
  <2>1. /\ ask'[a].pc = "called" /\ ask'[a].n = asked' /\ \A b \in Asks \ {a} : ask'[b] = ask[b]
        /\ overtaken \subseteq overtaken'
    BY <1>8, CallIs
  <2>2. \A b \in Asks : AskFits(ask'[b], disk', overtaken')
    BY <1>0, <1>8, <2>1, OthersFit, IdleFits
  <2>3. commit.pc = "saved" => asked' \in overtaken'
    BY <1>8 DEF Called
  <2>4. \A u \in Threads : Within(chats[u], disk, overtaken) => Within(chats[u], disk, overtaken')
    BY <1>0, <2>1, WithinLater
  <2>5. AsksWithin'
    BY <1>8, <2>1, <2>2, <2>3, <2>4 DEF AsksWithin, Active
  <2>6. PutBack'
    BY <1>8, <2>1, IdleFits, WithinLater DEF PutBack, NoMark, Boundary, Exempt
  <2> QED
    BY <2>5, <2>6
<1>9. ASSUME NEW a \in Asks, MarkReturns(a) \/ TestConnection(a) PROVE AsksWithin' /\ PutBack'
  BY <1>8, <1>9 DEF MarkReturns, TestConnection
<1>10. ASSUME NEW a \in Asks, NEW t \in Threads, NEW kind \in Kinds, Submit(a, kind, t)
       PROVE  AsksWithin' /\ PutBack'
  BY <1>1, <1>8, <1>10 DEF Submit
<1>11. ASSUME NEW t \in Threads, StartNew(t) \/ \E u \in Threads : Delete(t, u)
       PROVE  AsksWithin' /\ PutBack'
  BY <1>1, <1>11 DEF StartNew, Delete
<1>12. ASSUME NEW t \in Threads, ResetChat(t) PROVE AsksWithin' /\ PutBack'
  <2>1. /\ chats' = [chats EXCEPT ![t] = {}]
        /\ UNCHANGED <<disk, ask, mark, commit, overtaken>>
    BY <1>12 DEF ResetChat
  <2> QED
    BY <1>0, <2>1 DEF AsksWithin, PutBack, Active, Boundary, Within
<1>13. CASE Quit
  <2>1. /\ commit' = NoCommit /\ mark' = NoMark /\ chats' = [t \in Threads |-> {}]
        /\ \A a \in Asks : ask'[a] = NoAsk
        /\ UNCHANGED overtaken
    BY <1>13 DEF Quit
  <2> QED
    BY <2>1, IdleFits DEF AsksWithin, PutBack, Active, Within, NoCommit, NoMark
<1>14. ASSUME NEW a \in Asks, AskStep(a) PROVE AsksWithin' /\ PutBack'
  <2> DEFINE r == ask[a]
             s == ask'[a]
  <2>0. /\ UNCHANGED <<disk, commit, mark, overtaken>> /\ r # NoAsk
        /\ \A b \in Asks \ {a} : ask'[b] = ask[b]
        /\ AskFits(r, disk, overtaken)
    BY <1>14, AskStepsAre DEF AskFrame, AsksWithin
  <2>1. \A b \in Asks \ {a} : AskFits(ask'[b], disk', overtaken')
    BY <2>0 DEF AsksWithin
  <2>2. ASSUME UNCHANGED chats, AskFits(s, disk, overtaken), s # NoAsk => Same(r, s),
               Loaded(s) => Loaded(r) \/ disk.reviewed \/ s.kind = "test"
        PROVE  AsksWithin' /\ PutBack'
    <3>1. AsksWithin'
      BY <2>0, <2>1, <2>2 DEF AsksWithin, Active, Same
    <3>2. Loaded(s) => s # NoAsk
      BY DEF Loaded, Prepared, NoAsk
    <3>3. PutBack'
      BY <2>0, <2>2, <3>2 DEF PutBack, Same, Boundary
    <3> QED
      BY <3>1, <3>3
  <2>3. CASE Finish(a)
    <3>1. /\ r.pc = "final" /\ s = NoAsk /\ Prepared(r) /\ Loaded(r)
          /\ chats' = IF r.kind = "chat" THEN [chats EXCEPT ![r.thread] = r.past \cup {Own(a)}] ELSE chats
      BY <1>0, <2>3 DEF Finish, Prepared, Loaded
    <3>2. AskFits(s, disk, overtaken)
      BY <3>1, IdleFits
    <3>3. CASE r.kind # "chat"
      BY <2>2, <3>1, <3>2, <3>3, IdleFits
    <3>4. CASE r.kind = "chat"
      <4>1. r.thread \in Threads
        BY <2>0, <3>4 DEF Forgetting, Active
      <4>2. chats'[r.thread] = r.past \cup {Own(a)} /\ \A t \in Threads \ {r.thread} : chats'[t] = chats[t]
        BY <1>0, <3>1, <3>4, <4>1
      <4>3. Own(a).by = r.n /\ Own(a).place = r.cfg.place /\ Own(a).level = r.level
        BY DEF Own
      <4>4. r.n \in overtaken => Exempt(chats'[r.thread], overtaken)
        BY <4>2, <4>3 DEF Exempt
      <4>5. ASSUME r.n \notin overtaken PROVE Within(chats'[r.thread], disk, overtaken)
        <5>1. /\ r.cfg \in Settings /\ Boundary(r.cfg) = Boundary(disk) /\ r.level \in 0 .. r.cfg.scope
              /\ Within(r.past, disk, overtaken)
          BY <2>0, <3>1, <3>4, <4>5 DEF AskFits
        <5>2. r.cfg.place = disk.place /\ r.cfg.scope = disk.scope /\ disk.scope \in 0 .. 2
          BY <1>0, <5>1, BoundaryIsAPair
        <5>3. Own(a).place = disk.place /\ Own(a).level <= disk.scope
          BY <4>3, <5>1, <5>2
        <5> QED
          BY <4>2, <5>1, <5>3 DEF Within, Exempt
      <4>6. AsksWithin'
        BY <2>0, <2>1, <3>1, <3>2, <4>2, <4>4, <4>5 DEF AsksWithin, Active, Within
      <4>7. PutBack'
        BY <2>0, <3>1, <3>4, <4>2, <4>4, IdleFits DEF PutBack, Boundary
      <4> QED
        BY <4>6, <4>7
    <3> QED
      BY <3>3, <3>4
  <2>4. CASE UNCHANGED chats /\ s = NoAsk
    BY <2>2, <2>4, IdleFits
  <2>5. CASE UNCHANGED chats /\ Loads(r, s) /\ s # NoAsk
    <3>1. ~ Prepared(s)
      BY <2>5 DEF Loads, Prepared
    <3>2. AskFits(s, disk, overtaken)
      BY <1>0, <2>5, <3>1 DEF Loads, AskFits
    <3> QED
      BY <2>2, <2>5, <3>2 DEF Loads, Same
  <2>6. CASE UNCHANGED chats /\ Prepares(r, s) /\ s # NoAsk
    <3>1. Loaded(r) /\ Prepared(s) /\ r.kind = s.kind /\ r.n = s.n /\ s.cfg = r.cfg /\ s.level = 0
      BY <2>6 DEF Prepares, Loaded, Prepared, Same
    <3>2. s.cfg \in Settings /\ s.level \in 0 .. s.cfg.scope
      <4>1. r.cfg \in Settings
        BY <2>0, <3>1 DEF AskFits
      <4> QED
        BY <3>1, <4>1, BoundaryIsAPair
    <3>3. s.kind # "chat" => s.past = {}
      BY <2>6 DEF Prepares, Same
    <3>4. r.n \notin overtaken => Within(s.past, disk, overtaken)
      <4>1. CASE r.kind = "chat"
        <5>1. r.thread \in Threads /\ (r.n \notin overtaken => commit.pc # "saved") /\ s.past = chats[r.thread]
          BY <2>0, <2>6, <4>1 DEF Forgetting, Active, AsksWithin, Prepares
        <5> QED
          BY <5>1 DEF AsksWithin
      <4>2. CASE r.kind # "chat"
        BY <3>1, <3>3, <4>2 DEF Within
      <4> QED
        BY <4>1, <4>2
    <3>5. AskFits(s, disk, overtaken)
      BY <2>0, <3>1, <3>2, <3>3, <3>4 DEF AskFits
    <3> QED
      BY <2>2, <2>6, <3>1, <3>5 DEF Prepares
  <2>7. CASE UNCHANGED chats /\ GoesOn(r, s) /\ s # NoAsk
    <3>1. Prepared(r) /\ Loaded(r) /\ Same(r, s) /\ s.cfg = r.cfg /\ s.past = r.past
          /\ s.level \in {r.level, r.cfg.scope}
      BY <2>7 DEF GoesOn, Loaded
    <3>2. s.level \in 0 .. s.cfg.scope
      <4>1. r.cfg \in Settings /\ r.level \in 0 .. r.cfg.scope
        BY <2>0, <3>1 DEF AskFits
      <4> QED
        BY <3>1, <4>1, BoundaryIsAPair
    <3>3. AskFits(s, disk, overtaken)
      BY <2>0, <3>1, <3>2 DEF AskFits, Same
    <3> QED
      BY <2>2, <2>7, <3>1, <3>3
  <2> QED
    BY <1>14, AskStepsAre, <2>3, <2>4, <2>5, <2>6, <2>7
<1>15. CASE UNCHANGED vars
  BY <1>1, <1>15 DEF vars
<1>16. QED
  BY <1>2, <1>3, <1>4, <1>5, <1>6, <1>7, <1>9, <1>10, <1>11, <1>12, <1>13, <1>14, <1>15 DEF Next

LEMMA StepCrowding == ASSUME Shape, Forgetting, Crowding, [Next]_vars PROVE Crowding'
<1> USE DEF renderer, counts, history, overlaps
<1>0. DOMAIN ask = Asks /\ DOMAIN chats = Threads
  BY DEF Shape
<1>1. ASSUME UNCHANGED <<ask, crowded>>, \A t \in Threads : chats'[t] = chats[t] \/ chats'[t] = {}
      PROVE  Crowding'
  <2>1. ASSUME NEW a \in Asks, Prepared(ask[a]), ask[a].kind = "chat", ask[a].n \notin crowded
        PROVE  chats'[ask[a].thread] \subseteq ask[a].past
    <3>1. ask[a].thread \in Threads /\ chats[ask[a].thread] \subseteq ask[a].past
      BY <2>1 DEF Crowding, Forgetting, Active, Prepared, NoAsk
    <3> QED
      BY <1>1, <3>1
  <2> QED
    BY <1>1, <2>1 DEF Crowding, Active
<1>2. CASE UNCHANGED <<ask, chats, crowded>>
  BY <1>1, <1>2
<1>3. CASE CommitReset \/ \E t \in Threads : ResetChat(t)
  BY <1>0, <1>1, <1>3 DEF CommitReset, ResetChat
<1>4. ASSUME NEW a \in Asks, NEW kind, NEW t, Called(a, kind, t), UNCHANGED chats
      PROVE  Crowding'
  <2>1. /\ ask[a] = NoAsk /\ ask'[a] # NoAsk /\ ask'[a].pc = "called" /\ ask'[a].n = asked'
        /\ ask'[a].kind = kind /\ ask'[a].thread = t
        /\ \A b \in Asks \ {a} : ask'[b] = ask[b]
        /\ crowded \subseteq crowded'
    BY <1>4, CallIs
  <2>2. ASSUME NEW b \in Active, b # a, ask[b].kind = "chat", kind = "chat", ask[b].thread = t
        PROVE  ask[b].n \in crowded' /\ asked' \in crowded'
    <3>1. ask[b].n \in ChatsIn(t)
      BY <2>2 DEF ChatsIn
    <3> QED
      BY <1>4, <2>2, <3>1 DEF Called
  <2>3. \A b, c \in Active' :
          b # c /\ ask'[b].kind = "chat" /\ ask'[c].kind = "chat" /\ ask'[b].thread = ask'[c].thread =>
            ask'[b].n \in crowded'
    <3>1. \A b \in Active' : b = a \/ (b \in Active /\ ask'[b] = ask[b])
      BY <2>1 DEF Active
    <3>2. ASSUME NEW b \in Active', NEW c \in Active', b # c, ask'[b].kind = "chat", ask'[c].kind = "chat",
                 ask'[b].thread = ask'[c].thread
          PROVE  ask'[b].n \in crowded'
      <4>1. CASE b = a
        BY <2>1, <2>2, <3>1, <3>2, <4>1
      <4>2. CASE c = a
        BY <2>1, <2>2, <3>1, <3>2, <4>2
      <4>3. CASE b # a /\ c # a
        BY <2>1, <3>1, <3>2, <4>3 DEF Crowding
      <4> QED
        BY <4>1, <4>2, <4>3
    <3> QED
      BY <3>2
  <2>4. \A b \in Asks : Prepared(ask'[b]) => b # a /\ ask'[b] = ask[b]
    BY <2>1 DEF Prepared
  <2> QED
    BY <1>4, <2>1, <2>3, <2>4 DEF Crowding
<1>5. ASSUME NEW a \in Asks, AskStep(a) PROVE Crowding'
  <2> DEFINE r == ask[a]
             s == ask'[a]
  <2>0. /\ r # NoAsk /\ crowded' = crowded /\ \A b \in Asks \ {a} : ask'[b] = ask[b]
    BY <1>5, AskStepsAre DEF AskFrame
  <2>1. ASSUME s = NoAsk \/ Same(r, s)
        PROVE  \A b, c \in Active' :
                 b # c /\ ask'[b].kind = "chat" /\ ask'[c].kind = "chat" /\ ask'[b].thread = ask'[c].thread =>
                   ask'[b].n \in crowded'
    <3>1. \A b \in Active' : b \in Active /\ Same(ask[b], ask'[b])
      BY <2>0, <2>1 DEF Active, Same
    <3> QED
      BY <2>0, <3>1 DEF Crowding, Same
  <2>2. CASE Finish(a)
    <3>1. /\ s = NoAsk /\ Prepared(r)
          /\ chats' = IF r.kind = "chat" THEN [chats EXCEPT ![r.thread] = r.past \cup {Own(a)}] ELSE chats
      BY <1>0, <2>2 DEF Finish, Prepared
    <3>2. ASSUME NEW b \in Asks, Prepared(ask'[b]), ask'[b].kind = "chat", ask'[b].n \notin crowded'
          PROVE  chats'[ask'[b].thread] \subseteq ask'[b].past
      <4>1. b # a /\ ask'[b] = ask[b] /\ a \in Active /\ b \in Active
        BY <2>0, <3>1, <3>2 DEF Prepared, NoAsk, Active
      <4>2. chats[ask[b].thread] \subseteq ask[b].past
        BY <2>0, <3>2, <4>1 DEF Crowding
      <4>3. r.kind = "chat" => ask[b].thread # r.thread
        BY <2>0, <3>2, <4>1 DEF Crowding
      <4>4. chats'[ask[b].thread] = chats[ask[b].thread]
        <5>1. ask[b].thread \in Threads
          BY <3>2, <4>1 DEF Forgetting
        <5> QED
          BY <1>0, <3>1, <4>3, <5>1
      <4> QED
        BY <4>1, <4>2, <4>4
    <3> QED
      BY <2>1, <3>1, <3>2 DEF Crowding
  <2>3. ASSUME UNCHANGED chats, s = NoAsk \/ Same(r, s),
               Prepared(s) /\ s.kind = "chat" /\ s.n \notin crowded => chats[s.thread] \subseteq s.past
        PROVE  Crowding'
    BY <2>0, <2>1, <2>3 DEF Crowding
  <2>4. CASE UNCHANGED chats /\ s = NoAsk
    BY <2>3, <2>4 DEF Prepared, NoAsk
  <2>5. CASE UNCHANGED chats /\ Loads(r, s)
    BY <2>3, <2>5 DEF Prepared, Loads
  <2>6. CASE UNCHANGED chats /\ Prepares(r, s)
    BY <2>3, <2>6 DEF Prepares, Same
  <2>7. CASE UNCHANGED chats /\ GoesOn(r, s)
    BY <2>3, <2>7 DEF GoesOn, Same, Crowding
  <2> QED
    BY <1>5, AskStepsAre, <2>2, <2>4, <2>5, <2>6, <2>7
<1>6. CASE Quit
  BY <1>6 DEF Quit, Crowding, Active, Prepared, NoAsk
<1>7. QED
  BY <1>2, <1>3, <1>4, <1>5, <1>6
  DEF Next, vars, Commit, CommitLoad, CommitSave, CommitFails, CommitReturns, Render, Cancel, Approve,
      MarkLoad, MarkSave, MarkFails, MarkReturns, TestConnection, Submit, StartNew, Delete

LEMMA StepForgetting == ASSUME Shape, Forgetting, [Next]_vars PROVE Forgetting'
<1> USE DEF renderer, counts, history, overlaps, DeletedStaysForgotten
<1>0. DOMAIN ask = Asks /\ DOMAIN chats = Threads /\ DOMAIN conv = Threads
  BY DEF Shape
<1>1. CASE UNCHANGED <<preview, mark, ask, conv, chats>>
  BY <1>1 DEF Forgetting, Active
<1>2. CASE CommitReset
  BY <1>2 DEF CommitReset, Forgetting, Active
<1>3. CASE Render \/ Cancel
  <2>1. preview # NoPreview /\ (preview' # NoPreview => preview'.for = preview.for)
        /\ UNCHANGED <<mark, ask, conv, chats>>
    BY <1>3 DEF Render, Cancel, Shape
  <2> QED
    BY <2>1 DEF Forgetting, Active
<1>4. CASE Approve
  BY <1>4 DEF Approve, Forgetting, Active
<1>5. CASE MarkLoad \/ MarkSave \/ MarkFails
  <2>1. mark # NoMark /\ (mark' # NoMark => mark'.for = mark.for) /\ UNCHANGED <<preview, ask, conv, chats>>
    BY <1>5 DEF MarkLoad, MarkSave, MarkFails, NoMark
  <2> QED
    BY <2>1 DEF Forgetting, Active
<1>6. ASSUME NEW a \in Asks, NEW kind, NEW t, Called(a, kind, t), UNCHANGED <<conv, chats>>,
             kind # "test" => t \in Threads /\ conv[t] # "forgotten",
             preview' = preview \/ preview' = NoPreview, mark' = mark \/ mark' = NoMark
      PROVE  Forgetting'
  <2>1. ask'[a].kind = kind /\ ask'[a].thread = t /\ \A b \in Asks \ {a} : ask'[b] = ask[b]
    BY <1>6, CallIs
  <2>2. \A b \in Active' : b = a \/ (b \in Active /\ ask'[b] = ask[b])
    BY <2>1 DEF Active
  <2>3. \A b \in Active' : ask'[b].kind # "test" =>
          ask'[b].thread \in Threads /\ conv[ask'[b].thread] # "forgotten"
    BY <1>6, <2>1, <2>2 DEF Forgetting
  <2> QED
    BY <1>6, <2>3 DEF Forgetting
<1>7. ASSUME NEW a \in Asks, MarkReturns(a) PROVE Forgetting'
  <2>1. mark # NoMark
    BY <1>7 DEF MarkReturns, NoMark
  <2> QED
    BY <1>6, <1>7, <2>1 DEF MarkReturns, Forgetting
<1>8. ASSUME NEW a \in Asks, TestConnection(a) PROVE Forgetting'
  BY <1>6, <1>8 DEF TestConnection
<1>9. ASSUME NEW a \in Asks, NEW t \in Threads, NEW kind \in Kinds, Submit(a, kind, t) PROVE Forgetting'
  <2>1. conv[t] = "open" /\ UNCHANGED <<mark, conv, chats>>
    BY <1>9 DEF Submit
  <2>2. CASE Called(a, kind, t) /\ UNCHANGED preview
    BY <1>6, <2>1, <2>2
  <2>3. CASE preview' = [for |-> <<kind, t>>, shown |-> None] /\ UNCHANGED ask
    BY <2>1, <2>3 DEF Forgetting, Active
  <2> QED
    BY <1>9, <2>2, <2>3 DEF Submit
<1>10. ASSUME NEW a \in Asks, AskStep(a) PROVE Forgetting'
  <2>1. /\ UNCHANGED <<preview, mark, conv>> /\ ask[a] # NoAsk
        /\ \A b \in Asks \ {a} : ask'[b] = ask[b]
        /\ ask'[a] = NoAsk \/ Same(ask[a], ask'[a])
    BY <1>10, AskStepsAre DEF AskFrame, Loads, Prepares, GoesOn, Finish, Shape
  <2>2. \A b \in Active' : b \in Active /\ Same(ask[b], ask'[b])
    BY <2>1 DEF Active, Same
  <2>3. DeletedStaysForgotten'
    <3>1. CASE Finish(a) /\ ask[a].kind = "chat"
      <4>1. chats' = [chats EXCEPT ![ask[a].thread] = ask[a].past \cup {Own(a)}]
        BY <3>1 DEF Finish
      <4>2. ask[a].thread \in Threads /\ conv[ask[a].thread] # "forgotten"
        BY <2>1, <3>1 DEF Forgetting, Active
      <4> QED
        BY <1>0, <2>1, <4>1, <4>2 DEF Forgetting
    <3>2. CASE UNCHANGED chats
      BY <2>1, <3>2 DEF Forgetting
    <3> QED
      BY <1>10, AskStepsAre, <3>1, <3>2 DEF Finish
  <2> QED
    BY <2>1, <2>2, <2>3 DEF Forgetting, Same
<1>11. ASSUME NEW t \in Threads, StartNew(t) PROVE Forgetting'
  BY <1>0, <1>11 DEF StartNew, Forgetting, Active
<1>12. ASSUME NEW t \in Threads, NEW u \in Threads, Delete(t, u) PROVE Forgetting'
  BY <1>0, <1>12 DEF Delete, Forgetting, Active
<1>13. ASSUME NEW t \in Threads, ResetChat(t) PROVE Forgetting'
  <2>1. /\ conv[t] = "deleted" /\ chats' = [chats EXCEPT ![t] = {}]
        /\ conv' = [conv EXCEPT ![t] = IF PendingIn(t) THEN "outlived" ELSE "forgotten"]
        /\ UNCHANGED <<preview, mark, ask>>
    BY <1>13 DEF ResetChat
  <2>2. \A u \in Threads : (u # t \/ PendingIn(t)) /\ conv[u] # "forgotten" => conv'[u] # "forgotten"
    BY <1>0, <2>1
  <2>3. \A u \in Threads : conv[u] = "open" => conv'[u] = "open"
    BY <1>0, <2>1
  <2>4. mark # NoMark => mark.for[2] # t \/ PendingIn(t)
    BY DEF PendingIn
  <2>5. \A a \in Active : ask[a].kind # "test" => ask[a].thread # t \/ PendingIn(t)
    BY DEF PendingIn
  <2>6. DeletedStaysForgotten'
    BY <1>0, <2>1 DEF Forgetting
  <2> QED
    BY <2>1, <2>2, <2>3, <2>4, <2>5, <2>6 DEF Forgetting, Active
<1>14. CASE Quit
  <2>1. \A t \in Threads : chats'[t] = {}
    BY <1>14 DEF Quit
  <2> QED
    BY <1>14, <2>1 DEF Quit, Forgetting, Active
<1>15. QED
  BY <1>1, <1>2, <1>3, <1>4, <1>5, <1>7, <1>8, <1>9, <1>10, <1>11, <1>12, <1>13, <1>14
  DEF Next, vars, Commit, CommitLoad, CommitSave, CommitFails, CommitReturns

(* A request leaves the wire with its line, or with the end of the program.  *)
LEMMA StepLogged == ASSUME Shape, EgressLogged, [Next]_vars PROVE EgressLogged'
<1> USE DEF renderer, counts, history, overlaps
<1>0. DOMAIN ask = Asks
  BY DEF Shape
<1>1. ASSUME due' \subseteq due, audit \subseteq audit',
             \A b \in OnWire : ask'[b] = ask[b] \/ Request(b) \in audit'
      PROVE  EgressLogged'
  <2>1. ASSUME NEW b \in OnWire PROVE Request(b) \in audit' \cup {Request(c) : c \in OnWire}'
    BY <1>1, <2>1 DEF OnWire, Request
  <2> QED
    BY <1>1, <2>1 DEF EgressLogged
<1>2. CASE UNCHANGED <<ask, audit, due>>
  BY <1>1, <1>2
<1>3. ASSUME NEW a \in Asks, NEW kind, NEW t, Called(a, kind, t), UNCHANGED <<audit, due>>
      PROVE  EgressLogged'
  <2>1. \A b \in OnWire : ask'[b] = ask[b]
    BY <1>3, CallIs DEF OnWire, NoAsk
  <2> QED
    BY <1>1, <1>3, <2>1
<1>4. ASSUME NEW a \in Asks, LoadCfg(a) PROVE EgressLogged'
  <2>1. /\ \A b \in OnWire : ask'[b] = ask[b]
        /\ audit \subseteq audit'
    BY <1>0, <1>4 DEF LoadCfg, OnWire, Append
  <2>2. due' \subseteq due \cup audit'
    BY <1>4 DEF LoadCfg, Append
  <2>3. \A b \in OnWire : Request(b)' = Request(b) /\ b \in OnWire'
    BY <2>1 DEF OnWire, Request
  <2> QED
    BY <2>1, <2>2, <2>3 DEF EgressLogged
<1>5. ASSUME NEW a \in Asks, Prepare(a) \/ PrepareFails(a) \/ RunTools(a) \/ Finish(a) PROVE EgressLogged'
  <2>1. (\A b \in OnWire : ask'[b] = ask[b]) /\ UNCHANGED <<audit, due>>
    BY <1>0, <1>5 DEF Prepare, PrepareFails, RunTools, Finish, OnWire
  <2> QED
    BY <1>1, <2>1
<1>6. ASSUME NEW a \in Asks, Send(a) PROVE EgressLogged'
  <2>1. /\ ask[a].pc = "ready" /\ ask' = [ask EXCEPT ![a] = At(ask[a], "sending")]
        /\ due' = due \cup {Request(a)} /\ audit' = audit
    BY <1>6 DEF Send, At
  <2>2. AskShape(ask[a])
    BY DEF Shape
  <2>3. At(ask[a], "sending").pc = "sending" /\ At(ask[a], "sending").n = ask[a].n
        /\ At(ask[a], "sending").round = ask[a].round
    BY <2>1, <2>2 DEF At, AskShape, NoAsk
  <2>4. a \in OnWire' /\ Request(a)' = Request(a)
    BY <1>0, <2>1, <2>3 DEF OnWire, Request
  <2>5. \A b \in OnWire : b \in OnWire' /\ Request(b)' = Request(b)
    BY <1>0, <2>1 DEF OnWire, Request
  <2> QED
    BY <2>1, <2>4, <2>5 DEF EgressLogged
<1>7. ASSUME NEW a \in Asks, SendFails(a) \/ FinalText(a) \/ WantsTools(a) PROVE EgressLogged'
  <2>1. Append(Request(a)) /\ UNCHANGED due /\ \A b \in Asks \ {a} : ask'[b] = ask[b]
    BY <1>0, <1>7 DEF SendFails, FinalText, WantsTools, Answered
  <2> QED
    BY <1>1, <2>1 DEF Append, OnWire
<1>8. CASE Quit
  BY <1>8 DEF Quit, EgressLogged
<1>9. QED
  BY <1>2, <1>3, <1>4, <1>5, <1>6, <1>7, <1>8
  DEF Next, vars, AskStep, Commit, CommitLoad, CommitSave, CommitFails, CommitReset, CommitReturns, Render,
      Cancel, Approve, MarkLoad, MarkSave, MarkFails, MarkReturns, TestConnection, Submit, StartNew,
      ResetChat, Delete

LEMMA InitInv == Init => IInv
<1> SUFFICES ASSUME Init PROVE IInv
  OBVIOUS
<1>1. Shape
  <2>1. DOMAIN conv = Threads
    BY DEF Init
  <2> QED
    BY <2>1 DEF Init, Shape, AskShape, Settings, Scopes, NoCommit, NoMark, NoPreview
<1>2. Revocable /\ (~ raced => Consented)
  BY DEF Init, Revocable, Consented, NoCommit, NoMark, NoPreview
<1>3. AsksWithin /\ PutBack
  BY IdleFits DEF Init, AsksWithin, PutBack, Active, Within, NoCommit, NoMark
<1>4. Crowding /\ EgressLogged
  BY DEF Init, Crowding, Active, Prepared, NoAsk, EgressLogged
<1>5. Forgetting
  BY DEF Init, Forgetting, Active, DeletedStaysForgotten
<1>6. QED
  BY <1>1, <1>2, <1>3, <1>4, <1>5 DEF IInv

LEMMA Invariance == Spec => []IInv
<1>1. IInv /\ [Next]_vars => IInv'
  BY StepShape, StepRevocable, StepConsented, StepWithin, StepCrowding, StepForgetting, StepLogged DEF IInv
<1>2. QED
  BY <1>1, InitInv, PTL DEF Spec

-----------------------------------------------------------------------------
(* The consent gate. While settings.json says that the payload was reviewed, *)
(* the preview that was approved last showed what settings.json holds,       *)
(* unless, since the approval was last revoked, one and a settings change    *)
(* were pending together.                                                    *)
THEOREM ApprovalIsOfWhatWasPreviewed == Spec => []ApprovedAsPreviewed
<1>1. IInv => ApprovedAsPreviewed
  BY DEF IInv, Consented, ApprovedAsPreviewed
<1>2. QED
  BY <1>1, Invariance, PTL

(* No request carries turns of a conversation held with another place, or    *)
(* values above the privacy level it is sent at, unless a settings change    *)
(* overtook the ask, or one whose answer it carries.                         *)
THEOREM RequestsStayWithinLevel == Spec => []WithinLevel
<1>1. IInv => WithinLevel
  <2> SUFFICES ASSUME IInv, NEW a \in OnWire, ask[a].n \notin overtaken, ~ Exempt(ask[a].past, overtaken),
                      NEW turn \in ask[a].past
               PROVE  turn.place = ask[a].cfg.place /\ turn.level <= ask[a].cfg.scope
    BY DEF WithinLevel, Exempt
  <2>1. a \in Asks /\ Prepared(ask[a]) /\ Loaded(ask[a]) /\ disk \in Settings
    BY DEF OnWire, Prepared, Loaded, IInv, Shape
  <2>2. AskFits(ask[a], disk, overtaken)
    BY <2>1 DEF IInv, AsksWithin
  <2>3. ask[a].kind # "test" /\ Within(ask[a].past, disk, overtaken)
    BY <2>1, <2>2 DEF AskFits
  <2>4. ask[a].cfg \in Settings /\ Boundary(ask[a].cfg) = Boundary(disk)
    BY <2>1, <2>2, <2>3 DEF AskFits
  <2>5. ask[a].cfg.place = disk.place /\ ask[a].cfg.scope = disk.scope
    BY <2>1, <2>4, BoundaryIsAPair
  <2> QED
    BY <2>3, <2>5 DEF Within
<1>2. QED
  BY <1>1, Invariance, PTL

(* Every request that is not on the wire has its line in the egress log, or  *)
(* was warned about, and so has every refusal; but for those that a quit cut *)
(* off.                                                                      *)
THEOREM EgressIsLogged == Spec => []EgressLogged
<1>1. IInv => EgressLogged
  BY DEF IInv
<1>2. QED
  BY <1>1, Invariance, PTL

(* A conversation that was forgotten with no question pending in it stays so.*)
THEOREM DeletedIsForgotten == Spec => []DeletedStaysForgotten
<1>1. IInv => DeletedStaysForgotten
  BY DEF IInv, Forgetting
<1>2. QED
  BY <1>1, Invariance, PTL

LEMMA StepKeepsTurns ==
  ASSUME Shape, Crowding, Forgetting, Next
  PROVE  \A t \in Threads :
           \/ chats[t] \subseteq chats'[t] \/ chats'[t] = {}
           \/ \E a \in Active : ask'[a] = NoAsk /\ ask[a].thread = t /\ ask[a].n \in crowded
<1> USE DEF renderer, counts, history, overlaps
<1>0. DOMAIN chats = Threads /\ DOMAIN ask = Asks
  BY DEF Shape
<1>1. CASE UNCHANGED chats
  BY <1>1
<1>2. CASE CommitReset \/ Quit \/ \E t \in Threads : ResetChat(t)
  BY <1>0, <1>2 DEF CommitReset, Quit, ResetChat
<1>3. ASSUME NEW a \in Asks, Finish(a), ask[a].kind = "chat", NEW t \in Threads
      PROVE  \/ chats[t] \subseteq chats'[t]
             \/ \E b \in Active : ask'[b] = NoAsk /\ ask[b].thread = t /\ ask[b].n \in crowded
  <2>1. /\ chats' = [chats EXCEPT ![ask[a].thread] = ask[a].past \cup {Own(a)}]
        /\ ask'[a] = NoAsk /\ Prepared(ask[a]) /\ a \in Active
    BY <1>0, <1>3 DEF Finish, Prepared, Active, NoAsk
  <2>2. CASE ask[a].n \in crowded /\ t = ask[a].thread
    BY <2>1, <2>2
  <2>3. CASE ask[a].n \notin crowded /\ t = ask[a].thread
    BY <1>0, <1>3, <2>1, <2>3 DEF Crowding
  <2>4. CASE t # ask[a].thread
    BY <1>0, <2>1, <2>4
  <2> QED
    BY <2>2, <2>3, <2>4
<1>4. ASSUME NEW a \in Asks, AskStep(a) PROVE UNCHANGED chats \/ (Finish(a) /\ ask[a].kind = "chat")
  BY <1>4, AskStepsAre DEF Finish
<1>5. QED
  BY <1>1, <1>2, <1>3, <1>4
  DEF Next, Commit, CommitLoad, CommitSave, CommitFails, CommitReturns, Render, Cancel, Approve, MarkLoad,
      MarkSave, MarkFails, MarkReturns, TestConnection, Submit, StartNew, Delete

(* An answer never replaces a turn that an earlier one left, unless another  *)
(* question was pending in the conversation together with its own.           *)
THEOREM TurnsAreKept == Spec => TurnsKept
<1>1. IInv /\ [Next]_vars =>
        [\A t \in Threads :
           \/ chats[t] \subseteq chats'[t] \/ chats'[t] = {}
           \/ \E a \in Active : ask'[a] = NoAsk /\ ask[a].thread = t /\ ask[a].n \in crowded]_vars
  BY StepKeepsTurns DEF IInv
<1>2. QED
  BY <1>1, Invariance, PTL DEF Spec, TurnsKept

(* The fields of an ask fit its step, whoever acts meanwhile.                *)
AsksShaped == DOMAIN ask = Asks /\ \A a \in Asks : AskShape(ask[a])

LEMMA StepAsksShaped ==
  ASSUME AsksShaped, [Next]_vars
  PROVE  /\ AsksShaped'
         /\ \A a \in Asks : ~ disk.enabled /\ Waiting(ask[a]) => Waiting(ask'[a])
<1> USE DEF AsksShaped, AskShape, Waiting, NoAsk
<1>1. ASSUME NEW a \in Asks, NEW kind, NEW t, Called(a, kind, t)
      PROVE  /\ AsksShaped'
             /\ \A b \in Asks : Waiting(ask[b]) => Waiting(ask'[b])
  BY <1>1 DEF Called
<1>2. CASE UNCHANGED ask
  BY <1>2
<1>3. CASE Quit
  BY <1>3 DEF Quit
<1>4. ASSUME NEW a \in Asks, LoadCfg(a)
      PROVE  /\ AsksShaped'
             /\ \A b \in Asks : ~ disk.enabled /\ Waiting(ask[b]) => Waiting(ask'[b])
  BY <1>4 DEF LoadCfg
<1>5. ASSUME NEW a \in Asks, Prepare(a) \/ PrepareFails(a) \/ Send(a) \/ RunTools(a) \/ Finish(a)
      PROVE  /\ AsksShaped'
             /\ \A b \in Asks : Waiting(ask[b]) => Waiting(ask'[b])
  BY <1>5 DEF Prepare, PrepareFails, Send, RunTools, Finish
<1>6. ASSUME NEW a \in Asks, SendFails(a) \/ FinalText(a) \/ WantsTools(a)
      PROVE  /\ AsksShaped'
             /\ \A b \in Asks : Waiting(ask[b]) => Waiting(ask'[b])
  BY <1>6 DEF SendFails, FinalText, WantsTools, Answered
<1>7. QED
  BY <1>1, <1>2, <1>3, <1>4, <1>5, <1>6
  DEF Next, AskStep, vars, Commit, CommitLoad, CommitSave, CommitFails, CommitReset,
      CommitReturns, Render, Cancel, Approve, MarkLoad, MarkSave, MarkFails, MarkReturns,
      TestConnection, Submit, StartNew, ResetChat, Delete

(* While the assistant stays off on disk, no ask passes its checks, whatever *)
(* the user does meanwhile.                                                  *)
THEOREM OffMeansNoAskPasses == Spec => OffStopsAsks
<1>1. Init => AsksShaped
  BY DEF Init, AsksShaped, AskShape
<1>2. AsksShaped /\ [Next]_vars => AsksShaped'
  BY StepAsksShaped
<1>3. AsksShaped /\ [Next]_vars =>
        [\A a \in Asks :
           ~ disk.enabled /\ ~ disk'.enabled /\ Waiting(ask[a]) => Waiting(ask'[a])]_vars
  BY StepAsksShaped
<1>4. QED
  BY <1>1, <1>2, <1>3, PTL DEF Spec, OffStopsAsks

-----------------------------------------------------------------------------
(* Types, for every user.  That the level of the values an ask holds and     *)
(* the number of its rounds are bounded takes how the checks order the steps *)
(* of an ask.                                                                *)

CalledAsks == [pc: {"called"}, kind: Kinds, thread: Threads \cup {None}, n: 1 .. MaxAsks]
ClearedAsks ==
  [pc: {"cleared"}, kind: Kinds, thread: Threads \cup {None}, n: 1 .. MaxAsks, cfg: Settings]
PreparedAsks ==
  [pc: {"ready", "sending", "tools", "final"}, kind: Kinds, thread: Threads \cup {None},
   n: 1 .. MaxAsks, cfg: Settings, past: SUBSET Turn, level: Scopes, round: 0 .. MaxSteps]

(* A question is asked in a conversation; tools run while the budget lasts.  *)
AskTyped(r) ==
  \/ r = NoAsk
  \/ /\ r \in CalledAsks \cup ClearedAsks \cup PreparedAsks
     /\ r.kind # "test" => r.thread \in Threads
     /\ r \in PreparedAsks => r.level <= r.cfg.scope /\ (r.pc = "tools" => r.round < MaxSteps)

Typed ==
  /\ disk \in Settings /\ status \in Settings
  /\ commit \in {NoCommit} \cup [pc: {"called", "loaded", "saved", "reset"}, next: Settings]
  /\ mark \in {NoMark} \cup [pc: {"called", "saved"}, for: Kinds \X Threads]
                       \cup [pc: {"loaded"}, for: Kinds \X Threads, next: Settings]
  /\ preview \in {NoPreview} \cup [for: Kinds \X Threads, shown: {None} \cup (Places \X Scopes)]
  /\ conv \in [Threads -> {"unused", "open", "deleted", "forgotten", "outlived"}]
  /\ chats \in [Threads -> SUBSET Turn]
  /\ DOMAIN ask = Asks /\ \A a \in Asks : AskTyped(ask[a])
  /\ ask = [a \in Asks |-> ask[a]]
  /\ asked \in 0 .. MaxAsks /\ committed \in 0 .. MaxCommits
  /\ consent \in {None} \cup (Places \X Scopes)

HistoryTyped ==
  /\ \A line \in audit \cup due : line[1] \in 1 .. MaxAsks
  /\ raced \in BOOLEAN /\ overtaken \subseteq 1 .. MaxAsks /\ crowded \subseteq 1 .. MaxAsks

LEMMA ScopesAre == Scopes = {0, 1, 2} /\ Scopes \subseteq Int
BY DEF Scopes

(* What an ask may become when its settings are loaded or its conversation   *)
(* is read.                                                                  *)
LEMMA AskMovesOn ==
  ASSUME Typed, NEW a \in Asks, AskStep(a)
  PROVE  /\ ask' = [ask EXCEPT ![a] = ask'[a]] /\ AskTyped(ask'[a])
         /\ chats' \in [Threads -> SUBSET Turn]
         /\ UNCHANGED <<disk, commit, mark, renderer, counts, consent>>
<1> DEFINE r == ask[a]
<1>0. AskTyped(r) /\ DOMAIN ask = Asks /\ ask = [b \in Asks |-> ask[b]] /\ disk \in Settings
      /\ chats \in [Threads -> SUBSET Turn] /\ MaxSteps \in Nat
  BY AssistantAssumption DEF Typed
<1>1. CASE LoadCfg(a)
  <2>1. r \in CalledAsks /\ (r.kind # "test" => r.thread \in Threads)
    BY <1>0, <1>1 DEF LoadCfg, AskTyped, NoAsk, ClearedAsks, PreparedAsks
  <2>2. [pc |-> "cleared", kind |-> r.kind, thread |-> r.thread, n |-> r.n, cfg |-> disk] \in ClearedAsks
    BY <2>1, <1>0 DEF CalledAsks, ClearedAsks
  <2>3. AskTyped([pc |-> "cleared", kind |-> r.kind, thread |-> r.thread, n |-> r.n, cfg |-> disk])
    BY <2>1, <2>2 DEF AskTyped, PreparedAsks
  <2> QED
    BY <1>0, <1>1, <2>3 DEF LoadCfg, AskTyped, renderer, counts
<1>2. CASE Prepare(a)
  <2> DEFINE past == IF r.kind = "chat" THEN chats[r.thread] ELSE {}
             next == [pc |-> "ready", kind |-> r.kind, thread |-> r.thread, n |-> r.n, cfg |-> r.cfg,
                      past |-> past, level |-> 0, round |-> 0]
  <2>1. r \in ClearedAsks /\ (r.kind # "test" => r.thread \in Threads)
    BY <1>0, <1>2 DEF Prepare, AskTyped, NoAsk, CalledAsks, PreparedAsks
  <2>2. past \in SUBSET Turn
    BY <2>1, <1>0
  <2>3. next \in PreparedAsks
    BY <2>1, <2>2, <1>0, ScopesAre DEF ClearedAsks, PreparedAsks
  <2>4. next.level <= next.cfg.scope
    BY <2>1, ScopesAre DEF ClearedAsks, Settings
  <2>5. AskTyped(next)
    BY <2>1, <2>3, <2>4 DEF AskTyped
  <2> QED
    BY <1>0, <1>2, <2>5 DEF Prepare, renderer, counts, history
<1>3. CASE PrepareFails(a)
  BY <1>0, <1>3 DEF PrepareFails, AskTyped, renderer, counts, history
<1>4. ASSUME r \in PreparedAsks, NEW pc \in {"ready", "sending", "final"}
      PROVE  AskTyped([r EXCEPT !.pc = pc])
  <2>1. [r EXCEPT !.pc = pc] \in PreparedAsks
    BY <1>4 DEF PreparedAsks
  <2> QED
    BY <2>1, <1>4, <1>0 DEF AskTyped, PreparedAsks, CalledAsks, ClearedAsks, NoAsk
<1>5. CASE Send(a)
  <2>1. r \in PreparedAsks
    BY <1>0, <1>5 DEF Send, AskTyped, NoAsk, CalledAsks, ClearedAsks
  <2> QED
    BY <1>0, <1>5, <2>1, <1>4 DEF Send, renderer, counts
<1>6. CASE SendFails(a) \/ FinalText(a) \/ WantsTools(a)
  <2>1. r \in PreparedAsks
    BY <1>0, <1>6 DEF SendFails, FinalText, WantsTools, Answered, AskTyped, NoAsk, CalledAsks, ClearedAsks
  <2>2. r.round # MaxSteps => AskTyped([r EXCEPT !.pc = "tools"])
    <3>1. [r EXCEPT !.pc = "tools"] \in PreparedAsks
      BY <2>1 DEF PreparedAsks
    <3> QED
      BY <3>1, <2>1, <1>0 DEF AskTyped, PreparedAsks, CalledAsks, ClearedAsks, NoAsk
  <2> QED
    BY <1>0, <1>6, <2>1, <2>2, <1>4 DEF SendFails, FinalText, WantsTools, Answered, AskTyped, renderer, counts
<1>7. CASE RunTools(a)
  <2>1. r \in PreparedAsks /\ r.pc = "tools" /\ r.level <= r.cfg.scope /\ r.round < MaxSteps
        /\ (r.kind # "test" => r.thread \in Threads)
    BY <1>0, <1>7 DEF RunTools, AskTyped, NoAsk, CalledAsks, ClearedAsks, PreparedAsks
  <2>2. PICK level \in {r.level, r.cfg.scope} :
          ask' = [ask EXCEPT ![a].pc = "ready", ![a].level = level, ![a].round = @ + 1]
    BY <1>7 DEF RunTools
  <2> DEFINE next == [r EXCEPT !.pc = "ready", !.level = level, !.round = @ + 1]
  <2>3. ask' = [ask EXCEPT ![a] = next] /\ ask'[a] = next
    BY <2>2, <1>0
  <2>4. r.cfg.scope \in Scopes /\ level \in Scopes /\ r.round + 1 \in 0 .. MaxSteps /\ level <= r.cfg.scope
    BY <2>1, <1>0, ScopesAre DEF PreparedAsks, Settings
  <2>5. next \in PreparedAsks
    BY <2>1, <2>4 DEF PreparedAsks
  <2>6. AskTyped(next)
    BY <2>1, <2>4, <2>5 DEF AskTyped, PreparedAsks
  <2> QED
    BY <1>0, <1>7, <2>3, <2>6 DEF RunTools, renderer, counts, history
<1>8. CASE Finish(a)
  <2>1. r \in PreparedAsks /\ (r.kind # "test" => r.thread \in Threads)
    BY <1>0, <1>8 DEF Finish, AskTyped, NoAsk, CalledAsks, ClearedAsks, PreparedAsks
  <2>2. Own(a) \in Turn
    BY <2>1 DEF Own, Turn, PreparedAsks, Settings
  <2>3. r.past \cup {Own(a)} \in SUBSET Turn
    BY <2>1, <2>2 DEF PreparedAsks
  <2>4. chats' \in [Threads -> SUBSET Turn]
    BY <2>1, <2>3, <1>0, <1>8 DEF Finish
  <2> QED
    BY <1>0, <1>8, <2>4 DEF Finish, AskTyped, renderer, counts, history
<1>9. QED
  BY <1>0, <1>1, <1>2, <1>3, <1>5, <1>6, <1>7, <1>8
  DEF AskStep, LoadCfg, Prepare, PrepareFails, Send, SendFails, FinalText, WantsTools, Answered, RunTools
LEMMA BoundaryTyped == ASSUME NEW s \in Settings PROVE Boundary(s) \in Places \X Scopes
BY DEF Boundary, Settings

LEMMA CallTyped ==
  ASSUME Typed, NEW a \in Asks, NEW kind \in Kinds, NEW t \in Threads \cup {None}, Called(a, kind, t),
         kind # "test" => t \in Threads
  PROVE  /\ DOMAIN ask' = Asks /\ (\A b \in Asks : AskTyped(ask'[b])) /\ ask' = [b \in Asks |-> ask'[b]]
         /\ asked' = asked + 1 /\ asked' \in 0 .. MaxAsks
<1>1. asked' = asked + 1 /\ asked' \in 1 .. MaxAsks
  BY AssistantAssumption DEF Typed, Called
<1> DEFINE r == [pc |-> "called", kind |-> kind, thread |-> t, n |-> asked']
<1>2. AskTyped(r)
  BY <1>1 DEF AskTyped, CalledAsks, PreparedAsks
<1>3. QED
  BY <1>1, <1>2 DEF Typed, Called

LEMMA StepTyped == ASSUME Typed, [Next]_vars PROVE Typed'
<1> USE DEF renderer, counts, history, overlaps
<1>1. CASE Commit
  BY <1>1, ChangesAreSettings, AssistantAssumption DEF Commit, Typed
<1>2. CASE CommitLoad
  BY <1>2, RevokedKeepsOrForgets DEF CommitLoad, Typed, NoCommit
<1>3. CASE CommitSave \/ CommitFails \/ CommitReset \/ CommitReturns
  BY <1>3 DEF CommitSave, CommitFails, CommitReset, CommitReturns, Typed, NoCommit
<1>4. CASE Render \/ Cancel \/ Approve
  BY <1>4, BoundaryTyped DEF Render, Cancel, Approve, Typed, NoPreview
<1>5. CASE MarkLoad
  <2>1. mark \in [pc: {"called"}, for: Kinds \X Threads]
    BY <1>5 DEF MarkLoad, Typed, NoMark
  <2>2. [disk EXCEPT !.reviewed = TRUE] \in Settings
    BY DEF Typed, Settings
  <2> QED
    BY <1>5, <2>1, <2>2 DEF MarkLoad, Typed
<1>6. CASE MarkSave \/ MarkFails
  BY <1>6 DEF MarkSave, MarkFails, Typed, NoMark
<1>7. ASSUME NEW a \in Asks, MarkReturns(a) PROVE Typed'
  <2>1. mark.for \in Kinds \X Threads
    BY <1>7 DEF MarkReturns, Typed, NoMark
  <2> QED
    BY <1>7, <2>1, CallTyped DEF MarkReturns, Typed
<1>8. ASSUME NEW a \in Asks, TestConnection(a) PROVE Typed'
  BY <1>8, CallTyped DEF TestConnection, Typed, Kinds
<1>9. ASSUME NEW a \in Asks, AskStep(a) PROVE Typed'
  BY <1>9, AskMovesOn DEF Typed
<1>10. ASSUME NEW a \in Asks, NEW t \in Threads, NEW kind \in Kinds, Submit(a, kind, t) PROVE Typed'
  <2>1. CASE Called(a, kind, t)
    BY <1>10, <2>1, CallTyped DEF Submit, Typed
  <2>2. CASE preview' = [for |-> <<kind, t>>, shown |-> None] /\ UNCHANGED <<asked, ask>>
    BY <1>10, <2>2 DEF Submit, Typed
  <2> QED
    BY <1>10, <2>1, <2>2 DEF Submit
<1>11. ASSUME NEW t \in Threads, StartNew(t) \/ ResetChat(t) PROVE Typed'
  BY <1>11 DEF StartNew, ResetChat, Typed
<1>12. ASSUME NEW t \in Threads, NEW u \in Threads, Delete(t, u) PROVE Typed'
  BY <1>12 DEF Delete, Typed
<1>13. CASE Quit
  BY <1>13 DEF Quit, Typed, AskTyped
<1>14. CASE UNCHANGED vars
  BY <1>14 DEF vars, Typed
<1>15. QED
  BY <1>1, <1>2, <1>3, <1>4, <1>5, <1>6, <1>7, <1>8, <1>9, <1>10, <1>11, <1>12, <1>13, <1>14 DEF Next

LEMMA StepHistoryTyped == ASSUME Typed, HistoryTyped, [Next]_vars PROVE HistoryTyped'
<1> USE DEF renderer, counts, history, overlaps, HistoryTyped
<1>0. \A a \in Active : ask[a].n \in 1 .. MaxAsks
  BY DEF Typed, Active, AskTyped, CalledAsks, ClearedAsks, PreparedAsks
<1>1. ASSUME NEW a \in Asks, NEW kind, NEW t, Called(a, kind, t), UNCHANGED <<audit, due>>,
             raced' \in BOOLEAN
      PROVE  HistoryTyped'
  <2>1. asked' \in 1 .. MaxAsks
    BY <1>1, AssistantAssumption DEF Called, Typed
  <2>2. ChatsIn(t) \subseteq 1 .. MaxAsks
    BY <1>0 DEF ChatsIn
  <2>3. overtaken' \subseteq overtaken \cup {asked'} /\ crowded' \subseteq crowded \cup ChatsIn(t) \cup {asked'}
    BY <1>1 DEF Called
  <2> QED
    BY <1>1, <2>1, <2>2, <2>3
<1>2. ASSUME UNCHANGED <<overtaken, crowded>>, audit' = audit, due' \subseteq due, raced' \in BOOLEAN
      PROVE  HistoryTyped'
  BY <1>2
<1>3. CASE CommitSave
  <2>1. overtaken' = overtaken \cup {ask[a].n : a \in Active} /\ UNCHANGED <<audit, due, crowded>>
        /\ raced' \in BOOLEAN
    BY <1>3 DEF CommitSave
  <2> QED
    BY <1>0, <2>1
<1>4. ASSUME NEW a \in Asks, AskStep(a) PROVE HistoryTyped'
  <2>1. a \in Active
    BY <1>4 DEF AskStep, LoadCfg, Prepare, PrepareFails, Send, SendFails, FinalText, WantsTools, Answered,
      RunTools, Finish, Active, NoAsk
  <2>2. UNCHANGED overlaps /\ audit' \cup due' \subseteq audit \cup due \cup {Request(a), <<ask[a].n, "blocked">>}
    BY <1>4 DEF AskStep, LoadCfg, Prepare, PrepareFails, Send, SendFails, FinalText, WantsTools, Answered,
      RunTools, Finish, Append
  <2>3. Request(a)[1] = ask[a].n /\ <<ask[a].n, "blocked">>[1] = ask[a].n
    BY DEF Request
  <2> QED
    BY <1>0, <2>1, <2>2, <2>3
<1>5. CASE Quit
  BY <1>2, <1>5 DEF Quit
<1>6. ASSUME NEW a \in Asks, NEW t \in Threads, NEW kind \in Kinds, Submit(a, kind, t) PROVE HistoryTyped'
  BY <1>1, <1>2, <1>6 DEF Submit
<1>7. CASE Commit
  BY <1>2, <1>7 DEF Commit
<1>8. QED
  BY <1>1, <1>2, <1>3, <1>4, <1>5, <1>6, <1>7
  DEF Next, vars, CommitLoad, CommitFails, CommitReset, CommitReturns, Render, Cancel, Approve, MarkLoad,
      MarkSave, MarkFails, MarkReturns, TestConnection, StartNew, ResetChat, Delete

LEMMA InitTyped == Init => Typed /\ HistoryTyped
<1>1. Init => Typed
  BY AssistantAssumption DEF Init, Typed, AskTyped, Settings, Scopes
<1>2. Init => HistoryTyped
  BY DEF Init, HistoryTyped
<1>3. QED
  BY <1>1, <1>2

LEMMA AskIsLike == ASSUME NEW r, AskTyped(r) PROVE AskLike(r)
<1>1. CASE r \in PreparedAsks
  BY <1>1, ScopesAre, AssistantAssumption
  DEF AskTyped, PreparedAsks, CalledAsks, ClearedAsks, AskLike, NoAsk, Settings
<1>2. QED
  BY <1>1 DEF AskTyped, CalledAsks, ClearedAsks, AskLike, AskRecords

(* Every variable of the assistant keeps its type, for every user: no ask    *)
(* goes beyond its budget of tool rounds or holds values above the level of  *)
(* the settings it loaded.                                                   *)
THEOREM AssistantTypeCorrect == Spec => []TypeOK
<1>1. Typed /\ HistoryTyped /\ [Next]_vars => (Typed /\ HistoryTyped)'
  BY StepTyped, StepHistoryTyped
<1>2. Typed /\ HistoryTyped => TypeOK
  <2>1. Typed => preview.for \in {None} \cup (Kinds \X Threads) /\ preview.shown \in {None} \cup (Places \X Scopes)
    BY DEF Typed, NoPreview
  <2>2. Typed => \A t \in Threads : \A turn \in chats[t] : turn \in Turn
    BY DEF Typed
  <2> QED
    BY <2>1, <2>2, AskIsLike DEF Typed, HistoryTyped, TypeOK
<1>3. QED
  BY <1>1, <1>2, InitTyped, PTL DEF Spec
==============================================================================
