---------------------------- MODULE TaskOS_proofs ----------------------------
(***************************************************************************)
(* Proofs about TaskOS, for every set of tasks and handlers.  The lemmas   *)
(* on copies come first; then every action is shown to be a sound step of  *)
(* the rows and of the frames, from which the inductive invariant IndInv   *)
(* and the action property TerminalNeverReopened follow.                   *)
(***************************************************************************)
EXTENDS TaskOS, TLAPS

-----------------------------------------------------------------------------
(* Copies.                                                                 *)

\* A copy whose status was advanced is in use whatever its approval was:
\* resolveApprovalStatus sets the approval the new status calls for.
LEMMA AdvanceInUse ==
    ASSUME NEW copy \in CopiesInUse, NEW s \in FlowStatuses
    PROVE  advanceState(copy, s) \in CopiesInUse /\ advanceState(copy, s).status = s
<1>1. copy \in Copies /\ copy.approval \in ApprovalStatuses
  BY DEF CopiesInUse, Copies
<1>2. s \in Statuses
  BY DEF FlowStatuses, Statuses
<1>3. resolveApprovalStatus(copy, s) \in ApprovalStatuses
  BY <1>1 DEF resolveApprovalStatus, ApprovalStatuses
<1>4. /\ s = "waiting_approval" => resolveApprovalStatus(copy, s) = "pending"
      /\ s = "approved" => resolveApprovalStatus(copy, s) = "approved"
      /\ s = "rejected" => resolveApprovalStatus(copy, s) = "rejected"
  BY DEF resolveApprovalStatus
<1>5. /\ advanceState(copy, s) \in Copies
      /\ advanceState(copy, s).status = s
      /\ advanceState(copy, s).approval = resolveApprovalStatus(copy, s)
  BY <1>1, <1>2, <1>3 DEF advanceState, Copies
<1> QED BY <1>4, <1>5 DEF CopiesInUse, Consistent

\* Giving a copy a result, a session or another lock leaves it in use.
LEMMA AmendInUse ==
    ASSUME NEW copy \in CopiesInUse, NEW b \in BOOLEAN,
           NEW l \in {"free", "held"}
    PROVE  /\ [copy EXCEPT !.result = b] \in CopiesInUse
           /\ [copy EXCEPT !.session = b] \in CopiesInUse
           /\ [copy EXCEPT !.lock = l] \in CopiesInUse
           /\ [copy EXCEPT !.lock = l].status = copy.status
BY DEF CopiesInUse, Copies, Consistent

\* The copy a task is created with is in use.
LEMMA PendingInUse == Pending \in CopiesInUse
BY DEF Pending, CopiesInUse, Copies, Statuses, ApprovalStatuses, FlowStatuses, Consistent

\* The row after a save is in use, and a terminal row stays terminal: the
\* merge keeps it against every copy that is not terminal itself.
LEMMA SavedInUse ==
    ASSUME NEW old \in CopiesInUse \cup {NoRow}, NEW copy \in CopiesInUse
    PROVE  /\ Saved(old, copy) \in CopiesInUse
           /\ old \in CopiesInUse /\ old.status \in Terminal
                 => Saved(old, copy).status \in Terminal
<1>1. CASE old = NoRow
  <2>1. NoRow \notin CopiesInUse
    BY StoreAssumption DEF CopiesInUse
  <2> QED BY <1>1, <2>1 DEF Saved
<1>2. CASE old # NoRow
  <2>1. old \in CopiesInUse /\ Saved(old, copy) = mergeTaskForPersistence(old, copy)
    BY <1>2 DEF Saved
  <2>2. CASE shouldPreservePersistedStatus(old.status, copy.status)
    <3>1. /\ Saved(old, copy).status = old.status
          /\ Saved(old, copy).approval = old.approval
          /\ Saved(old, copy) \in Copies
      BY <2>1, <2>2 DEF mergeTaskForPersistence, CopiesInUse, Copies
    <3> QED BY <2>1, <3>1 DEF CopiesInUse, Consistent
  <2>3. CASE ~shouldPreservePersistedStatus(old.status, copy.status)
    <3>1. Saved(old, copy) = copy
      BY <2>1, <2>3 DEF mergeTaskForPersistence
    <3>2. ASSUME old.status \in Terminal PROVE copy.status \in Terminal
      <4>1. copy.status \in FlowStatuses
        BY DEF CopiesInUse
      <4>2. \/ copy.status = old.status
            \/ copy.status \in TRANSITIONS(old.status)
            \/ copy.status \in Terminal
        BY <2>3, <3>2 DEF shouldPreservePersistedStatus, canTransition
      <4>3. TRANSITIONS(old.status) \subseteq {"rollback_pending"}
        BY <3>2 DEF TRANSITIONS, Terminal
      <4> QED BY <3>2, <4>1, <4>2, <4>3 DEF FlowStatuses
    <3> QED BY <3>1, <3>2
  <2> QED BY <2>2, <2>3
<1> QED BY <1>1, <1>2

-----------------------------------------------------------------------------
(* Rows.                                                                   *)

\* What every step does to the rows: they stay copies in use, none vanishes,
\* and a terminal one stays terminal.
RowStep ==
    /\ row' \in [Tasks -> Copies \cup {NoRow}]
    /\ \A t \in Tasks :
          /\ row'[t] # NoRow => row'[t] \in CopiesInUse
          /\ Exists(t) => row'[t] # NoRow
          /\ HasStatus(t, Terminal) => row'[t].status \in Terminal

\* A copy in use is a copy, so it is no missing row.
LEMMA InUseExists == \A copy \in CopiesInUse : copy # NoRow /\ copy \in Copies
BY StoreAssumption DEF CopiesInUse

\* Writing x over the row of one task.
LEMMA WriteRow ==
    ASSUME IndInv, NEW t \in Tasks, NEW x \in CopiesInUse,
           row' = [row EXCEPT ![t] = x],
           HasStatus(t, Terminal) => x.status \in Terminal
    PROVE  RowStep /\ row'[t] # NoRow
<1>1. row' \in [Tasks -> Copies \cup {NoRow}]
  BY InUseExists DEF IndInv, TypeOK
<1>2. row'[t] = x /\ \A u \in Tasks : u # t => row'[u] = row[u]
  BY DEF IndInv, TypeOK
<1>3. \A u \in Tasks : Exists(u) => row[u] \in CopiesInUse
  BY DEF IndInv, CopiesAreSound
<1> QED BY <1>1, <1>2, <1>3, InUseExists DEF RowStep, Exists, HasStatus

\* A row is missing or a copy in use.
LEMMA RowInUse ==
    ASSUME IndInv, NEW t \in Tasks
    PROVE  row[t] \in CopiesInUse \cup {NoRow}
BY DEF IndInv, CopiesAreSound, Exists

\* One write of a copy in use is a sound step of the rows.
LEMMA SaveRow ==
    ASSUME IndInv, NEW t \in Tasks, NEW copy \in CopiesInUse, Save(t, copy)
    PROVE  RowStep /\ row'[t] # NoRow
<1> DEFINE x == Saved(row[t], copy)
<1>1. row' = [row EXCEPT ![t] = x]
  BY DEF Save, IndInv, TypeOK
<1>2. x \in CopiesInUse /\ (HasStatus(t, Terminal) => x.status \in Terminal)
  BY RowInUse, SavedInUse DEF HasStatus, Exists
<1> HIDE DEF x
<1> QED BY <1>1, <1>2, WriteRow

\* Two writes in one segment are one sound step of the rows.
LEMMA SaveTwiceRow ==
    ASSUME IndInv, NEW t \in Tasks, NEW first \in CopiesInUse,
           NEW second \in CopiesInUse, SaveTwice(t, first, second)
    PROVE  RowStep /\ row'[t] # NoRow
<1> DEFINE x == Saved(row[t], first)
           y == Saved(x, second)
<1>1. row' = [row EXCEPT ![t] = y]
  BY DEF SaveTwice, IndInv, TypeOK
<1>2. x \in CopiesInUse /\ (HasStatus(t, Terminal) => x.status \in Terminal)
  BY RowInUse, SavedInUse DEF HasStatus, Exists
<1> HIDE DEF x
<1>3. y \in CopiesInUse /\ (x.status \in Terminal => y.status \in Terminal)
  BY <1>2, SavedInUse
<1> HIDE DEF y
<1> QED BY <1>1, <1>2, <1>3, WriteRow

\* A step that writes no row is a sound step of the rows.
LEMMA SameRow ==
    ASSUME IndInv, row' = row
    PROVE  RowStep
BY DEF IndInv, TypeOK, CopiesAreSound, RowStep, Exists, HasStatus

\* The catch of handleApproval is a sound step of the rows.
LEMMA FailIfRunningRow ==
    ASSUME IndInv, NEW t \in Tasks, FailIfRunning(t)
    PROVE  RowStep
<1>1. CASE HasStatus(t, {"running"})
  <2> DEFINE copy == advanceState(row[t], "failed")
  <2>1. row[t] \in CopiesInUse
    BY <1>1, RowInUse DEF HasStatus, Exists
  <2>2. copy \in CopiesInUse
    BY <2>1, AdvanceInUse DEF FlowStatuses
  <2>3. Save(t, copy)
    BY <1>1 DEF FailIfRunning, Save
  <2> HIDE DEF copy
  <2> QED BY <2>2, <2>3, SaveRow
<1>2. CASE ~HasStatus(t, {"running"})
  BY <1>2, SameRow DEF FailIfRunning
<1> QED BY <1>1, <1>2

\* The copy a catch fails is in use.
LEMMA FailedInUse ==
    ASSUME NEW copy \in CopiesInUse
    PROVE  Failed(copy) \in CopiesInUse
<1>1. advanceState(copy, "failed") \in CopiesInUse
  BY AdvanceInUse DEF FlowStatuses
<1> QED BY <1>1 DEF Failed

\* The catch of executeImmediate and handleTaskMessage is one too.
LEMMA FailCopyRow ==
    ASSUME IndInv, NEW t \in Tasks, NEW copy \in CopiesInUse, FailCopy(t, copy)
    PROVE  RowStep
BY FailedInUse, SaveRow DEF FailCopy

-----------------------------------------------------------------------------
(* Frames.                                                                 *)

\* A handler or worker works on an existing task with a copy in use.
FrameOK(f) == /\ f.mem \in CopiesInUse
              /\ f.pc # "idle" => f.task \in Tasks /\ Exists(f.task)

FramesStep ==
    /\ chat' \in [Handlers -> Frames] /\ \A h \in Handlers : FrameOK(chat[h])'
    /\ research' \in ResearchFrames /\ FrameOK(research)'
    /\ jules' \in JulesFrames /\ FrameOK(jules)'

\* What the invariant says of every frame.
LEMMA FramesNow ==
    ASSUME IndInv
    PROVE  /\ \A h \in Handlers : chat[h] \in Frames /\ FrameOK(chat[h])
           /\ research \in ResearchFrames /\ FrameOK(research)
           /\ jules \in JulesFrames /\ FrameOK(jules)
BY DEF IndInv, TypeOK, CopiesAreSound, FrameOK

\* The handlers of a step of somebody else keep their tasks.
LEMMA SameChat ==
    ASSUME IndInv, RowStep, chat' = chat
    PROVE  chat' \in [Handlers -> Frames] /\ \A h \in Handlers : FrameOK(chat[h])'
<1>1. chat' \in [Handlers -> Frames]
  BY DEF IndInv, TypeOK
<1>2. \A t \in Tasks : Exists(t) => row'[t] # NoRow
  BY DEF RowStep
<1> QED BY <1>1, <1>2, FramesNow DEF FrameOK, Exists

\* The research worker keeps its task in a step of somebody else.
LEMMA SameResearch ==
    ASSUME IndInv, RowStep, research' = research
    PROVE  research' \in ResearchFrames /\ FrameOK(research)'
<1>1. \A t \in Tasks : Exists(t) => row'[t] # NoRow
  BY DEF RowStep
<1> QED BY <1>1, FramesNow DEF FrameOK, Exists

\* The jules worker keeps its task in a step of somebody else.
LEMMA SameJules ==
    ASSUME IndInv, RowStep, jules' = jules
    PROVE  jules' \in JulesFrames /\ FrameOK(jules)'
<1>1. \A t \in Tasks : Exists(t) => row'[t] # NoRow
  BY DEF RowStep
<1> QED BY <1>1, FramesNow DEF FrameOK, Exists

\* A handler takes up a frame f.
LEMMA SetChat ==
    ASSUME IndInv, RowStep, NEW h \in Handlers, NEW f \in Frames,
           f.mem \in CopiesInUse,
           f.pc # "idle" => f.task \in Tasks /\ row'[f.task] # NoRow,
           chat' = [chat EXCEPT ![h] = f]
    PROVE  chat' \in [Handlers -> Frames] /\ \A g \in Handlers : FrameOK(chat[g])'
<1>1. chat' \in [Handlers -> Frames]
  BY DEF IndInv, TypeOK
<1>2. chat'[h] = f /\ \A g \in Handlers : g # h => chat'[g] = chat[g]
  BY DEF IndInv, TypeOK
<1>3. \A t \in Tasks : Exists(t) => row'[t] # NoRow
  BY DEF RowStep
<1> QED BY <1>1, <1>2, <1>3, FramesNow DEF FrameOK, Exists

\* A handler ends.
LEMMA FinishChat ==
    ASSUME IndInv, RowStep, NEW h \in Handlers, Finish(h)
    PROVE  chat' \in [Handlers -> Frames] /\ \A g \in Handlers : FrameOK(chat[g])'
<1>1. IdleFrame \in Frames /\ IdleFrame.mem \in CopiesInUse /\ IdleFrame.pc = "idle"
  BY PendingInUse, InUseExists DEF IdleFrame, Frames, ChatPC
<1> QED BY <1>1, SetChat DEF Finish

\* A handler goes on to another await with a copy in use.
LEMMA GotoChat ==
    ASSUME IndInv, RowStep, NEW h \in Handlers, chat[h].pc # "idle",
           NEW pc \in ChatPC, NEW copy \in CopiesInUse, Goto(h, pc, copy)
    PROVE  chat' \in [Handlers -> Frames] /\ \A g \in Handlers : FrameOK(chat[g])'
<1> DEFINE f == [chat[h] EXCEPT !.pc = pc, !.mem = copy]
<1>1. chat[h] \in Frames /\ chat[h].task \in Tasks /\ Exists(chat[h].task)
  BY FramesNow DEF FrameOK, Exists
<1>2. f \in Frames /\ f.mem = copy /\ f.task = chat[h].task
  BY <1>1, InUseExists DEF Frames
<1>3. row'[f.task] # NoRow
  BY <1>1, <1>2 DEF RowStep, Exists
<1>4. chat' = [chat EXCEPT ![h] = f]
  BY <1>1 DEF Goto, Frames, IndInv, TypeOK
<1> HIDE DEF f
<1> QED BY <1>1, <1>2, <1>3, <1>4, SetChat

\* The research worker goes on to another await.
LEMMA SetResearch ==
    ASSUME NEW pc \in ResearchPC, NEW t \in Tasks, NEW copy \in CopiesInUse,
           row'[t] # NoRow, ResearchGoto(pc, t, copy)
    PROVE  research' \in ResearchFrames /\ FrameOK(research)'
BY InUseExists DEF ResearchGoto, ResearchFrames, FrameOK, Exists

\* The research worker ends its tick.
LEMMA EndResearch ==
    ASSUME ResearchEnds
    PROVE  research' \in ResearchFrames /\ FrameOK(research)'
BY PendingInUse, InUseExists
   DEF ResearchEnds, IdleResearch, ResearchFrames, ResearchPC, FrameOK

\* The jules worker goes on to another await.
LEMMA SetJules ==
    ASSUME NEW pc \in JulesPC, NEW t \in Tasks, NEW copy \in CopiesInUse,
           row'[t] # NoRow, JulesGoto(pc, t, copy)
    PROVE  jules' \in JulesFrames /\ FrameOK(jules)'
BY InUseExists DEF JulesGoto, JulesFrames, FrameOK, Exists

\* The jules worker ends its tick.
LEMMA EndJules ==
    ASSUME JulesEnds
    PROVE  jules' \in JulesFrames /\ FrameOK(jules)'
BY PendingInUse, InUseExists
   DEF JulesEnds, IdleJules, JulesFrames, JulesPC, FrameOK

-----------------------------------------------------------------------------
(* Steps.                                                                  *)

\* What every step of the system keeps.
SoundStep == /\ RowStep /\ FramesStep
             /\ up' \in BOOLEAN /\ log' \in [Tasks -> Logs]
             /\ crashes' \in 0..MaxCrashes

\* Writing one entry keeps the log well formed.
LEMMA LogStep ==
    ASSUME IndInv, NEW t \in Tasks, NEW entry \in Logs, Log(t, entry)
    PROVE  log' \in [Tasks -> Logs]
BY DEF IndInv, TypeOK, Log

\* The entries that the actions write are entries.
LEMMA LogEntries ==
    ASSUME IndInv, NEW t \in Tasks
    PROVE  /\ [log[t] EXCEPT !.held = TRUE] \in Logs
           /\ [log[t] EXCEPT !.rejected = TRUE] \in Logs
           /\ [log[t] EXCEPT !.told = TRUE] \in Logs
           /\ [log[t] EXCEPT !.approvals = @ + 1] \in Logs
           /\ [log[t] EXCEPT !.launches = @ + 1] \in Logs
           /\ [log[t] EXCEPT !.faults = @ + 1] \in Logs
           /\ [log[t] EXCEPT !.sent = @ + 1, !.told = TRUE] \in Logs
<1>1. log[t] \in Logs
  BY DEF IndInv, TypeOK
<1>2. ASSUME NEW e \in Logs
      PROVE  /\ [e EXCEPT !.held = TRUE] \in Logs
             /\ [e EXCEPT !.rejected = TRUE] \in Logs
             /\ [e EXCEPT !.told = TRUE] \in Logs
  BY DEF Logs
<1>3. ASSUME NEW e \in Logs PROVE [e EXCEPT !.approvals = @ + 1] \in Logs
  BY DEF Logs
<1>4. ASSUME NEW e \in Logs PROVE [e EXCEPT !.launches = @ + 1] \in Logs
  BY DEF Logs
<1>5. ASSUME NEW e \in Logs PROVE [e EXCEPT !.faults = @ + 1] \in Logs
  BY DEF Logs
<1>6. ASSUME NEW e \in Logs PROVE [e EXCEPT !.sent = @ + 1, !.told = TRUE] \in Logs
  <2>1. [e EXCEPT !.sent = @ + 1] \in Logs
    BY DEF Logs
  <2>2. [e EXCEPT !.sent = @ + 1, !.told = TRUE]
           = [[e EXCEPT !.sent = @ + 1] EXCEPT !.told = TRUE]
    BY DEF Logs
  <2> QED BY <1>2, <2>1, <2>2
<1> QED BY <1>1, <1>2, <1>3, <1>4, <1>5, <1>6

\* A failed send keeps the log well formed.
LEMMA SendFailedStep ==
    ASSUME IndInv, NEW t \in Tasks, SendFailed(t)
    PROVE  log' \in [Tasks -> Logs]
BY LogStep, LogEntries DEF SendFailed

\* A handler that is not idle has a task, and a copy of it.
LEMMA Busy ==
    ASSUME IndInv, NEW h \in Handlers, chat[h].pc # "idle"
    PROVE  chat[h].task \in Tasks /\ chat[h].mem \in CopiesInUse /\ chat[h] \in Frames
BY FramesNow DEF FrameOK

\* A worker that is not idle has a task, and a copy of it.
LEMMA BusyWorkers ==
    ASSUME IndInv
    PROVE  /\ research.mem \in CopiesInUse /\ jules.mem \in CopiesInUse
           /\ research.pc # "idle" => research.task \in Tasks
           /\ jules.pc # "idle" => jules.task \in Tasks
BY FramesNow DEF FrameOK

\* The row of a task with one of some statuses is a copy in use.
LEMMA RowOf ==
    ASSUME IndInv, NEW t \in Tasks, NEW S, HasStatus(t, S)
    PROVE  row[t] \in CopiesInUse /\ Claimed(t) \in CopiesInUse
<1>1. row[t] \in CopiesInUse
  BY RowInUse DEF HasStatus, Exists
<1> QED BY <1>1, AmendInUse DEF Claimed

\* Unlocking a copy leaves it in use.
LEMMA UnlockInUse ==
    ASSUME NEW copy \in CopiesInUse
    PROVE  Unlock(copy) \in CopiesInUse
BY AmendInUse DEF Unlock

\* The copy of a task that has just been parsed.
LEMMA ParsedInUse ==
    /\ advanceState(Pending, "parsed") \in CopiesInUse
    /\ Saved(Pending, advanceState(Pending, "parsed")) \in CopiesInUse
<1>1. advanceState(Pending, "parsed") \in CopiesInUse
  BY PendingInUse, AdvanceInUse DEF FlowStatuses
<1> QED BY <1>1, PendingInUse, SavedInUse

\* The copy an execution settles is in use, whatever the outcome.
LEMMA SettledInUse ==
    ASSUME NEW copy \in CopiesInUse, NEW outcome
    PROVE  /\ Stored(copy, outcome) \in CopiesInUse
           /\ Settled(Stored(copy, outcome), outcome) \in CopiesInUse
<1> DEFINE stored == Stored(copy, outcome)
<1>1. stored \in CopiesInUse
  BY AmendInUse DEF Stored
<1> HIDE DEF stored
<1>2. [stored EXCEPT !.session = TRUE] \in CopiesInUse
  BY <1>1, AmendInUse
<1>3. /\ advanceState([stored EXCEPT !.session = TRUE], "waiting_approval") \in CopiesInUse
      /\ advanceState([stored EXCEPT !.session = TRUE], "delivery_pending") \in CopiesInUse
      /\ advanceState(stored, "completed") \in CopiesInUse
      /\ advanceState(stored, "failed") \in CopiesInUse
  BY <1>1, <1>2, AdvanceInUse DEF FlowStatuses
<1>4. Settled(stored, outcome) \in CopiesInUse
  BY <1>3 DEF Settled
<1> QED BY <1>1, <1>4 DEF stored

\* The steps of the chat handlers.
LEMMA ChatSound ==
    ASSUME IndInv, ChatNext, UNCHANGED <<research, jules, crashes>>
    PROVE  SoundStep
<1> DEFINE Chat == chat' \in [Handlers -> Frames] /\ \A g \in Handlers : FrameOK(chat[g])'
           Rest == up' \in BOOLEAN /\ log' \in [Tasks -> Logs]
<1>0. ASSUME RowStep, Chat, Rest PROVE SoundStep
  <2>1. crashes' \in 0..MaxCrashes
    BY DEF IndInv, TypeOK
  <2> QED BY <1>0, <2>1, SameResearch, SameJules DEF SoundStep, FramesStep
<1>1. ASSUME UNCHANGED <<up, log>> PROVE Rest
  BY <1>1 DEF IndInv, TypeOK
<1>2. ASSUME NEW t \in Tasks, NEW entry \in Logs, UNCHANGED up, Log(t, entry) PROVE Rest
  BY <1>2, LogStep DEF IndInv, TypeOK
<1>3. ASSUME NEW h \in Handlers, NEW t \in Tasks, MessageArrives(h, t)
      PROVE  SoundStep
  <2> DEFINE copy == advanceState(Pending, "parsed")
             f == [pc |-> "preparing", via |-> "message", task |-> t, mem |-> copy]
  <2>1. copy \in CopiesInUse /\ Saved(Pending, copy) \in CopiesInUse
    BY ParsedInUse
  <2>2. RowStep /\ row'[t] # NoRow
    BY <1>3, <2>1, WriteRow DEF MessageArrives, HasStatus
  <2>3. f \in Frames
    BY <2>1, InUseExists DEF Frames, ChatPC
  <2>4. chat' = [chat EXCEPT ![h] = f] /\ UNCHANGED <<up, log>>
    BY <1>3 DEF MessageArrives
  <2>5. f.mem = copy /\ f.task = t
    OBVIOUS
  <2> HIDE DEF f
  <2>6. Chat
    BY <2>1, <2>2, <2>3, <2>4, <2>5, SetChat
  <2> QED BY <1>0, <1>1, <2>2, <2>4, <2>6
<1>4. ASSUME NEW h \in Handlers, NEW t \in Tasks, MessageBlocked(h, t)
      PROVE  SoundStep
  <2> DEFINE copy == advanceState(Pending, "parsed")
             x == Saved(Saved(Pending, copy), advanceState(copy, "failed"))
  <2>1. copy \in CopiesInUse /\ Saved(Pending, copy) \in CopiesInUse
    BY ParsedInUse
  <2>2. advanceState(copy, "failed") \in CopiesInUse
    BY <2>1, AdvanceInUse DEF FlowStatuses
  <2>3. x \in CopiesInUse
    BY <2>1, <2>2, SavedInUse
  <2>4. row' = [row EXCEPT ![t] = x] /\ ~HasStatus(t, Terminal)
    BY <1>4 DEF MessageBlocked, HasStatus
  <2> HIDE DEF x
  <2>5. RowStep
    BY <2>3, <2>4, WriteRow
  <2>6. chat' = chat /\ UNCHANGED <<up, log>>
    BY <1>4 DEF MessageBlocked
  <2> QED BY <1>0, <1>1, <2>5, <2>6, SameChat
<1>5. ASSUME NEW h \in Handlers, PrepareThrows(h) \/ PromptThrows(h)
      PROVE  SoundStep
  <2>1. /\ chat[h].pc # "idle" /\ FailCopy(chat[h].task, chat[h].mem)
        /\ Finish(h) /\ UNCHANGED <<up, log>>
    BY <1>5 DEF PrepareThrows, PromptThrows, At
  <2>2. RowStep
    BY <2>1, Busy, FailCopyRow
  <2> QED BY <1>0, <1>1, <2>1, <2>2, FinishChat
<1>6. ASSUME NEW h \in Handlers, HoldForApproval(h)
      PROVE  SoundStep
  <2> DEFINE t == chat[h].task
             copy == advanceState(chat[h].mem, "waiting_approval")
  <2>1. /\ chat[h].pc # "idle" /\ SaveTwice(t, chat[h].mem, copy)
        /\ Goto(h, "prompting", copy) /\ UNCHANGED up
        /\ Log(t, [log[t] EXCEPT !.held = TRUE])
    BY <1>6 DEF HoldForApproval, At
  <2>2. t \in Tasks /\ chat[h].mem \in CopiesInUse /\ copy \in CopiesInUse
    BY <2>1, Busy, AdvanceInUse DEF FlowStatuses
  <2> HIDE DEF t, copy
  <2>3. RowStep
    BY <2>1, <2>2, SaveTwiceRow
  <2>4. Chat
    BY <2>1, <2>2, <2>3, GotoChat DEF ChatPC
  <2>5. Rest
    BY <1>2, <2>1, <2>2, LogEntries
  <2> QED BY <1>0, <2>3, <2>4, <2>5
<1>7. ASSUME NEW h \in Handlers, LaunchNow(h)
      PROVE  SoundStep
  <2> DEFINE t == chat[h].task
             copy == advanceState(chat[h].mem, "running")
  <2>1. /\ chat[h].pc # "idle" /\ SaveTwice(t, chat[h].mem, copy)
        /\ Goto(h, "executing", copy) /\ UNCHANGED up
        /\ Log(t, [log[t] EXCEPT !.launches = @ + 1])
    BY <1>7 DEF LaunchNow, At
  <2>2. t \in Tasks /\ chat[h].mem \in CopiesInUse /\ copy \in CopiesInUse
    BY <2>1, Busy, AdvanceInUse DEF FlowStatuses
  <2> HIDE DEF t, copy
  <2>3. RowStep
    BY <2>1, <2>2, SaveTwiceRow
  <2>4. Chat
    BY <2>1, <2>2, <2>3, GotoChat DEF ChatPC
  <2>5. Rest
    BY <1>2, <2>1, <2>2, LogEntries
  <2> QED BY <1>0, <2>3, <2>4, <2>5
<1>8. ASSUME NEW h \in Handlers, PromptDone(h) \/ ReplyDone(h) \/ ApologyDone(h)
      PROVE  SoundStep
  <2>1. row' = row /\ Finish(h) /\ UNCHANGED <<up, log>>
    BY <1>8 DEF PromptDone, ReplyDone, ApologyDone
  <2> QED BY <1>0, <1>1, <2>1, SameRow, FinishChat
<1>9. ASSUME NEW h \in Handlers, NEW t \in Tasks, Approve(h, t)
      PROVE  SoundStep
  <2> DEFINE copy == advanceState(row[t], "approved")
             f == [pc |-> "notifying", via |-> "approval", task |-> t, mem |-> copy]
  <2>1. row[t] \in CopiesInUse
    BY <1>9, RowOf DEF Approve
  <2>2. copy \in CopiesInUse
    BY <2>1, AdvanceInUse DEF FlowStatuses
  <2>3. Save(t, copy) /\ UNCHANGED up /\ Log(t, [log[t] EXCEPT !.approvals = @ + 1])
    BY <1>9 DEF Approve
  <2>4. chat' = [chat EXCEPT ![h] = f]
    BY <1>9 DEF Approve
  <2> HIDE DEF copy
  <2>5. RowStep /\ row'[t] # NoRow
    BY <2>2, <2>3, SaveRow
  <2>6. f \in Frames /\ f.mem = copy /\ f.task = t
    BY <2>2, InUseExists DEF Frames, ChatPC
  <2> HIDE DEF f
  <2>7. Chat
    BY <2>2, <2>4, <2>5, <2>6, SetChat
  <2>8. Rest
    BY <1>2, <2>3, LogEntries
  <2> QED BY <1>0, <2>5, <2>7, <2>8
<1>10. ASSUME NEW h \in Handlers, NEW t \in Tasks, ApproveRefused(h, t)
       PROVE  SoundStep
  <2>1. FailIfRunning(t) /\ chat' = chat /\ UNCHANGED <<up, log>>
    BY <1>10 DEF ApproveRefused
  <2>2. RowStep
    BY <2>1, FailIfRunningRow
  <2> QED BY <1>0, <1>1, <2>1, <2>2, SameChat
<1>11. ASSUME NEW h \in Handlers, NEW t \in Tasks, Reject(h, t)
       PROVE  SoundStep
  <2> DEFINE copy == advanceState(row[t], "rejected")
  <2>1. row[t] \in CopiesInUse
    BY <1>11, RowOf DEF Reject
  <2>2. copy \in CopiesInUse
    BY <2>1, AdvanceInUse DEF FlowStatuses
  <2>3. /\ Save(t, copy) /\ UNCHANGED up /\ chat' = chat
        /\ Log(t, [log[t] EXCEPT !.rejected = TRUE])
    BY <1>11 DEF Reject
  <2> HIDE DEF copy
  <2>4. RowStep
    BY <2>2, <2>3, SaveRow
  <2>5. Rest
    BY <1>2, <2>3, LogEntries
  <2> QED BY <1>0, <2>3, <2>4, <2>5, SameChat
<1>12. ASSUME NEW h \in Handlers, ResumeApproved(h)
       PROVE  SoundStep
  <2> DEFINE t == chat[h].task
             copy == advanceState(chat[h].mem, "running")
  <2>1. /\ chat[h].pc # "idle" /\ Save(t, copy)
        /\ Goto(h, "executing", copy) /\ UNCHANGED up
        /\ Log(t, [log[t] EXCEPT !.launches = @ + 1])
    BY <1>12 DEF ResumeApproved, At
  <2>2. t \in Tasks /\ copy \in CopiesInUse
    BY <2>1, Busy, AdvanceInUse DEF FlowStatuses
  <2> HIDE DEF t, copy
  <2>3. RowStep
    BY <2>1, <2>2, SaveRow
  <2>4. Chat
    BY <2>1, <2>2, <2>3, GotoChat DEF ChatPC
  <2>5. Rest
    BY <1>2, <2>1, <2>2, LogEntries
  <2> QED BY <1>0, <2>3, <2>4, <2>5
<1>13. ASSUME NEW h \in Handlers, chat[h].pc # "idle", Caught(h),
              UNCHANGED <<up, log>>
       PROVE  SoundStep
  <2>1. CASE FailIfRunning(chat[h].task) /\ Finish(h)
    <3>1. RowStep
      BY <1>13, <2>1, Busy, FailIfRunningRow
    <3> QED BY <1>0, <1>1, <1>13, <2>1, <3>1, FinishChat
  <2>2. CASE /\ FailCopy(chat[h].task, chat[h].mem)
             /\ Goto(h, "apologising", Failed(chat[h].mem))
    <3>1. RowStep
      BY <1>13, <2>2, Busy, FailCopyRow
    <3>2. Chat
      BY <1>13, <2>2, <3>1, Busy, FailedInUse, GotoChat DEF ChatPC
    <3> QED BY <1>0, <1>1, <1>13, <3>1, <3>2
  <2> QED BY <1>13, <2>1, <2>2 DEF Caught
<1>14. ASSUME NEW h \in Handlers, NEW outcome, ExecutorReturns(h, outcome)
       PROVE  SoundStep
  <2> DEFINE t == chat[h].task
             stored == Stored(chat[h].mem, outcome)
             copy == Settled(stored, outcome)
  <2>1. /\ chat[h].pc # "idle" /\ UNCHANGED <<up, log>>
        /\ Save(t, copy) \/ SaveTwice(t, stored, copy)
        /\ Goto(h, "replying", copy)
    BY <1>14 DEF ExecutorReturns, At
  <2>2. t \in Tasks /\ stored \in CopiesInUse /\ copy \in CopiesInUse
    BY <2>1, Busy, SettledInUse
  <2> HIDE DEF t, stored, copy
  <2>3. RowStep
    BY <2>1, <2>2, SaveRow, SaveTwiceRow
  <2>4. Chat
    BY <2>1, <2>2, <2>3, GotoChat DEF ChatPC
  <2> QED BY <1>0, <1>1, <2>1, <2>3, <2>4
<1>15. ASSUME NEW h \in Handlers, ExecutorThrows(h) \/ ReplyThrows(h)
       PROVE  SoundStep
  BY <1>13, <1>15 DEF ExecutorThrows, ReplyThrows, At
<1>16. ASSUME NEW h \in Handlers, NotifyThrows(h)
       PROVE  SoundStep
  <2>1. /\ chat[h].pc # "idle" /\ Finish(h) /\ UNCHANGED <<up, log>>
        /\ FailIfRunning(chat[h].task)
    BY <1>16 DEF NotifyThrows, At
  <2>2. RowStep
    BY <2>1, Busy, FailIfRunningRow
  <2> QED BY <1>0, <1>1, <2>1, <2>2, FinishChat
<1>17. ASSUME NEW h \in Handlers, ApologyThrows(h)
       PROVE  SoundStep
  <2>1. /\ chat[h].pc # "idle" /\ Finish(h) /\ UNCHANGED <<up, log>>
        /\ Save(chat[h].task, chat[h].mem)
    BY <1>17 DEF ApologyThrows, At
  <2>2. RowStep
    BY <2>1, Busy, SaveRow
  <2> QED BY <1>0, <1>1, <2>1, <2>2, FinishChat
<1> QED BY <1>3, <1>4, <1>5, <1>6, <1>7, <1>8, <1>9, <1>10, <1>11, <1>12,
           <1>14, <1>15, <1>16, <1>17 DEF ChatNext

\* The steps of the research worker.
LEMMA ResearchSound ==
    ASSUME IndInv, ResearchNext, UNCHANGED <<chat, jules, crashes>>
    PROVE  SoundStep
<1> DEFINE Mine == research' \in ResearchFrames /\ FrameOK(research)'
           Rest == up' \in BOOLEAN /\ log' \in [Tasks -> Logs]
<1>0. ASSUME RowStep, Mine, Rest PROVE SoundStep
  <2>1. crashes' \in 0..MaxCrashes
    BY DEF IndInv, TypeOK
  <2> QED BY <1>0, <2>1, SameChat, SameJules DEF SoundStep, FramesStep
<1>1. ASSUME UNCHANGED <<up, log>> PROVE Rest
  BY <1>1 DEF IndInv, TypeOK
<1>2. ASSUME NEW t \in Tasks, NEW entry \in Logs, UNCHANGED up, Log(t, entry) PROVE Rest
  BY <1>2, LogStep DEF IndInv, TypeOK
<1>3. ASSUME NEW t \in Tasks, NEW first \in CopiesInUse, NEW second \in CopiesInUse,
             NEW pc \in ResearchPC, SaveTwice(t, first, second),
             ResearchGoto(pc, t, second), UNCHANGED <<up, log>>
      PROVE  SoundStep
  BY <1>0, <1>1, <1>3, SaveTwiceRow, SetResearch
<1>4. ASSUME NEW t \in Tasks, Enqueue(t) PROVE SoundStep
  <2>1. row' = [row EXCEPT ![t] = Pending] /\ ~HasStatus(t, Terminal)
    BY <1>4 DEF Enqueue, HasStatus
  <2>2. RowStep
    BY <2>1, PendingInUse, WriteRow
  <2>3. UNCHANGED <<up, log, research>>
    BY <1>4 DEF Enqueue
  <2> QED BY <1>0, <1>1, <2>2, <2>3, SameResearch
<1>5. ASSUME NEW t \in Tasks, ResearchStarts(t) PROVE SoundStep
  <2> DEFINE parsed == advanceState(Claimed(t), "parsed")
             copy == advanceState(parsed, "running")
             x == Saved(Saved(Claimed(t), parsed), copy)
  <2>1. HasStatus(t, {"pending"}) /\ Claimed(t) \in CopiesInUse
    BY <1>5, RowOf DEF ResearchStarts, Claimable
  <2>2. parsed \in CopiesInUse
    BY <2>1, AdvanceInUse DEF FlowStatuses
  <2>3. copy \in CopiesInUse
    BY <2>2, AdvanceInUse DEF FlowStatuses
  <2>4. x \in CopiesInUse
    BY <2>1, <2>2, <2>3, SavedInUse
  <2>5. /\ row' = [row EXCEPT ![t] = x] /\ UNCHANGED <<up, log>>
        /\ ResearchGoto("searching", t, copy)
    BY <1>5 DEF ResearchStarts
  <2>6. ~HasStatus(t, Terminal)
    BY <2>1 DEF HasStatus, Terminal
  <2> HIDE DEF x, copy
  <2>7. RowStep /\ row'[t] # NoRow
    BY <2>4, <2>5, <2>6, WriteRow
  <2> QED BY <1>0, <1>1, <2>3, <2>5, <2>7, SetResearch DEF ResearchPC
<1>6. ASSUME NEW t \in Tasks, ResearchRetries(t) PROVE SoundStep
  <2>1. /\ Claimed(t) \in CopiesInUse /\ Save(t, Claimed(t))
        /\ ResearchGoto("delivering", t, Claimed(t)) /\ UNCHANGED <<up, log>>
    BY <1>6, RowOf DEF ResearchRetries, Claimable
  <2> QED BY <1>0, <1>1, <2>1, SaveRow, SetResearch DEF ResearchPC
<1>7. ASSUME NEW t \in Tasks, ResearchRerunFails(t) PROVE SoundStep
  <2> DEFINE first == Unlock(Claimed(t))
             copy == advanceState(first, "failed")
  <2>1. /\ SaveTwice(t, first, copy) /\ ResearchGoto("reporting", t, copy)
        /\ UNCHANGED <<up, log>>
    BY <1>7 DEF ResearchRerunFails
  <2>2. Claimed(t) \in CopiesInUse
    BY <1>7, RowOf DEF ResearchRerunFails, Claimable
  <2>3. first \in CopiesInUse
    BY <2>2, UnlockInUse
  <2>4. copy \in CopiesInUse
    BY <2>3, AdvanceInUse DEF FlowStatuses
  <2> HIDE DEF first, copy
  <2> QED BY <1>3, <2>1, <2>3, <2>4 DEF ResearchPC
<1>8. ASSUME NEW found \in BOOLEAN, SearchDone(found) PROVE SoundStep
  <2> DEFINE t == research.task
             stored == [Unlock(research.mem) EXCEPT !.result = found]
             copy == advanceState(stored, "delivery_pending")
  <2>1. /\ SaveTwice(t, stored, copy) /\ ResearchGoto("delivering", t, copy)
        /\ UNCHANGED <<up, log>> /\ research.pc # "idle"
    BY <1>8 DEF SearchDone, ResearchAt
  <2>2. stored \in CopiesInUse
    BY BusyWorkers, UnlockInUse, AmendInUse
  <2>3. copy \in CopiesInUse /\ t \in Tasks
    BY <2>1, <2>2, BusyWorkers, AdvanceInUse DEF FlowStatuses
  <2> HIDE DEF t, stored, copy
  <2> QED BY <1>3, <2>1, <2>2, <2>3 DEF ResearchPC
<1>9. ASSUME SearchThrows PROVE SoundStep
  <2> DEFINE t == research.task
             first == Unlock(research.mem)
             copy == advanceState(first, "failed")
  <2>1. /\ SaveTwice(t, first, copy) /\ ResearchGoto("reporting", t, copy)
        /\ UNCHANGED <<up, log>> /\ research.pc # "idle"
    BY <1>9 DEF SearchThrows, ResearchAt
  <2>2. first \in CopiesInUse
    BY BusyWorkers, UnlockInUse
  <2>3. copy \in CopiesInUse /\ t \in Tasks
    BY <2>1, <2>2, BusyWorkers, AdvanceInUse DEF FlowStatuses
  <2> HIDE DEF t, first, copy
  <2> QED BY <1>3, <2>1, <2>2, <2>3 DEF ResearchPC
<1>10. ASSUME ResearchAccepted PROVE SoundStep
  <2> DEFINE t == research.task
             copy == research.mem
  <2>1. /\ research.pc # "idle" /\ ResearchGoto("accepted", t, copy)
        /\ row' = row /\ UNCHANGED up
        /\ Log(t, [log[t] EXCEPT !.sent = @ + 1, !.told = TRUE])
    BY <1>10 DEF ResearchAccepted, ResearchAt
  <2>2. t \in Tasks /\ copy \in CopiesInUse /\ row'[t] # NoRow
    BY <2>1, FramesNow DEF FrameOK, Exists
  <2> HIDE DEF t, copy
  <2>3. Rest
    BY <1>2, <2>1, <2>2, LogEntries
  <2> QED BY <1>0, <2>1, <2>2, <2>3, SameRow, SetResearch DEF ResearchPC
<1>11. ASSUME ResearchDelivered PROVE SoundStep
  <2> DEFINE t == research.task
             first == Unlock(research.mem)
             copy == advanceState(first, "completed")
  <2>1. /\ SaveTwice(t, first, copy) /\ ResearchEnds
        /\ UNCHANGED <<up, log>> /\ research.pc # "idle"
    BY <1>11 DEF ResearchDelivered, ResearchAt
  <2>2. first \in CopiesInUse
    BY BusyWorkers, UnlockInUse
  <2>3. copy \in CopiesInUse /\ t \in Tasks
    BY <2>1, <2>2, BusyWorkers, AdvanceInUse DEF FlowStatuses
  <2> HIDE DEF t, first, copy
  <2> QED BY <1>0, <1>1, <2>1, <2>2, <2>3, SaveTwiceRow, EndResearch
<1>12. ASSUME ResearchSendThrows PROVE SoundStep
  <2>1. /\ research.pc # "idle" /\ Save(research.task, research.mem)
        /\ SendFailed(research.task) /\ ResearchEnds /\ UNCHANGED up
    BY <1>12 DEF ResearchSendThrows, ResearchAt
  <2>2. Rest
    BY <2>1, BusyWorkers, SendFailedStep DEF IndInv, TypeOK
  <2> QED BY <1>0, <2>1, <2>2, BusyWorkers, SaveRow, EndResearch
<1>13. ASSUME ResearchReported PROVE SoundStep
  <2> DEFINE t == research.task
  <2>1. /\ research.pc # "idle" /\ ResearchEnds /\ row' = row /\ UNCHANGED up
        /\ Log(t, [log[t] EXCEPT !.told = TRUE]) \/ SendFailed(t)
    BY <1>13 DEF ResearchReported, ResearchAt
  <2>2. t \in Tasks
    BY <2>1, BusyWorkers
  <2> HIDE DEF t
  <2>3. Rest
    BY <1>2, <2>1, <2>2, LogEntries, SendFailedStep DEF IndInv, TypeOK
  <2> QED BY <1>0, <2>1, <2>3, SameRow, EndResearch
<1> QED BY <1>4, <1>5, <1>6, <1>7, <1>8, <1>9, <1>10, <1>11, <1>12, <1>13
        DEF ResearchNext

\* The steps of the jules worker.
LEMMA JulesSound ==
    ASSUME IndInv, JulesNext, UNCHANGED <<chat, research, crashes>>
    PROVE  SoundStep
<1> DEFINE Mine == jules' \in JulesFrames /\ FrameOK(jules)'
           Rest == up' \in BOOLEAN /\ log' \in [Tasks -> Logs]
<1>0. ASSUME RowStep, Mine, Rest PROVE SoundStep
  <2>1. crashes' \in 0..MaxCrashes
    BY DEF IndInv, TypeOK
  <2> QED BY <1>0, <2>1, SameChat, SameResearch DEF SoundStep, FramesStep
<1>1. ASSUME UNCHANGED <<up, log>> PROVE Rest
  BY <1>1 DEF IndInv, TypeOK
<1>2. ASSUME NEW t \in Tasks, NEW entry \in Logs, UNCHANGED up, Log(t, entry) PROVE Rest
  BY <1>2, LogStep DEF IndInv, TypeOK
<1>3. ASSUME NEW t \in Tasks, NEW first \in CopiesInUse, NEW second \in CopiesInUse,
             SaveTwice(t, first, second) \/ Save(t, first),
             UNCHANGED <<up, log>>,
             \/ JulesEnds
             \/ \E pc \in JulesPC : JulesGoto(pc, t, second)
      PROVE  SoundStep
  <2>1. RowStep /\ row'[t] # NoRow
    BY <1>3, SaveTwiceRow, SaveRow
  <2>2. Mine
    BY <1>3, <2>1, SetJules, EndJules
  <2> QED BY <1>0, <1>1, <1>3, <2>1, <2>2
<1>4. ASSUME NEW t \in Tasks, JulesRetries(t) \/ JulesPolls(t) PROVE SoundStep
  <2>1. /\ Claimed(t) \in CopiesInUse /\ Save(t, Claimed(t))
        /\ \E pc \in JulesPC : JulesGoto(pc, t, Claimed(t))
        /\ UNCHANGED <<up, log>>
    BY <1>4, RowOf DEF JulesRetries, JulesPolls, JulesClaimable, Claimable, JulesPC
  <2> QED BY <1>3, <2>1
<1>5. ASSUME NEW t \in Tasks, JulesUntracked(t) PROVE SoundStep
  <2> DEFINE first == Unlock(Claimed(t))
             copy == advanceState(first, "failed")
  <2>1. /\ SaveTwice(t, first, copy) /\ JulesGoto("reporting", t, copy)
        /\ UNCHANGED <<up, log>>
    BY <1>5 DEF JulesUntracked
  <2>2. Claimed(t) \in CopiesInUse
    BY <1>5, RowOf DEF JulesUntracked, JulesClaimable, Claimable
  <2>3. first \in CopiesInUse
    BY <2>2, UnlockInUse
  <2>4. copy \in CopiesInUse
    BY <2>3, AdvanceInUse DEF FlowStatuses
  <2> HIDE DEF first, copy
  <2> QED BY <1>3, <2>1, <2>3, <2>4 DEF JulesPC
<1>6. Unlocked \in CopiesInUse
  BY BusyWorkers, UnlockInUse DEF Unlocked
<1>7. ASSUME SessionCompleted PROVE SoundStep
  <2> DEFINE t == jules.task
             done == [Unlocked EXCEPT !.result = TRUE]
             running == IF done.status = "waiting_approval"
                        THEN advanceState(done, "running") ELSE done
             copy == advanceState(running, "delivery_pending")
  <2>1. /\ jules.pc # "idle" /\ SaveTwice(t, running, copy)
        /\ JulesGoto("delivering", t, copy) /\ UNCHANGED <<up, log>>
    BY <1>7 DEF SessionCompleted, JulesAt
  <2>2. done \in CopiesInUse
    BY <1>6, AmendInUse
  <2>3. running \in CopiesInUse
    BY <2>2, AdvanceInUse DEF FlowStatuses
  <2>4. copy \in CopiesInUse /\ t \in Tasks
    BY <2>1, <2>3, BusyWorkers, AdvanceInUse DEF FlowStatuses
  <2> HIDE DEF t, running, copy
  <2> QED BY <1>3, <2>1, <2>3, <2>4 DEF JulesPC
<1>8. ASSUME SessionFailed PROVE SoundStep
  <2> DEFINE t == jules.task
             copy == advanceState(Unlocked, "failed")
  <2>1. /\ jules.pc # "idle" /\ SaveTwice(t, Unlocked, copy)
        /\ JulesGoto("reporting", t, copy) /\ UNCHANGED <<up, log>>
    BY <1>8 DEF SessionFailed, JulesAt
  <2>2. copy \in CopiesInUse /\ t \in Tasks
    BY <1>6, <2>1, BusyWorkers, AdvanceInUse DEF FlowStatuses
  <2> HIDE DEF t, copy
  <2> QED BY <1>3, <1>6, <2>1, <2>2 DEF JulesPC
<1>9. ASSUME SessionInReview \/ SessionWorks PROVE SoundStep
  <2> DEFINE t == jules.task
  <2>1. /\ jules.pc # "idle" /\ JulesEnds /\ UNCHANGED <<up, log>>
        /\ \/ SaveTwice(t, Unlocked, advanceState(Unlocked, "waiting_approval"))
           \/ SaveTwice(t, Unlocked, advanceState(Unlocked, "running"))
           \/ Save(t, Unlocked)
    BY <1>9 DEF SessionInReview, SessionWorks, JulesAt
  <2>2. /\ advanceState(Unlocked, "waiting_approval") \in CopiesInUse
        /\ advanceState(Unlocked, "running") \in CopiesInUse
        /\ t \in Tasks
    BY <1>6, <2>1, BusyWorkers, AdvanceInUse DEF FlowStatuses
  <2> HIDE DEF t
  <2> QED BY <1>3, <1>6, <2>1, <2>2
<1>10. ASSUME InspectThrows PROVE SoundStep
  BY <1>0, <1>1, <1>10, SameRow, EndJules DEF InspectThrows
<1>11. ASSUME JulesAccepted PROVE SoundStep
  <2> DEFINE t == jules.task
             copy == jules.mem
  <2>1. /\ jules.pc # "idle" /\ JulesGoto("accepted", t, copy)
        /\ row' = row /\ UNCHANGED up
        /\ Log(t, [log[t] EXCEPT !.sent = @ + 1, !.told = TRUE])
    BY <1>11 DEF JulesAccepted, JulesAt
  <2>2. t \in Tasks /\ copy \in CopiesInUse /\ row'[t] # NoRow
    BY <2>1, FramesNow DEF FrameOK, Exists
  <2> HIDE DEF t, copy
  <2>3. Rest
    BY <1>2, <2>1, <2>2, LogEntries
  <2> QED BY <1>0, <2>1, <2>2, <2>3, SameRow, SetJules DEF JulesPC
<1>12. ASSUME JulesDelivered PROVE SoundStep
  <2> DEFINE t == jules.task
             copy == advanceState(Unlocked, "completed")
  <2>1. /\ jules.pc # "idle" /\ SaveTwice(t, Unlocked, copy)
        /\ JulesEnds /\ UNCHANGED <<up, log>>
    BY <1>12 DEF JulesDelivered, JulesAt
  <2>2. copy \in CopiesInUse /\ t \in Tasks
    BY <1>6, <2>1, BusyWorkers, AdvanceInUse DEF FlowStatuses
  <2> HIDE DEF t, copy
  <2> QED BY <1>3, <1>6, <2>1, <2>2
<1>13. ASSUME JulesSendThrows PROVE SoundStep
  <2>1. /\ jules.pc # "idle" /\ Save(jules.task, Unlocked)
        /\ SendFailed(jules.task) /\ JulesEnds /\ UNCHANGED up
    BY <1>13 DEF JulesSendThrows, JulesAt
  <2>2. Rest
    BY <2>1, BusyWorkers, SendFailedStep DEF IndInv, TypeOK
  <2> QED BY <1>0, <1>6, <2>1, <2>2, BusyWorkers, SaveRow, EndJules
<1>14. ASSUME JulesReported PROVE SoundStep
  <2> DEFINE t == jules.task
  <2>1. /\ jules.pc # "idle" /\ JulesEnds /\ row' = row /\ UNCHANGED up
        /\ Log(t, [log[t] EXCEPT !.told = TRUE]) \/ SendFailed(t)
    BY <1>14 DEF JulesReported, JulesAt
  <2>2. t \in Tasks
    BY <2>1, BusyWorkers
  <2> HIDE DEF t
  <2>3. Rest
    BY <1>2, <2>1, <2>2, LogEntries, SendFailedStep DEF IndInv, TypeOK
  <2> QED BY <1>0, <2>1, <2>3, SameRow, EndJules
<1> QED BY <1>4, <1>5, <1>7, <1>8, <1>9, <1>10, <1>11, <1>12, <1>13, <1>14
        DEF JulesNext

\* A lock that runs out changes no status.
LEMMA LockSound ==
    ASSUME IndInv, NEW t \in Tasks, LockExpires(t),
           UNCHANGED <<chat, research, jules, crashes>>
    PROVE  SoundStep
<1> DEFINE x == [row[t] EXCEPT !.lock = "free"]
<1>1. row[t] \in CopiesInUse /\ row' = [row EXCEPT ![t] = x] /\ UNCHANGED <<up, log>>
  BY RowInUse DEF LockExpires, Exists, IndInv, TypeOK
<1>2. x \in CopiesInUse /\ x.status = row[t].status
  BY <1>1, AmendInUse
<1> HIDE DEF x
<1>3. RowStep
  BY <1>1, <1>2, WriteRow DEF HasStatus
<1> QED BY <1>1, <1>3, SameChat, SameResearch, SameJules
        DEF SoundStep, FramesStep, IndInv, TypeOK

\* A crash loses the frames and keeps the rows.
LEMMA CrashSound ==
    ASSUME IndInv, Crash
    PROVE  SoundStep
<1>1. RowStep
  BY SameRow DEF Crash
<1>2. IdleFrame \in Frames /\ IdleFrame.mem \in CopiesInUse /\ IdleFrame.pc = "idle"
  BY PendingInUse, InUseExists DEF IdleFrame, Frames, ChatPC
<1>3. chat' \in [Handlers -> Frames] /\ \A h \in Handlers : FrameOK(chat[h])'
  BY <1>2 DEF Crash, FrameOK
<1>4. crashes' \in 0..MaxCrashes
  BY CrashAssumption DEF Crash, IndInv, TypeOK
<1> QED BY <1>1, <1>3, <1>4, EndResearch, EndJules
        DEF Crash, SoundStep, FramesStep, IndInv, TypeOK

\* The boot fails the running rows and touches no other.
LEMMA BootSound ==
    ASSUME IndInv, Boot
    PROVE  SoundStep
<1>1. ASSUME NEW t \in Tasks, HasStatus(t, {"running"})
      PROVE  Saved(row[t], advanceState(row[t], "failed")) \in CopiesInUse
  <2>1. row[t] \in CopiesInUse
    BY <1>1, RowOf
  <2>2. advanceState(row[t], "failed") \in CopiesInUse
    BY <2>1, AdvanceInUse DEF FlowStatuses
  <2> QED BY <2>1, <2>2, SavedInUse
<1>2. \A t \in Tasks :
         /\ HasStatus(t, {"running"}) =>
               row'[t] = Saved(row[t], advanceState(row[t], "failed"))
         /\ ~HasStatus(t, {"running"}) => row'[t] = row[t]
  BY DEF Boot
<1>3. \A t \in Tasks : row'[t] \in CopiesInUse \cup {NoRow}
  BY <1>1, <1>2, RowInUse
<1>4. \A t \in Tasks : HasStatus(t, {"running"}) => ~HasStatus(t, Terminal)
  BY DEF HasStatus, Terminal
<1>5. RowStep
  <2>1. row' \in [Tasks -> Copies \cup {NoRow}]
    <3>1. row' = [t \in Tasks |-> row'[t]]
      BY DEF Boot
    <3> QED BY <1>3, <3>1, InUseExists
  <2>2. ASSUME NEW t \in Tasks
        PROVE  /\ row'[t] # NoRow => row'[t] \in CopiesInUse
               /\ Exists(t) => row'[t] # NoRow
               /\ HasStatus(t, Terminal) => row'[t].status \in Terminal
    <3>1. CASE HasStatus(t, {"running"})
      BY <1>1, <1>2, <1>4, <3>1, InUseExists
    <3>2. CASE ~HasStatus(t, {"running"})
      BY <1>2, <1>3, <3>2 DEF Exists, HasStatus
    <3> QED BY <3>1, <3>2
  <2> QED BY <2>1, <2>2 DEF RowStep
<1> QED BY <1>5, SameChat, SameResearch, SameJules
        DEF Boot, SoundStep, FramesStep, IndInv, TypeOK

\* Nothing changes when the system stutters.
LEMMA StutterSound ==
    ASSUME IndInv, UNCHANGED vars
    PROVE  SoundStep
<1>1. UNCHANGED <<row, up, log, chat, research, jules, crashes>>
  BY DEF vars
<1> QED BY <1>1, SameRow, SameChat, SameResearch, SameJules
        DEF SoundStep, FramesStep, IndInv, TypeOK

\* Every step of the system is sound.
LEMMA NextSound ==
    ASSUME IndInv, [Next]_vars
    PROVE  SoundStep
BY ChatSound, ResearchSound, JulesSound, LockSound, CrashSound, BootSound, StutterSound
   DEF Next

-----------------------------------------------------------------------------
(* Theorems.                                                               *)

\* IndInv holds at the start.
LEMMA InitInvariant == Init => IndInv
<1> SUFFICES ASSUME Init PROVE IndInv
  OBVIOUS
<1>1. IdleFrame \in Frames /\ IdleFrame.pc = "idle" /\ IdleFrame.mem \in CopiesInUse
  BY PendingInUse, InUseExists DEF IdleFrame, Frames, ChatPC
<1>2. /\ IdleResearch \in ResearchFrames /\ IdleResearch.pc = "idle"
      /\ IdleResearch.mem \in CopiesInUse
  BY PendingInUse, InUseExists DEF IdleResearch, ResearchFrames, ResearchPC
<1>3. /\ IdleJules \in JulesFrames /\ IdleJules.pc = "idle"
      /\ IdleJules.mem \in CopiesInUse
  BY PendingInUse, InUseExists DEF IdleJules, JulesFrames, JulesPC
<1>4. EmptyLog \in Logs
  BY DEF EmptyLog, Logs
<1>5. TypeOK
  BY <1>1, <1>2, <1>3, <1>4, CrashAssumption
     DEF Init, StoreInit, ChatInit, ResearchInit, JulesInit, TypeOK
<1>6. CopiesAreSound
  BY <1>1, <1>2, <1>3
     DEF Init, StoreInit, ChatInit, ResearchInit, JulesInit, CopiesAreSound, Exists
<1> QED BY <1>5, <1>6 DEF IndInv

\* A sound step keeps IndInv.
LEMMA SoundIsInvariant ==
    ASSUME SoundStep
    PROVE  IndInv'
<1>1. TypeOK'
  BY DEF SoundStep, RowStep, FramesStep, TypeOK
<1>2. CopiesAreSound'
  BY DEF SoundStep, RowStep, FramesStep, FrameOK, CopiesAreSound, Exists
<1> QED BY <1>1, <1>2 DEF IndInv

\* IndInv is inductive: it holds at the start and every sound step keeps it.
THEOREM SoundCopies == Spec => []IndInv
<1>1. IndInv /\ [Next]_vars => IndInv'
  BY NextSound, SoundIsInvariant
<1> QED BY <1>1, InitInvariant, PTL DEF Spec

\* Every row and every copy in memory keeps a status of these flows and an
\* approval status that agrees with it, and whoever works has a task.
THEOREM CopiesStaySound == Spec => []CopiesAreSound
<1>1. IndInv => CopiesAreSound
  BY DEF IndInv
<1> QED BY <1>1, SoundCopies, PTL

\* Every row, frame and log entry keeps its type in every reachable state.
THEOREM TypeCorrect == Spec => []TypeOK
<1>1. IndInv => TypeOK
  BY DEF IndInv
<1> QED BY <1>1, SoundCopies, PTL

\* The approval status of a row always agrees with its status.
THEOREM ApprovalAgrees == Spec => []ApprovalMatchesStatus
<1>1. IndInv => ApprovalMatchesStatus
  BY DEF IndInv, CopiesAreSound, CopiesInUse, ApprovalMatchesStatus
<1> QED BY <1>1, SoundCopies, PTL

\* No stale write of any handler or worker makes a terminal row active again.
THEOREM TerminalIsFinal == Spec => TerminalNeverReopened
<1>1. IndInv /\ [Next]_vars =>
        [\A t \in Tasks : HasStatus(t, Terminal) => row'[t].status \in Terminal]_vars
  BY NextSound DEF SoundStep, RowStep
<1> QED BY <1>1, SoundCopies, PTL DEF Spec, TerminalNeverReopened
=============================================================================
