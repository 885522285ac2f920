-------------------------- MODULE TaskLedger_proofs --------------------------
(***************************************************************************)
(* TaskOS implements TaskLedger, for every set of tasks and every finite   *)
(* set of handlers.  Every step is either quiet (it opens no task and      *)
(* holds, approves and starts none) or one of seven actions; a quiet step  *)
(* keeps ApprovalsAccounted and closes tasks at most, and each of the      *)
(* seven is an action of the ledger.                                       *)
(***************************************************************************)
EXTENDS TaskOS_proofs, FiniteSetTheorems

SameLog(t) == /\ log'[t].held = log[t].held
              /\ log'[t].approvals = log[t].approvals
              /\ log'[t].launches = log[t].launches

Prepares(h, t) == Works(chat[h], t) /\ chat[h].pc = "preparing"

Notifies(h, t) == chat[h].pc = "notifying" /\ chat[h].task = t

\* What a step that is not about t leaves alone.
Kept(t) ==
    /\ SameLog(t)
    /\ \A h \in Handlers : Notifies(h, t)' => Notifies(h, t)
    /\ \A h \in Handlers : Works(chat[h], t)' => Works(chat[h], t)
    /\ \A h \in Handlers : Prepares(h, t)' =>
          /\ Prepares(h, t) /\ row'[t].status = "parsed"
          /\ chat'[h].mem = chat[h].mem
          /\ ~Works(research, t)' /\ ~Works(jules, t)'

Quiet == \A t \in Tasks : Kept(t) /\ (Exists(t)' => Exists(t))

\* The rows of all tasks but u stay as they are.
OnlyRow(u) == \A t \in Tasks : t # u => row'[t] = row[t]

Inv == IndInv /\ ApprovalsAccounted

-----------------------------------------------------------------------------
(* Steps that are not about t keep what is accounted for t.                *)

\* The handlers that notify the approval of t are finitely many.
LEMMA NotifyingFinite ==
    ASSUME NEW t \in Tasks
    PROVE  IsFiniteSet(Notifying(t)) /\ Cardinality(Notifying(t)) \in Nat
<1>1. Notifying(t) \in SUBSET Handlers
  BY DEF Notifying
<1>2. IsFiniteSet(Notifying(t))
  BY <1>1, ChatAssumption, FS_Subset
<1> QED BY <1>2, FS_CardinalityType

\* Fewer of them notify after a step that starts no such handler.
LEMMA NotifyingShrinks ==
    ASSUME NEW t \in Tasks, \A h \in Handlers : Notifies(h, t)' => Notifies(h, t)
    PROVE  /\ IsFiniteSet(Notifying(t)') /\ Cardinality(Notifying(t)') \in Nat
           /\ Cardinality(Notifying(t)') <= Cardinality(Notifying(t))
<1>1. Notifying(t)' \in SUBSET Notifying(t)
  BY DEF Notifying, Notifies
<1>2. IsFiniteSet(Notifying(t)') /\ Cardinality(Notifying(t)') <= Cardinality(Notifying(t))
  BY <1>1, NotifyingFinite, FS_Subset
<1> QED BY <1>2, FS_CardinalityType

\* The counters of a log entry are numbers.
LEMMA LogFields ==
    ASSUME TypeOK, NEW t \in Tasks
    PROVE  /\ log[t].approvals \in Nat /\ log[t].launches \in Nat
           /\ log[t].held \in BOOLEAN
BY DEF TypeOK, Logs

\* A step that is not about t keeps what is accounted for t.
LEMMA KeptAccounted ==
    ASSUME Inv, SoundStep, NEW t \in Tasks, Kept(t)
    PROVE  Accounted(t)'
<1>1. Earned(t)'
  <2>1. /\ IsFiniteSet(Notifying(t)') /\ Cardinality(Notifying(t)') \in Nat
        /\ Cardinality(Notifying(t)') <= Cardinality(Notifying(t))
    BY NotifyingShrinks DEF Kept
  <2>2. Cardinality(Notifying(t)) \in Nat /\ Earned(t)
    BY NotifyingFinite DEF Inv, ApprovalsAccounted, Accounted
  <2>3. log[t].approvals \in Nat /\ log[t].launches \in Nat
    BY LogFields DEF Inv, IndInv
  <2> QED BY <2>1, <2>2, <2>3 DEF Earned, Kept, SameLog
<1>2. ~Exists(t)' => Untouched(log[t])'
  BY DEF Inv, ApprovalsAccounted, Accounted, SoundStep, RowStep, Exists,
         Untouched, Kept, SameLog
<1>3. Prepared(t)'
  BY DEF Inv, ApprovalsAccounted, Accounted, Prepared, Kept, SameLog, Prepares, Untouched
<1> QED BY <1>1, <1>2, <1>3 DEF Accounted

-----------------------------------------------------------------------------
(* The kinds of steps.                                                     *)

\* Handler h goes on in its own task, and neither prepares nor notifies.
LEMMA HandlerKept ==
    ASSUME Inv, NEW h \in Handlers, chat[h].pc # "idle", NEW f,
           chat' = [chat EXCEPT ![h] = f],
           f.pc \notin {"preparing", "notifying"},
           f.pc # "idle" => f.task = chat[h].task,
           OnlyRow(chat[h].task), UNCHANGED <<research, jules>>,
           NEW t \in Tasks, SameLog(t)
    PROVE  Kept(t)
<1>1. chat'[h] = f /\ \A g \in Handlers : g # h => chat'[g] = chat[g]
  BY DEF Inv, IndInv, TypeOK
<1>2. Prepared(t)
  BY DEF Inv, ApprovalsAccounted, Accounted
<1>3. ASSUME NEW g \in Handlers, Prepares(g, t)'
      PROVE  /\ Prepares(g, t) /\ row'[t].status = "parsed"
             /\ chat'[g].mem = chat[g].mem
             /\ ~Works(research, t)' /\ ~Works(jules, t)'
  <2>1. g # h /\ chat'[g] = chat[g] /\ Prepares(g, t)
    BY <1>1, <1>3 DEF Prepares, Works
  <2>2. ~Works(chat[h], t)
    BY <1>2, <2>1 DEF Prepared, Prepares
  <2>3. row'[t] = row[t]
    BY <2>2 DEF OnlyRow, Works
  <2> QED BY <1>2, <2>1, <2>3 DEF Prepared, Prepares, Works
<1>4. \A g \in Handlers : Works(chat[g], t)' => Works(chat[g], t)
  BY <1>1 DEF Works
<1>5. \A g \in Handlers : Notifies(g, t)' => Notifies(g, t)
  BY <1>1 DEF Notifies
<1> QED BY <1>3, <1>4, <1>5 DEF Kept

\* An idle handler takes up the task u.
LEMMA TakeUpKept ==
    ASSUME Inv, NEW h \in Handlers, chat[h].pc = "idle", NEW u \in Tasks, NEW f,
           chat' = [chat EXCEPT ![h] = f], f.task = u,
           OnlyRow(u), UNCHANGED <<research, jules>>,
           NEW t \in Tasks, t # u, SameLog(t)
    PROVE  Kept(t)
<1>1. chat'[h] = f /\ \A g \in Handlers : g # h => chat'[g] = chat[g]
  BY DEF Inv, IndInv, TypeOK
<1>2. Prepared(t) /\ row'[t] = row[t]
  BY DEF Inv, ApprovalsAccounted, Accounted, OnlyRow
<1>3. \A g \in Handlers : Prepares(g, t)' => g # h /\ Prepares(g, t)
  BY <1>1 DEF Prepares, Works
<1>4. \A g \in Handlers : Works(chat[g], t)' => Works(chat[g], t)
  BY <1>1 DEF Works
<1>5. \A g \in Handlers : Notifies(g, t)' => Notifies(g, t)
  BY <1>1 DEF Notifies
<1> QED BY <1>1, <1>2, <1>3, <1>4, <1>5 DEF Kept, Prepared, Prepares, Works

\* Somebody who is not a handler at work writes the row of u, which no
\* handler prepares; a worker may take u up.
LEMMA OutsideKept ==
    ASSUME Inv, NEW u \in Tasks, \A h \in Handlers : ~Prepares(h, u),
           OnlyRow(u), chat' = chat,
           \A t \in Tasks : /\ Works(research, t)' => Works(research, t) \/ t = u
                            /\ Works(jules, t)' => Works(jules, t) \/ t = u,
           NEW t \in Tasks, SameLog(t)
    PROVE  Kept(t)
<1>1. Prepared(t)
  BY DEF Inv, ApprovalsAccounted, Accounted
<1>2. \A h \in Handlers : Prepares(h, t)' => Prepares(h, t) /\ t # u
  BY DEF Prepares, Works
<1>3. t # u => row'[t] = row[t]
  BY DEF OnlyRow
<1>4. \A h \in Handlers : Notifies(h, t)' => Notifies(h, t)
  BY DEF Notifies
<1>5. \A h \in Handlers : Works(chat[h], t)' => Works(chat[h], t)
  BY DEF Works
<1> QED BY <1>1, <1>2, <1>3, <1>4, <1>5 DEF Kept, Prepared, Prepares

\* Nobody prepares a task that does not exist, is past parsed, or has a worker.
LEMMA NobodyPrepares ==
    ASSUME Inv, NEW t \in Tasks,
           \/ ~Exists(t) \/ row[t].status # "parsed"
           \/ Works(research, t) \/ Works(jules, t)
    PROVE  \A h \in Handlers : ~Prepares(h, t)
<1>1. Prepared(t)
  BY DEF Inv, ApprovalsAccounted, Accounted
<1>2. \A h \in Handlers : Works(chat[h], t) => Exists(t)
  BY FramesNow DEF FrameOK, Works, Inv
<1> QED BY <1>1, <1>2 DEF Prepared, Prepares

-----------------------------------------------------------------------------
(* Quiet steps.                                                            *)

\* A save changes the row of its own task only.
LEMMA SavesOneRow ==
    ASSUME IndInv, NEW u \in Tasks, NEW a, NEW b,
           \/ Save(u, a) \/ SaveTwice(u, a, b) \/ FailIfRunning(u)
           \/ FailCopy(u, a) \/ row' = row \/ row' = [row EXCEPT ![u] = a]
    PROVE  OnlyRow(u)
<1>1. row = [t \in Tasks |-> row[t]]
  BY DEF IndInv, TypeOK
<1>2. ASSUME NEW x, row' = [row EXCEPT ![u] = x]
      PROVE  OnlyRow(u)
  BY <1>1, <1>2 DEF OnlyRow
<1>3. row' = row => OnlyRow(u)
  BY DEF OnlyRow
<1>4. ASSUME NEW c, Save(u, c) PROVE OnlyRow(u)
  BY <1>2, <1>4 DEF Save
<1>5. SaveTwice(u, a, b) => OnlyRow(u)
  BY <1>2 DEF SaveTwice
<1>6. FailIfRunning(u) => OnlyRow(u)
  BY <1>2, <1>3 DEF FailIfRunning
<1>7. FailCopy(u, a) => OnlyRow(u)
  BY <1>4 DEF FailCopy
<1> QED BY <1>2, <1>3, <1>4, <1>5, <1>6, <1>7

\* Neither a failed send nor a message to the chat is a hold, an approval
\* or a start.
LEMMA SameLogs ==
    ASSUME IndInv, NEW u \in Tasks,
           \/ UNCHANGED log \/ SendFailed(u)
           \/ Log(u, [log[u] EXCEPT !.told = TRUE])
           \/ Log(u, [log[u] EXCEPT !.rejected = TRUE])
           \/ Log(u, [log[u] EXCEPT !.sent = @ + 1, !.told = TRUE]),
           NEW t \in Tasks
    PROVE  SameLog(t)
<1>1. log \in [Tasks -> Logs]
  BY DEF IndInv, TypeOK
<1>2. log[u] \in Logs
  BY <1>1
<1>3. CASE UNCHANGED log
  BY <1>3 DEF SameLog
<1>4. CASE SendFailed(u)
  BY <1>1, <1>2, <1>4 DEF SendFailed, Log, Logs, SameLog
<1>5. CASE Log(u, [log[u] EXCEPT !.told = TRUE])
  BY <1>1, <1>2, <1>5 DEF Log, Logs, SameLog
<1>6. CASE Log(u, [log[u] EXCEPT !.rejected = TRUE])
  BY <1>1, <1>2, <1>6 DEF Log, Logs, SameLog
<1>7. CASE Log(u, [log[u] EXCEPT !.sent = @ + 1, !.told = TRUE])
  <2> DEFINE e == [log[u] EXCEPT !.sent = @ + 1, !.told = TRUE]
  <2>1. /\ e.held = log[u].held /\ e.approvals = log[u].approvals
        /\ e.launches = log[u].launches
    BY <1>2 DEF Logs
  <2>2. log' = [log EXCEPT ![u] = e]
    BY <1>7 DEF Log
  <2> HIDE DEF e
  <2> QED BY <1>1, <2>1, <2>2 DEF SameLog
<1> QED BY <1>3, <1>4, <1>5, <1>6, <1>7

\* A handler goes on in its own task.
LEMMA HandlerQuiet ==
    ASSUME Inv, NEW h \in Handlers, chat[h].pc # "idle", NEW f,
           chat' = [chat EXCEPT ![h] = f],
           f.pc \notin {"preparing", "notifying"},
           f.pc # "idle" => f.task = chat[h].task,
           OnlyRow(chat[h].task), UNCHANGED <<log, research, jules>>
    PROVE  Quiet
<1>1. \A t \in Tasks : SameLog(t)
  BY DEF SameLog
<1>2. \A t \in Tasks : Kept(t)
  BY <1>1, HandlerKept
<1>3. Exists(chat[h].task)
  BY FramesNow DEF Inv, FrameOK
<1>4. \A t \in Tasks : Exists(t)' => Exists(t)
  BY <1>3 DEF OnlyRow, Exists
<1> QED BY <1>2, <1>4 DEF Quiet

\* A handler ends, or goes on to another await.
LEMMA FinishQuiet ==
    ASSUME Inv, NEW h \in Handlers, chat[h].pc # "idle", Finish(h),
           OnlyRow(chat[h].task), UNCHANGED <<log, research, jules>>
    PROVE  Quiet
<1>1. IdleFrame.pc = "idle"
  BY DEF IdleFrame
<1>2. chat' = [chat EXCEPT ![h] = IdleFrame]
  BY DEF Finish
<1> QED BY <1>1, <1>2, HandlerQuiet

LEMMA GotoQuiet ==
    ASSUME Inv, NEW h \in Handlers, chat[h].pc # "idle", NEW copy,
           NEW pc \in {"replying", "apologising", "executing"}, Goto(h, pc, copy),
           OnlyRow(chat[h].task), UNCHANGED <<log, research, jules>>
    PROVE  Quiet
<1> DEFINE f == [chat[h] EXCEPT !.pc = pc, !.mem = copy]
<1>1. chat[h] \in Frames
  BY Busy DEF Inv
<1>2. f.pc = pc /\ f.task = chat[h].task
  BY <1>1 DEF Frames
<1>3. chat' = [chat EXCEPT ![h] = f]
  BY <1>1 DEF Goto, Frames, Inv, IndInv, TypeOK
<1> HIDE DEF f
<1> QED BY <1>2, <1>3, HandlerQuiet

\* Somebody who is no handler at work writes the existing row of u.
LEMMA OutsideQuiet ==
    ASSUME Inv, NEW u \in Tasks, Exists(u),
           row[u].status # "parsed" \/ Works(research, u) \/ Works(jules, u),
           OnlyRow(u), chat' = chat,
           research' = research \/ research'.pc = "idle" \/ research'.task = u,
           jules' = jules \/ jules'.pc = "idle" \/ jules'.task = u,
           \A t \in Tasks : SameLog(t)
    PROVE  Quiet
<1>1. \A h \in Handlers : ~Prepares(h, u)
  BY NobodyPrepares
<1>2. \A t \in Tasks : /\ Works(research, t)' => Works(research, t) \/ t = u
                       /\ Works(jules, t)' => Works(jules, t) \/ t = u
  BY DEF Works
<1>3. \A t \in Tasks : Kept(t)
  BY <1>1, <1>2, OutsideKept
<1>4. \A t \in Tasks : Exists(t)' => Exists(t)
  BY DEF OnlyRow, Exists
<1> QED BY <1>3, <1>4 DEF Quiet

\* The steps of a handler that neither takes up a task nor holds or starts it.
LEMMA ChatQuiet ==
    ASSUME Inv, UNCHANGED <<research, jules>>, NEW h \in Handlers,
           \/ PrepareThrows(h) \/ PromptDone(h) \/ PromptThrows(h) \/ NotifyThrows(h)
           \/ \E outcome \in {"success", "failure", "blocked", "awaiting", "pending"} :
                 ExecutorReturns(h, outcome)
           \/ ExecutorThrows(h) \/ ReplyDone(h) \/ ReplyThrows(h)
           \/ ApologyDone(h) \/ ApologyThrows(h)
    PROVE  Quiet
<1> DEFINE t == chat[h].task
<1>0. ASSUME chat[h].pc # "idle"
      PROVE  t \in Tasks /\ IndInv
  BY <1>0, Busy DEF Inv
<1>1. ASSUME PrepareThrows(h) \/ PromptThrows(h)
      PROVE  Quiet
  <2>1. /\ chat[h].pc # "idle" /\ FailCopy(t, chat[h].mem)
        /\ Finish(h) /\ UNCHANGED log
    BY <1>1 DEF PrepareThrows, PromptThrows, At
  <2> QED BY <1>0, <2>1, SavesOneRow, FinishQuiet
<1>2. ASSUME PromptDone(h) \/ ReplyDone(h) \/ ApologyDone(h)
      PROVE  Quiet
  <2>1. chat[h].pc # "idle" /\ Finish(h) /\ UNCHANGED <<row, log>>
    BY <1>2 DEF PromptDone, ReplyDone, ApologyDone, At
  <2> QED BY <1>0, <2>1, SavesOneRow, FinishQuiet
<1>3. ASSUME NotifyThrows(h)
      PROVE  Quiet
  <2>1. chat[h].pc # "idle" /\ FailIfRunning(t) /\ Finish(h) /\ UNCHANGED log
    BY <1>3 DEF NotifyThrows, At
  <2> QED BY <1>0, <2>1, SavesOneRow, FinishQuiet
<1>4. ASSUME ApologyThrows(h)
      PROVE  Quiet
  <2>1. chat[h].pc # "idle" /\ Save(t, chat[h].mem) /\ Finish(h) /\ UNCHANGED log
    BY <1>4 DEF ApologyThrows, At
  <2> QED BY <1>0, <2>1, SavesOneRow, FinishQuiet
<1>5. ASSUME ExecutorThrows(h) \/ ReplyThrows(h)
      PROVE  Quiet
  <2>1. chat[h].pc # "idle" /\ Caught(h) /\ UNCHANGED log
    BY <1>5 DEF ExecutorThrows, ReplyThrows, At
  <2>2. CASE FailCopy(t, chat[h].mem) /\ Goto(h, "apologising", Failed(chat[h].mem))
    BY <1>0, <2>1, <2>2, SavesOneRow, GotoQuiet
  <2>3. CASE FailIfRunning(t) /\ Finish(h)
    BY <1>0, <2>1, <2>3, SavesOneRow, FinishQuiet
  <2> QED BY <2>1, <2>2, <2>3 DEF Caught
<1>6. ASSUME NEW outcome, ExecutorReturns(h, outcome)
      PROVE  Quiet
  <2> DEFINE stored == Stored(chat[h].mem, outcome)
             copy   == Settled(stored, outcome)
  <2>1. /\ chat[h].pc # "idle" /\ UNCHANGED log
        /\ Save(t, copy) \/ SaveTwice(t, stored, copy)
        /\ Goto(h, "replying", copy)
    BY <1>6 DEF ExecutorReturns, At
  <2> HIDE DEF stored, copy
  <2> QED BY <1>0, <2>1, SavesOneRow, GotoQuiet
<1> QED BY <1>1, <1>2, <1>3, <1>4, <1>5, <1>6

\* The decisions that write the row without taking the task up.
LEMMA DecisionQuiet ==
    ASSUME Inv, UNCHANGED <<research, jules>>, NEW h \in Handlers, NEW t \in Tasks,
           ApproveRefused(h, t) \/ Reject(h, t)
    PROVE  Quiet
<1>1. /\ Exists(t) /\ row[t].status # "parsed" /\ chat' = chat
      /\ FailIfRunning(t) \/ Save(t, advanceState(row[t], "rejected"))
      /\ UNCHANGED log \/ Log(t, [log[t] EXCEPT !.rejected = TRUE])
  BY DEF ApproveRefused, Reject, HasStatus
<1>2. OnlyRow(t) /\ \A u \in Tasks : SameLog(u)
  BY <1>1, SavesOneRow, SameLogs DEF Inv
<1> QED BY <1>1, <1>2, OutsideQuiet

\* The steps of the research worker.
LEMMA ResearchQuiet ==
    ASSUME Inv, UNCHANGED <<chat, jules>>, ResearchNext,
           \A t \in Tasks : ~Enqueue(t)
    PROVE  Quiet
<1> DEFINE u == research.task
<1>1. ASSUME NEW t \in Tasks,
             ResearchStarts(t) \/ ResearchRetries(t) \/ ResearchRerunFails(t)
      PROVE  Quiet
  <2>1. /\ Exists(t) /\ row[t].status # "parsed" /\ UNCHANGED log
        /\ research'.task = t
    BY <1>1 DEF ResearchStarts, ResearchRetries, ResearchRerunFails, Claimable,
                HasStatus, ResearchGoto
  <2>2. OnlyRow(t)
    BY <1>1, SavesOneRow
       DEF Inv, ResearchStarts, ResearchRetries, ResearchRerunFails
  <2>3. \A s \in Tasks : SameLog(s)
    BY <2>1 DEF SameLog
  <2> QED BY <2>1, <2>2, <2>3, OutsideQuiet
<1>2. ASSUME research.pc # "idle",
             OnlyRow(u), \A s \in Tasks : SameLog(s),
             research'.task = u \/ research'.pc = "idle"
      PROVE  Quiet
  <2>1. u \in Tasks /\ Exists(u) /\ Works(research, u)
    BY <1>2, FramesNow DEF FrameOK, Works, Inv
  <2> QED BY <1>2, <2>1, OutsideQuiet
<1>3. ResearchEnds => research'.pc = "idle"
  BY DEF ResearchEnds, IdleResearch
<1>4. \A pc, c : ResearchGoto(pc, u, c) => research'.task = u
  BY DEF ResearchGoto
<1>5. ASSUME research.pc # "idle" PROVE u \in Tasks /\ IndInv
  BY <1>5, BusyWorkers DEF Inv
<1>6. ASSUME NEW found, SearchDone(found)
      PROVE  Quiet
  <2> DEFINE stored == [Unlock(research.mem) EXCEPT !.result = found]
             copy   == advanceState(stored, "delivery_pending")
  <2>1. /\ research.pc # "idle" /\ UNCHANGED log
        /\ SaveTwice(u, stored, copy)
        /\ ResearchGoto("delivering", u, copy)
    BY <1>6 DEF SearchDone, ResearchAt
  <2> HIDE DEF stored, copy
  <2> QED BY <2>1, <1>2, <1>4, <1>5, SavesOneRow, SameLogs
<1>7. ASSUME SearchThrows
      PROVE  Quiet
  <2> DEFINE copy == advanceState(Unlock(research.mem), "failed")
  <2>1. /\ research.pc # "idle" /\ UNCHANGED log
        /\ SaveTwice(u, Unlock(research.mem), copy)
        /\ ResearchGoto("reporting", u, copy)
    BY <1>7 DEF SearchThrows, ResearchAt
  <2> HIDE DEF copy
  <2> QED BY <2>1, <1>2, <1>4, <1>5, SavesOneRow, SameLogs
<1>8. ASSUME ResearchAccepted
      PROVE  Quiet
  <2>1. /\ research.pc # "idle" /\ UNCHANGED row
        /\ Log(u, [log[u] EXCEPT !.sent = @ + 1, !.told = TRUE])
        /\ ResearchGoto("accepted", u, research.mem)
    BY <1>8 DEF ResearchAccepted, ResearchAt
  <2> QED BY <2>1, <1>2, <1>4, <1>5, SavesOneRow, SameLogs
<1>9. ASSUME ResearchDelivered \/ ResearchSendThrows
      PROVE  Quiet
  <2>1. /\ research.pc # "idle" /\ ResearchEnds
        /\ UNCHANGED log \/ SendFailed(u)
        /\ \/ Save(u, research.mem)
           \/ SaveTwice(u, Unlock(research.mem),
                        advanceState(Unlock(research.mem), "completed"))
    BY <1>9 DEF ResearchDelivered, ResearchSendThrows, ResearchAt
  <2> QED BY <2>1, <1>2, <1>3, <1>5, SavesOneRow, SameLogs
<1>10. ASSUME ResearchReported
       PROVE  Quiet
  <2>1. /\ research.pc # "idle" /\ ResearchEnds /\ UNCHANGED row
        /\ Log(u, [log[u] EXCEPT !.told = TRUE]) \/ SendFailed(u)
    BY <1>10 DEF ResearchReported, ResearchAt
  <2> QED BY <2>1, <1>2, <1>3, <1>5, SavesOneRow, SameLogs
<1> QED BY <1>1, <1>6, <1>7, <1>8, <1>9, <1>10 DEF ResearchNext

\* The steps of the jules worker.
LEMMA JulesQuiet ==
    ASSUME Inv, UNCHANGED <<chat, research>>, JulesNext
    PROVE  Quiet
<1> DEFINE u == jules.task
<1>1. ASSUME NEW t \in Tasks, JulesRetries(t) \/ JulesUntracked(t) \/ JulesPolls(t)
      PROVE  Quiet
  <2>1. /\ Exists(t) /\ row[t].status # "parsed" /\ UNCHANGED log
        /\ jules'.task = t
    BY <1>1 DEF JulesRetries, JulesUntracked, JulesPolls, JulesClaimable, Claimable,
                HasStatus, JulesGoto
  <2>2. OnlyRow(t)
    BY <1>1, SavesOneRow DEF Inv, JulesRetries, JulesUntracked, JulesPolls
  <2>3. \A s \in Tasks : SameLog(s)
    BY <2>1 DEF SameLog
  <2> QED BY <2>1, <2>2, <2>3, OutsideQuiet
<1>2. ASSUME jules.pc # "idle",
             OnlyRow(u), \A s \in Tasks : SameLog(s),
             jules'.task = u \/ jules'.pc = "idle"
      PROVE  Quiet
  <2>1. u \in Tasks /\ Exists(u) /\ Works(jules, u)
    BY <1>2, FramesNow DEF FrameOK, Works, Inv
  <2> QED BY <1>2, <2>1, OutsideQuiet
<1>3. JulesEnds => jules'.pc = "idle"
  BY DEF JulesEnds, IdleJules
<1>4. \A pc, c : JulesGoto(pc, u, c) => jules'.task = u
  BY DEF JulesGoto
<1>5. ASSUME jules.pc # "idle" PROVE u \in Tasks /\ IndInv
  BY <1>5, BusyWorkers DEF Inv
<1>6. ASSUME SessionCompleted
      PROVE  Quiet
  <2>1. PICK first, second :
           /\ jules.pc # "idle" /\ UNCHANGED log
           /\ SaveTwice(u, first, second) /\ JulesGoto("delivering", u, second)
    BY <1>6 DEF SessionCompleted, JulesAt
  <2> QED BY <2>1, <1>2, <1>4, <1>5, SavesOneRow, SameLogs
<1>7. ASSUME SessionFailed
      PROVE  Quiet
  <2>1. PICK copy :
           /\ jules.pc # "idle" /\ UNCHANGED log
           /\ SaveTwice(u, Unlocked, copy) /\ JulesGoto("reporting", u, copy)
    BY <1>7 DEF SessionFailed, JulesAt
  <2> QED BY <2>1, <1>2, <1>4, <1>5, SavesOneRow, SameLogs
<1>8. ASSUME SessionInReview \/ SessionWorks \/ InspectThrows \/ JulesDelivered
      PROVE  Quiet
  <2>1. PICK copy :
           /\ jules.pc # "idle" /\ JulesEnds /\ UNCHANGED log
           /\ SaveTwice(u, Unlocked, copy) \/ Save(u, Unlocked) \/ row' = row
    BY <1>8 DEF SessionInReview, SessionWorks, InspectThrows, JulesDelivered, JulesAt
  <2> QED BY <2>1, <1>2, <1>3, <1>5, SavesOneRow, SameLogs
<1>9. ASSUME JulesAccepted
      PROVE  Quiet
  <2>1. /\ jules.pc # "idle" /\ UNCHANGED row
        /\ Log(u, [log[u] EXCEPT !.sent = @ + 1, !.told = TRUE])
        /\ JulesGoto("accepted", u, jules.mem)
    BY <1>9 DEF JulesAccepted, JulesAt
  <2> QED BY <2>1, <1>2, <1>4, <1>5, SavesOneRow, SameLogs
<1>10. ASSUME JulesSendThrows \/ JulesReported
       PROVE  Quiet
  <2>1. /\ jules.pc # "idle" /\ JulesEnds
        /\ SendFailed(u) \/ Log(u, [log[u] EXCEPT !.told = TRUE])
        /\ Save(u, Unlocked) \/ row' = row
    BY <1>10 DEF JulesSendThrows, JulesReported, JulesAt
  <2> QED BY <2>1, <1>2, <1>3, <1>5, SavesOneRow, SameLogs
<1> QED BY <1>1, <1>6, <1>7, <1>8, <1>9, <1>10 DEF JulesNext

\* A lock runs out, the process dies, or nothing happens.
LEMMA RestQuiet ==
    ASSUME Inv,
           \/ \E t \in Tasks : LockExpires(t) /\ UNCHANGED <<chat, research, jules, crashes>>
           \/ Crash \/ UNCHANGED vars
    PROVE  Quiet
<1>1. ASSUME NEW u \in Tasks, LockExpires(u), UNCHANGED <<chat, research, jules>>
      PROVE  Quiet
  <2>1. \A t \in Tasks :
           Exists(t) = Exists(t)' /\ (Exists(t) => row'[t].status = row[t].status)
    <3>1. row[u] \in CopiesInUse /\ row' = [row EXCEPT ![u].lock = "free"]
      BY <1>1, RowInUse DEF LockExpires, Exists, Inv
    <3>2. /\ row'[u] = [row[u] EXCEPT !.lock = "free"]
          /\ \A t \in Tasks : t # u => row'[t] = row[t]
      BY <3>1 DEF Inv, IndInv, TypeOK
    <3>3. row'[u] \in CopiesInUse /\ row'[u].status = row[u].status
      BY <3>1, <3>2, AmendInUse
    <3> QED BY <3>1, <3>2, <3>3, InUseExists DEF Exists
  <2>2. ASSUME NEW t \in Tasks PROVE Kept(t)
    <3>1. UNCHANGED log /\ Prepared(t)
      BY <1>1 DEF LockExpires, Inv, ApprovalsAccounted, Accounted
    <3>2. \A h \in Handlers : Prepares(h, t) => Exists(t)
      BY FramesNow DEF FrameOK, Prepares, Works, Inv
    <3> QED BY <1>1, <2>1, <3>1, <3>2
            DEF Kept, SameLog, Notifies, Prepares, Prepared, Works
  <2> QED BY <2>1, <2>2 DEF Quiet
<1>2. ASSUME Crash
      PROVE  Quiet
  <2>1. \A h \in Handlers : chat'[h].pc = "idle"
    BY <1>2 DEF Crash, IdleFrame
  <2>2. UNCHANGED <<row, log>>
    BY <1>2 DEF Crash
  <2> QED BY <2>1, <2>2 DEF Quiet, Kept, SameLog, Notifies, Prepares, Works, Exists
<1>3. ASSUME UNCHANGED vars
      PROVE  Quiet
  <2>1. UNCHANGED <<row, log, chat, research, jules>>
    BY <1>3 DEF vars
  <2> QED BY <2>1
          DEF Quiet, Kept, SameLog, Notifies, Prepares, Prepared, Works, Exists,
              Inv, ApprovalsAccounted, Accounted
<1> QED BY <1>1, <1>2, <1>3

\* The boot fails the rows that were running, and no handler prepares those.
LEMMA BootQuiet ==
    ASSUME Inv, Boot
    PROVE  Quiet
<1>1. UNCHANGED <<log, chat, research, jules>>
  BY DEF Boot
<1>2. \A t \in Tasks : ~HasStatus(t, {"running"}) => row'[t] = row[t]
  BY DEF Boot
<1>3. ASSUME NEW t \in Tasks PROVE Kept(t)
  <2>1. Prepared(t)
    BY DEF Inv, ApprovalsAccounted, Accounted
  <2>2. row[t].status = "parsed" => row'[t] = row[t]
    BY <1>2 DEF HasStatus
  <2> QED BY <1>1, <2>1, <2>2 DEF Kept, SameLog, Notifies, Prepares, Prepared, Works
<1>4. \A t \in Tasks : Exists(t)' => Exists(t)
  BY <1>2 DEF Exists, HasStatus
<1> QED BY <1>3, <1>4 DEF Quiet

-----------------------------------------------------------------------------
(* The seven actions that are not quiet.                                   *)

\* An update of a frame that keeps its task.
LEMMA GotoFrame ==
    ASSUME IndInv, NEW h \in Handlers, chat[h].pc # "idle", NEW pc, NEW copy,
           Goto(h, pc, copy)
    PROVE  \E f : /\ chat' = [chat EXCEPT ![h] = f]
                  /\ f.pc = pc /\ f.task = chat[h].task /\ f.mem = copy
<1>1. chat[h] \in Frames
  BY Busy
<1> DEFINE f == [chat[h] EXCEPT !.pc = pc, !.mem = copy]
<1>2. chat' = [chat EXCEPT ![h] = f]
  BY <1>1 DEF Goto, Frames, IndInv, TypeOK
<1>3. f.pc = pc /\ f.task = chat[h].task /\ f.mem = copy
  BY <1>1 DEF Frames
<1> HIDE DEF f
<1> QED BY <1>2, <1>3

\* A message takes up a task that did not exist.
LEMMA ArrivesAccounted ==
    ASSUME Inv, SoundStep, NEW h \in Handlers, NEW u \in Tasks,
           MessageArrives(h, u), UNCHANGED <<research, jules>>
    PROVE  ApprovalsAccounted'
<1> DEFINE copy == advanceState(Pending, "parsed")
           f == [pc |-> "preparing", via |-> "message", task |-> u, mem |-> copy]
<1>1. /\ chat[h].pc = "idle" /\ ~Exists(u) /\ UNCHANGED log
      /\ row' = [row EXCEPT ![u] = Saved(Pending, copy)]
      /\ chat' = [chat EXCEPT ![h] = f]
  BY DEF MessageArrives, At
<1>2. f.task = u /\ f.pc = "preparing" /\ f.mem = copy
  OBVIOUS
<1>3. copy.status = "parsed" /\ Saved(Pending, copy).status = "parsed"
  BY PendingInUse, InUseExists
     DEF Pending, advanceState, Saved, mergeTaskForPersistence,
         shouldPreservePersistedStatus, canTransition, TRANSITIONS
<1>4. row'[u].status = "parsed" /\ OnlyRow(u)
  BY <1>1, <1>3 DEF OnlyRow, Inv, IndInv, TypeOK
<1> HIDE DEF f, copy
<1>5. \A t \in Tasks : SameLog(t)
  BY <1>1 DEF SameLog
<1>6. ASSUME NEW t \in Tasks, t # u PROVE Accounted(t)'
  BY <1>1, <1>2, <1>4, <1>5, <1>6, TakeUpKept, KeptAccounted
<1>7. Accounted(u)'
  <2>1. chat'[h] = f /\ \A g \in Handlers : g # h => chat'[g] = chat[g]
    BY <1>1 DEF Inv, IndInv, TypeOK
  <2>2. /\ \A g \in Handlers : ~Works(chat[g], u)
        /\ ~Works(research, u) /\ ~Works(jules, u)
    BY <1>1, FramesNow DEF Inv, FrameOK, Works
  <2>3. Untouched(log[u])' /\ Earned(u)
    BY <1>1 DEF Inv, ApprovalsAccounted, Accounted, Untouched
  <2>4. Prepared(u)'
    BY <1>1, <1>2, <1>3, <1>4, <2>1, <2>2, <2>3 DEF Prepared, Works
  <2>5. Notifying(u)' = {}
    BY <1>2, <2>1, <2>2 DEF Notifying, Works
  <2>6. Cardinality(Notifying(u)') = 0
    BY <2>5, FS_EmptySet
  <2>7. Earned(u)'
    BY <2>3, <2>6 DEF Earned, Untouched
  <2> QED BY <2>3, <2>4, <2>7 DEF Accounted
<1> QED BY <1>6, <1>7 DEF ApprovalsAccounted

\* A task that comes to exist without a handler.
LEMMA OpensAccounted ==
    ASSUME Inv, SoundStep, NEW u \in Tasks,
           \/ \E h \in Handlers : MessageBlocked(h, u)
           \/ Enqueue(u),
           UNCHANGED <<chat, research, jules>>
    PROVE  ApprovalsAccounted' /\ OnlyRow(u) /\ ~Exists(u) /\ UNCHANGED log
<1>1. ~Exists(u) /\ UNCHANGED log
  BY DEF MessageBlocked, Enqueue
<1>2. OnlyRow(u)
  BY SavesOneRow DEF MessageBlocked, Enqueue, Inv
<1>3. \A t \in Tasks : SameLog(t)
  BY <1>1 DEF SameLog
<1>4. \A t \in Tasks : Kept(t)
  BY <1>1, <1>2, <1>3, NobodyPrepares, OutsideKept
<1> QED BY <1>1, <1>2, <1>4, KeptAccounted DEF ApprovalsAccounted

\* The handler that prepares a task is alone with it, so no approval of it is
\* under way.
LEMMA PreparesAlone ==
    ASSUME Inv, NEW h \in Handlers, chat[h].pc = "preparing"
    PROVE  /\ chat[h].task \in Tasks /\ Exists(chat[h].task)
           /\ Untouched(log[chat[h].task])
           /\ row[chat[h].task].status = "parsed" /\ chat[h].mem.status = "parsed"
           /\ \A g \in Handlers \ {h} : ~Works(chat[g], chat[h].task)
<1>1. chat[h].task \in Tasks /\ Exists(chat[h].task)
  BY FramesNow DEF FrameOK, Inv
<1>2. Prepared(chat[h].task)
  BY <1>1 DEF Inv, ApprovalsAccounted, Accounted
<1> QED BY <1>1, <1>2 DEF Prepared, Works

\* A task that a handler stops preparing is held, or started, for the first time.
LEMMA PreparedAccounted ==
    ASSUME Inv, SoundStep, NEW h \in Handlers, HoldForApproval(h) \/ LaunchNow(h),
           UNCHANGED <<research, jules>>
    PROVE  ApprovalsAccounted'
<1>0. chat[h].pc = "preparing"
  BY DEF HoldForApproval, LaunchNow, At
<1>u. PICK u \in Tasks : u = chat[h].task
  BY <1>0, PreparesAlone
<1>1. /\ chat[h].pc = "preparing"
      /\ \E pc \in {"prompting", "executing"} : \E copy :
            Goto(h, pc, copy) /\ SaveTwice(u, chat[h].mem, copy)
      /\ \/ Log(u, [log[u] EXCEPT !.held = TRUE])
         \/ Log(u, [log[u] EXCEPT !.launches = @ + 1])
  BY <1>u DEF HoldForApproval, LaunchNow, At
<1>2. /\ u \in Tasks /\ Exists(u) /\ Untouched(log[u])
      /\ \A g \in Handlers \ {h} : ~Works(chat[g], u)
  BY <1>0, <1>u, PreparesAlone
<1>3. PICK f : /\ chat' = [chat EXCEPT ![h] = f]
               /\ f.pc \in {"prompting", "executing"} /\ f.task = u
  BY <1>0, <1>1, <1>u, GotoFrame DEF Inv
<1>4. OnlyRow(u)
  BY <1>1, <1>2, SavesOneRow DEF Inv
<1>5. log \in [Tasks -> Logs]
  BY DEF Inv, IndInv, TypeOK
<1>6. ASSUME NEW t \in Tasks, t # u PROVE Accounted(t)'
  <2>1. SameLog(t)
    BY <1>1, <1>2, <1>5, <1>6 DEF Log, SameLog
  <2> QED BY <1>0, <1>3, <1>4, <1>u, <2>1, HandlerKept, KeptAccounted
<1>7. Accounted(u)'
  <2>1. chat'[h] = f /\ \A g \in Handlers : g # h => chat'[g] = chat[g]
    BY <1>3 DEF Inv, IndInv, TypeOK
  <2>2. Notifying(u)' = {} /\ Prepared(u)'
    BY <1>2, <1>3, <2>1 DEF Notifying, Prepared, Works
  <2>3. Cardinality(Notifying(u)') = 0
    BY <2>2, FS_EmptySet
  <2>4. \/ /\ log'[u].held /\ log'[u].launches = 0 /\ log'[u].approvals = 0
        \/ /\ ~log'[u].held /\ log'[u].launches = 1 /\ log'[u].approvals = 0
    <3>1. log[u] \in Logs
      BY <1>2, <1>5
    <3>2. CASE Log(u, [log[u] EXCEPT !.held = TRUE])
      BY <1>2, <1>5, <3>1, <3>2 DEF Log, Logs, Untouched
    <3>3. CASE Log(u, [log[u] EXCEPT !.launches = @ + 1])
      BY <1>2, <1>5, <3>1, <3>3 DEF Log, Logs, Untouched
    <3> QED BY <1>1, <3>2, <3>3
  <2>5. Earned(u)'
    BY <2>3, <2>4 DEF Earned
  <2>6. Exists(u)'
    BY <1>2 DEF SoundStep, RowStep, Exists
  <2> QED BY <2>2, <2>5, <2>6 DEF Accounted
<1> QED BY <1>6, <1>7 DEF ApprovalsAccounted

\* An approval adds one to what was granted and one handler that will use it.
LEMMA ApproveAccounted ==
    ASSUME Inv, SoundStep, NEW h \in Handlers, NEW u \in Tasks, Approve(h, u),
           UNCHANGED <<research, jules>>
    PROVE  ApprovalsAccounted'
<1> DEFINE copy == advanceState(row[u], "approved")
           f == [pc |-> "notifying", via |-> "approval", task |-> u, mem |-> copy]
<1>1. /\ chat[h].pc = "idle" /\ HasStatus(u, {"waiting_approval"})
      /\ Save(u, copy) /\ chat' = [chat EXCEPT ![h] = f]
      /\ Log(u, [log[u] EXCEPT !.approvals = @ + 1])
  BY DEF Approve, At
<1>2. f.task = u /\ f.pc = "notifying"
  OBVIOUS
<1> HIDE DEF f, copy
<1>3. OnlyRow(u)
  BY <1>1, SavesOneRow DEF Inv
<1>4. log \in [Tasks -> Logs] /\ log[u] \in Logs
  BY DEF Inv, IndInv, TypeOK
<1>5. ASSUME NEW t \in Tasks, t # u PROVE Accounted(t)'
  <2>1. SameLog(t)
    BY <1>1, <1>4, <1>5 DEF Log, SameLog
  <2> QED BY <1>1, <1>2, <1>3, <1>5, <2>1, TakeUpKept, KeptAccounted
<1>6. Accounted(u)'
  <2>1. chat'[h] = f /\ \A g \in Handlers : g # h => chat'[g] = chat[g]
    BY <1>1 DEF Inv, IndInv, TypeOK
  <2>2. Exists(u) /\ row[u].status # "parsed"
    BY <1>1 DEF HasStatus
  <2>3. Prepared(u)'
    BY <1>2, <2>1, <2>2, NobodyPrepares DEF Prepared, Prepares
  <2>4. h \notin Notifying(u) /\ Notifying(u)' = Notifying(u) \cup {h}
    BY <1>1, <1>2, <2>1 DEF Notifying
  <2>5. /\ Cardinality(Notifying(u)) \in Nat
        /\ Cardinality(Notifying(u)') = Cardinality(Notifying(u)) + 1
    BY <2>4, NotifyingFinite, FS_AddElement
  <2>6. /\ log'[u].approvals = log[u].approvals + 1
        /\ log'[u].launches = log[u].launches /\ log'[u].held = log[u].held
        /\ log[u].approvals \in Nat /\ log[u].launches \in Nat
    BY <1>1, <1>4 DEF Log, Logs
  <2>7. Earned(u)
    BY DEF Inv, ApprovalsAccounted, Accounted
  <2>8. Earned(u)'
    BY <2>5, <2>6, <2>7 DEF Earned
  <2>9. Exists(u)'
    BY <2>2 DEF SoundStep, RowStep, Exists
  <2> QED BY <2>3, <2>8, <2>9 DEF Accounted
<1> QED BY <1>5, <1>6 DEF ApprovalsAccounted

\* The handler that resumes an approved task uses up its approval.
LEMMA ResumeAccounted ==
    ASSUME Inv, SoundStep, NEW h \in Handlers, ResumeApproved(h),
           UNCHANGED <<research, jules>>
    PROVE  ApprovalsAccounted'
<1>0. chat[h].pc = "notifying"
  BY DEF ResumeApproved, At
<1>u. PICK u \in Tasks : u = chat[h].task /\ Exists(u)
  BY <1>0, FramesNow DEF FrameOK, Inv
<1>1. /\ \E copy : Goto(h, "executing", copy) /\ Save(u, copy)
      /\ Log(u, [log[u] EXCEPT !.launches = @ + 1])
  BY <1>u DEF ResumeApproved
<1>2. PICK f : /\ chat' = [chat EXCEPT ![h] = f]
               /\ f.pc = "executing" /\ f.task = u
  BY <1>0, <1>1, <1>u, GotoFrame DEF Inv
<1>3. OnlyRow(u)
  BY <1>1, SavesOneRow DEF Inv
<1>4. log \in [Tasks -> Logs] /\ log[u] \in Logs
  BY DEF Inv, IndInv, TypeOK
<1>5. ASSUME NEW t \in Tasks, t # u PROVE Accounted(t)'
  <2>1. SameLog(t)
    BY <1>1, <1>4, <1>5 DEF Log, SameLog
  <2> QED BY <1>0, <1>2, <1>3, <1>u, <2>1, HandlerKept, KeptAccounted
<1>6. Accounted(u)'
  <2>1. chat'[h] = f /\ \A g \in Handlers : g # h => chat'[g] = chat[g]
    BY <1>2 DEF Inv, IndInv, TypeOK
  <2>2. Prepared(u) /\ Earned(u)
    BY DEF Inv, ApprovalsAccounted, Accounted
  <2>3. Prepared(u)'
    BY <1>0, <1>2, <1>u, <2>1, <2>2 DEF Prepared, Works
  <2>4. h \in Notifying(u) /\ Notifying(u)' = Notifying(u) \ {h}
    BY <1>0, <1>2, <1>u, <2>1 DEF Notifying
  <2>5. /\ Cardinality(Notifying(u)) \in Nat
        /\ Cardinality(Notifying(u)') = Cardinality(Notifying(u)) - 1
    BY <2>4, NotifyingFinite, FS_RemoveElement
  <2>6. /\ log'[u].launches = log[u].launches + 1
        /\ log'[u].approvals = log[u].approvals /\ log'[u].held = log[u].held
        /\ log[u].approvals \in Nat /\ log[u].launches \in Nat
    BY <1>1, <1>4 DEF Log, Logs
  <2>7. Earned(u)'
    BY <2>2, <2>5, <2>6 DEF Earned
  <2>8. Exists(u)'
    BY <1>u DEF SoundStep, RowStep, Exists
  <2> QED BY <2>3, <2>7, <2>8 DEF Accounted
<1> QED BY <1>5, <1>6 DEF ApprovalsAccounted

-----------------------------------------------------------------------------
(* All steps.                                                              *)

\* The steps that open, hold, approve or start a task.
Opens(u) == \/ \E h \in Handlers : MessageBlocked(h, u)
            \/ Enqueue(u)

Moves == \E h \in Handlers :
            \/ \E u \in Tasks : MessageArrives(h, u) \/ Approve(h, u)
            \/ HoldForApproval(h) \/ LaunchNow(h) \/ ResumeApproved(h)

\* Every step is quiet, opens a task without a handler, or moves one.
LEMMA Steps ==
    ASSUME Inv, [Next]_vars
    PROVE  \/ Quiet
           \/ \E u \in Tasks : Opens(u) /\ UNCHANGED <<chat, research, jules>>
           \/ Moves /\ UNCHANGED <<research, jules>>
<1>1. ASSUME ChatNext, UNCHANGED <<research, jules, crashes>>
      PROVE  \/ Quiet
             \/ \E u \in Tasks : Opens(u) /\ UNCHANGED <<chat, research, jules>>
             \/ Moves
  <2>1. \A h \in Handlers, t \in Tasks : MessageBlocked(h, t) => Opens(t) /\ UNCHANGED chat
    BY DEF MessageBlocked, Opens
  <2>2. PICK h \in Handlers :
           \/ \E t \in Tasks : \/ MessageArrives(h, t) \/ MessageBlocked(h, t)
                               \/ Approve(h, t) \/ ApproveRefused(h, t) \/ Reject(h, t)
           \/ HoldForApproval(h) \/ LaunchNow(h) \/ ResumeApproved(h)
           \/ \/ PrepareThrows(h) \/ PromptDone(h) \/ PromptThrows(h) \/ NotifyThrows(h)
              \/ \E outcome \in {"success", "failure", "blocked", "awaiting", "pending"} :
                    ExecutorReturns(h, outcome)
              \/ ExecutorThrows(h) \/ ReplyDone(h) \/ ReplyThrows(h)
              \/ ApologyDone(h) \/ ApologyThrows(h)
    BY <1>1 DEF ChatNext
  <2> QED BY <1>1, <2>1, <2>2, ChatQuiet, DecisionQuiet DEF Moves
<1>2. ASSUME ResearchNext, UNCHANGED <<chat, jules, crashes>>
      PROVE  Quiet \/ \E u \in Tasks : Opens(u) /\ UNCHANGED <<chat, research, jules>>
  <2>1. \A t \in Tasks : Enqueue(t) => Opens(t) /\ UNCHANGED research
    BY DEF Enqueue, Opens
  <2> QED BY <1>2, <2>1, ResearchQuiet
<1>3. ASSUME JulesNext, UNCHANGED <<chat, research, crashes>>
      PROVE  Quiet
  BY <1>3, JulesQuiet
<1> QED BY <1>1, <1>2, <1>3, RestQuiet, BootQuiet DEF Next

\* Every step keeps what is accounted for the tasks.
LEMMA StepAccounted ==
    ASSUME Inv, [Next]_vars
    PROVE  Inv'
<1>1. SoundStep
  BY NextSound DEF Inv
<1>2. IndInv'
  BY <1>1, SoundIsInvariant
<1>3. ApprovalsAccounted'
  <2>1. CASE Quiet
    BY <1>1, <2>1, KeptAccounted DEF Quiet, ApprovalsAccounted
  <2>2. CASE \E u \in Tasks : Opens(u) /\ UNCHANGED <<chat, research, jules>>
    BY <1>1, <2>2, OpensAccounted DEF Opens
  <2>3. CASE Moves /\ UNCHANGED <<research, jules>>
    BY <1>1, <2>3, ArrivesAccounted, ApproveAccounted, PreparedAccounted, ResumeAccounted
       DEF Moves
  <2> QED BY <2>1, <2>2, <2>3, Steps
<1> QED BY <1>2, <1>3 DEF Inv

\* Nothing is accounted for at the start.
LEMMA InitAccounted ==
    ASSUME Init
    PROVE  ApprovalsAccounted
<1>1. \A h \in Handlers : chat[h].pc = "idle"
  BY DEF Init, ChatInit, IdleFrame
<1>2. ASSUME NEW t \in Tasks PROVE Accounted(t)
  <2>1. Notifying(t) = {} /\ Prepared(t)
    BY <1>1 DEF Notifying, Prepared, Works
  <2>2. Cardinality(Notifying(t)) = 0
    BY <2>1, FS_EmptySet
  <2>3. log[t] = EmptyLog
    BY DEF Init, StoreInit
  <2>4. Untouched(log[t]) /\ Earned(t)
    BY <2>2, <2>3 DEF EmptyLog, Untouched, Earned
  <2> QED BY <2>1, <2>4 DEF Accounted
<1> QED BY <1>2 DEF ApprovalsAccounted

-----------------------------------------------------------------------------
(* The ledger.                                                             *)

\* Saving a copy that is not terminal leaves a row open or closed as it was.
LEMMA SavedPhase ==
    ASSUME NEW old \in CopiesInUse, NEW copy \in CopiesInUse,
           copy.status \notin Terminal
    PROVE  /\ Saved(old, copy) \in CopiesInUse
           /\ Saved(old, copy).status \in Terminal <=> old.status \in Terminal
<1>1. /\ Saved(old, copy) \in CopiesInUse
      /\ old.status \in Terminal => Saved(old, copy).status \in Terminal
  BY SavedInUse
<1>2. Saved(old, copy) = mergeTaskForPersistence(old, copy)
  BY InUseExists DEF Saved
<1>3. CASE shouldPreservePersistedStatus(old.status, copy.status)
  <2>1. Saved(old, copy).status = old.status
    BY <1>2, <1>3 DEF mergeTaskForPersistence, CopiesInUse, Copies
  <2> QED BY <1>1, <2>1
<1>4. CASE ~shouldPreservePersistedStatus(old.status, copy.status)
  BY <1>1, <1>2, <1>4 DEF mergeTaskForPersistence
<1> QED BY <1>3, <1>4

\* So does a segment that saves such copies, one or two of them.
LEMMA SavesKeepPhase ==
    ASSUME IndInv, NEW u \in Tasks, Exists(u),
           NEW first \in CopiesInUse, NEW copy \in CopiesInUse,
           first.status \notin Terminal, copy.status \notin Terminal,
           Save(u, copy) \/ SaveTwice(u, first, copy)
    PROVE  Phase' = Phase
<1>1. row[u] \in CopiesInUse
  BY RowInUse DEF Exists
<1>2. row'[u] = Saved(row[u], copy) \/ row'[u] = Saved(Saved(row[u], first), copy)
  BY DEF Save, SaveTwice, IndInv, TypeOK
<1>3. row'[u] \in CopiesInUse /\ (row'[u].status \in Terminal <=> row[u].status \in Terminal)
  BY <1>1, <1>2, SavedPhase
<1>4. \A t \in Tasks : t # u => row'[t] = row[t]
  BY SavesOneRow DEF OnlyRow
<1>5. ASSUME NEW t \in Tasks
      PROVE  Exists(t)' = Exists(t) /\ (row'[t].status \in Terminal <=> row[t].status \in Terminal)
  BY <1>1, <1>3, <1>4, InUseExists DEF Exists
<1> QED BY <1>5 DEF Phase

\* A step that is not about approvals or starts leaves the ledger's counters.
LEMMA SameCounters ==
    ASSUME \A t \in Tasks : SameLog(t)
    PROVE  /\ [t \in Tasks |-> log[t].held]' = [t \in Tasks |-> log[t].held]
           /\ [t \in Tasks |-> log[t].approvals]' = [t \in Tasks |-> log[t].approvals]
           /\ [t \in Tasks |-> log[t].launches]' = [t \in Tasks |-> log[t].launches]
BY DEF SameLog

\* A quiet step closes the tasks whose rows become terminal, if any.
LEMMA QuietCloses ==
    ASSUME Inv, SoundStep, Quiet
    PROVE  [Ledger!Next]_(Ledger!vars)
<1> DEFINE T == {t \in Tasks : Phase[t] = "open" /\ Phase'[t] = "closed"}
<1>1. \A t \in Tasks : /\ Exists(t)' <=> Exists(t)
                       /\ HasStatus(t, Terminal) => row'[t].status \in Terminal
  BY DEF Quiet, SoundStep, RowStep, Exists
<1>2. ASSUME NEW t \in Tasks
      PROVE  Phase'[t] = IF t \in T THEN "closed" ELSE Phase[t]
  BY <1>1 DEF Phase, HasStatus
<1>3. Phase' = [t \in Tasks |-> IF t \in T THEN "closed" ELSE Phase[t]]
  <2>1. Phase' = [t \in Tasks |-> Phase'[t]]
    BY DEF Phase
  <2> HIDE DEF T
  <2> QED BY <1>2, <2>1
<1>4. /\ [t \in Tasks |-> log[t].held]' = [t \in Tasks |-> log[t].held]
      /\ [t \in Tasks |-> log[t].approvals]' = [t \in Tasks |-> log[t].approvals]
      /\ [t \in Tasks |-> log[t].launches]' = [t \in Tasks |-> log[t].launches]
  BY SameCounters DEF Quiet, Kept
<1>5. CASE T = {}
  <2>1. Phase' = Phase
    <3>1. Phase = [t \in Tasks |-> Phase[t]]
      BY DEF Phase
    <3> HIDE DEF T
    <3> QED BY <1>3, <1>5, <3>1
  <2> QED BY <1>4, <2>1 DEF Ledger!vars
<1>6. CASE T # {}
  <2>1. T \in SUBSET Tasks /\ \A t \in T : Phase[t] = "open"
    OBVIOUS
  <2> HIDE DEF T
  <2>2. Ledger!Close(T)
    BY <1>3, <1>4, <1>6, <2>1 DEF Ledger!Close
  <2> QED BY <2>1, <2>2 DEF Ledger!Next
<1> QED BY <1>5, <1>6

\* A task that comes to exist, with a handler or without, is opened.
LEMMA OpeningOpens ==
    ASSUME Inv, SoundStep, NEW u \in Tasks, ~Exists(u), OnlyRow(u), UNCHANGED log,
           row'[u] # NoRow
    PROVE  Ledger!Open(u)
<1>1. \A t \in Tasks : SameLog(t)
  BY DEF SameLog
<1>2. Phase[u] = "absent" /\ Phase'[u] \in {"open", "closed"}
  BY DEF Phase, Exists
<1>3. \A t \in Tasks : t # u => Phase'[t] = Phase[t]
  BY DEF Phase, Exists, OnlyRow
<1>4. Phase' = [t \in Tasks |-> Phase'[t]] /\ Phase = [t \in Tasks |-> Phase[t]]
  BY DEF Phase
<1>5. Phase' = [Phase EXCEPT ![u] = Phase'[u]]
  BY <1>3, <1>4
<1> QED BY <1>1, <1>2, <1>5, SameCounters DEF Ledger!Open

\* The task a handler stops preparing is held, or started for the first time.
LEMMA PreparedMoves ==
    ASSUME Inv, NEW h \in Handlers, HoldForApproval(h) \/ LaunchNow(h)
    PROVE  \E u \in Tasks : Ledger!Hold(u) \/ Ledger!Start(u)
<1>0. chat[h].pc = "preparing"
  BY DEF HoldForApproval, LaunchNow, At
<1>1. PICK u \in Tasks : /\ u = chat[h].task /\ Exists(u) /\ Untouched(log[u])
                        /\ row[u].status = "parsed" /\ chat[h].mem.status = "parsed"
  BY <1>0, PreparesAlone
<1>2. chat[h].mem \in CopiesInUse
  BY <1>0, Busy DEF Inv
<1>3. /\ \E s \in {"waiting_approval", "running"} :
            SaveTwice(u, chat[h].mem, advanceState(chat[h].mem, s))
      /\ \/ HoldForApproval(h) /\ Log(u, [log[u] EXCEPT !.held = TRUE])
         \/ LaunchNow(h) /\ Log(u, [log[u] EXCEPT !.launches = @ + 1])
  BY <1>1 DEF HoldForApproval, LaunchNow
<1>4. Phase' = Phase /\ Phase[u] = "open"
  <2>1. PICK s \in {"waiting_approval", "running"} :
           SaveTwice(u, chat[h].mem, advanceState(chat[h].mem, s))
    BY <1>3
  <2>2. /\ advanceState(chat[h].mem, s) \in CopiesInUse
        /\ advanceState(chat[h].mem, s).status \notin Terminal
        /\ chat[h].mem.status \notin Terminal
    BY <1>1, <1>2, AdvanceInUse DEF FlowStatuses, Terminal
  <2>3. Phase' = Phase
    BY <1>1, <1>2, <2>1, <2>2, SavesKeepPhase DEF Inv
  <2> QED BY <1>1, <2>3 DEF Phase, Terminal
<1>5. log \in [Tasks -> Logs] /\ log[u] \in Logs
  BY DEF Inv, IndInv, TypeOK
<1>6. CASE Log(u, [log[u] EXCEPT !.held = TRUE])
  <2>1. /\ log'[u].held = TRUE /\ log'[u].approvals = log[u].approvals
        /\ log'[u].launches = log[u].launches
        /\ \A t \in Tasks : t # u => log'[t] = log[t]
    BY <1>5, <1>6 DEF Log, Logs
  <2>2. Ledger!Hold(u)
    BY <1>1, <1>4, <2>1 DEF Ledger!Hold, Untouched
  <2> QED BY <2>2
<1>7. CASE Log(u, [log[u] EXCEPT !.launches = @ + 1])
  <2>1. /\ log'[u].held = log[u].held /\ log'[u].approvals = log[u].approvals
        /\ log'[u].launches = log[u].launches + 1
        /\ \A t \in Tasks : t # u => log'[t] = log[t]
    BY <1>5, <1>7 DEF Log, Logs
  <2>2. Ledger!Start(u)
    BY <1>1, <1>4, <2>1 DEF Ledger!Start, Untouched
  <2> QED BY <2>2
<1> QED BY <1>3, <1>6, <1>7

\* An approval is recorded for an open task.
LEMMA ApproveGrants ==
    ASSUME Inv, NEW h \in Handlers, NEW u \in Tasks, Approve(h, u)
    PROVE  Ledger!Grant(u)
<1>1. /\ HasStatus(u, {"waiting_approval"}) /\ Save(u, advanceState(row[u], "approved"))
      /\ Log(u, [log[u] EXCEPT !.approvals = @ + 1])
  BY DEF Approve
<1>2. row[u] \in CopiesInUse
  BY <1>1, RowOf DEF Inv
<1>3. /\ advanceState(row[u], "approved") \in CopiesInUse
      /\ advanceState(row[u], "approved").status \notin Terminal
  BY <1>2, AdvanceInUse DEF FlowStatuses, Terminal
<1>4. Phase' = Phase /\ Phase[u] = "open"
  <2>1. Phase' = Phase
    BY <1>1, <1>3, SavesKeepPhase DEF Inv, HasStatus
  <2> QED BY <1>1, <2>1 DEF Phase, HasStatus, Terminal
<1>5. /\ log'[u].held = log[u].held /\ log'[u].approvals = log[u].approvals + 1
      /\ log'[u].launches = log[u].launches
      /\ \A t \in Tasks : t # u => log'[t] = log[t]
  <2>1. log \in [Tasks -> Logs] /\ log[u] \in Logs
    BY DEF Inv, IndInv, TypeOK
  <2> QED BY <1>1, <2>1 DEF Log, Logs
<1> QED BY <1>4, <1>5 DEF Ledger!Grant

\* A resumed task is started, on the approval its handler still holds.
LEMMA ResumeStarts ==
    ASSUME Inv, NEW h \in Handlers, ResumeApproved(h)
    PROVE  \E u \in Tasks : Ledger!Start(u)
<1>0. chat[h].pc = "notifying"
  BY DEF ResumeApproved, At
<1>1. PICK u \in Tasks : u = chat[h].task /\ Exists(u)
  BY <1>0, FramesNow DEF FrameOK, Inv
<1>2. chat[h].mem \in CopiesInUse
  BY <1>0, Busy DEF Inv
<1>3. /\ Save(u, advanceState(chat[h].mem, "running"))
      /\ Log(u, [log[u] EXCEPT !.launches = @ + 1])
  BY <1>1 DEF ResumeApproved
<1>4. /\ advanceState(chat[h].mem, "running") \in CopiesInUse
      /\ advanceState(chat[h].mem, "running").status \notin Terminal
  BY <1>2, AdvanceInUse DEF FlowStatuses, Terminal
<1>5. Phase' = Phase /\ Phase[u] # "absent"
  <2>1. Phase' = Phase
    BY <1>1, <1>3, <1>4, SavesKeepPhase DEF Inv
  <2> QED BY <1>1, <2>1 DEF Phase
<1>6. /\ log'[u].held = log[u].held /\ log'[u].approvals = log[u].approvals
      /\ log'[u].launches = log[u].launches + 1
      /\ \A t \in Tasks : t # u => log'[t] = log[t]
  <2>1. log \in [Tasks -> Logs] /\ log[u] \in Logs
    BY DEF Inv, IndInv, TypeOK
  <2> QED BY <1>3, <2>1 DEF Log, Logs
<1>7. log[u].launches < log[u].approvals + (IF log[u].held THEN 0 ELSE 1)
  <2>1. Cardinality(Notifying(u)) \in Nat /\ IsFiniteSet(Notifying(u))
    BY NotifyingFinite
  <2>2. h \in Notifying(u)
    BY <1>0, <1>1 DEF Notifying
  <2>3. Cardinality(Notifying(u)) # 0
    BY <2>1, <2>2, FS_EmptySet
  <2>4. Earned(u) /\ log[u].launches \in Nat /\ log[u].approvals \in Nat
    BY LogFields DEF Inv, IndInv, ApprovalsAccounted, Accounted
  <2> QED BY <2>1, <2>3, <2>4 DEF Earned
<1>8. Ledger!Start(u)
  BY <1>1, <1>5, <1>6, <1>7 DEF Ledger!Start
<1> QED BY <1>8

\* Every step of the process is a step of the ledger, or none.
LEMMA LedgerStep ==
    ASSUME Inv, [Next]_vars
    PROVE  [Ledger!Next]_(Ledger!vars)
<1>1. SoundStep
  BY NextSound DEF Inv
<1>2. CASE Quiet
  BY <1>1, <1>2, QuietCloses
<1>3. ASSUME NEW u \in Tasks, Opens(u), UNCHANGED <<chat, research, jules>>
      PROVE  Ledger!Next
  <2>1. ~Exists(u) /\ OnlyRow(u) /\ UNCHANGED log
    BY <1>1, <1>3, OpensAccounted DEF Opens
  <2>2. row'[u] # NoRow
    <3>1. CASE Enqueue(u)
      BY <3>1, PendingInUse, InUseExists DEF Enqueue, Inv, IndInv, TypeOK
    <3>2. ASSUME NEW h \in Handlers, MessageBlocked(h, u)
          PROVE  row'[u] # NoRow
      <4> DEFINE copy == advanceState(Pending, "parsed")
                 x == Saved(Saved(Pending, copy), advanceState(copy, "failed"))
      <4>1. copy \in CopiesInUse /\ Saved(Pending, copy) \in CopiesInUse
        BY ParsedInUse
      <4>2. advanceState(copy, "failed") \in CopiesInUse
        BY <4>1, AdvanceInUse DEF FlowStatuses
      <4>3. x \in CopiesInUse
        BY <4>1, <4>2, SavedInUse
      <4>4. row' = [row EXCEPT ![u] = x]
        BY <3>2 DEF MessageBlocked
      <4> HIDE DEF x
      <4> QED BY <4>3, <4>4, InUseExists DEF Inv, IndInv, TypeOK
    <3> QED BY <1>3, <3>1, <3>2 DEF Opens
  <2> QED BY <1>1, <2>1, <2>2, OpeningOpens DEF Ledger!Next
<1>4. ASSUME NEW h \in Handlers, NEW u \in Tasks, MessageArrives(h, u)
      PROVE  Ledger!Next
  <2>1. ~Exists(u) /\ UNCHANGED log
    BY <1>4 DEF MessageArrives
  <2>2. OnlyRow(u)
    BY <1>4, SavesOneRow DEF MessageArrives, Inv
  <2>3. row'[u] # NoRow
    BY <1>4, ParsedInUse, InUseExists DEF MessageArrives, Inv, IndInv, TypeOK
  <2> QED BY <1>1, <2>1, <2>2, <2>3, OpeningOpens DEF Ledger!Next
<1>5. ASSUME Moves PROVE Ledger!Next
  BY <1>4, <1>5, ApproveGrants, PreparedMoves, ResumeStarts DEF Moves, Ledger!Next
<1> QED BY <1>2, <1>3, <1>5, Steps

-----------------------------------------------------------------------------
(* Theorems.                                                               *)

\* IndInv and ApprovalsAccounted together are inductive.
LEMMA AccountedInvariant == Spec => []Inv
<1>1. Init => Inv
  BY InitInvariant, InitAccounted DEF Inv
<1>2. Inv /\ [Next]_vars => Inv'
  BY StepAccounted
<1> QED BY <1>1, <1>2, PTL DEF Spec

\* Every approval not used yet has the one handler that will use it, and a
\* task in preparation has one handler and was never held, approved or started.
THEOREM ApprovalsStayAccounted == Spec => []ApprovalsAccounted
<1>1. Inv => ApprovalsAccounted
  BY DEF Inv
<1> QED BY <1>1, AccountedInvariant, PTL

\* The executor never starts more often than approvals allow, for any number
\* of tasks, handlers, decisions, failures and crashes.
THEOREM LaunchesStayEarned == Spec => []LaunchesAreEarned
<1>1. Inv => LaunchesAreEarned
  <2> SUFFICES ASSUME Inv, NEW t \in Tasks
               PROVE  log[t].launches <= log[t].approvals + (IF log[t].held THEN 0 ELSE 1)
    BY DEF LaunchesAreEarned
  <2>1. Earned(t) /\ log[t].launches \in Nat /\ log[t].approvals \in Nat
    BY LogFields DEF Inv, IndInv, ApprovalsAccounted, Accounted
  <2> QED BY <2>1, NotifyingFinite DEF Earned
<1> QED BY <1>1, AccountedInvariant, PTL

\* The process implements the ledger: tasks are opened once and closed for
\* good, and every start of one is earned.
THEOREM ImplementsLedger == Spec => LedgerSpec
<1>1. Init => Ledger!Init
  <2> SUFFICES ASSUME Init PROVE Ledger!Init
    OBVIOUS
  <2>1. \A t \in Tasks : row[t] = NoRow /\ log[t] = EmptyLog
    BY DEF Init, StoreInit
  <2>2. Phase = [t \in Tasks |-> "absent"]
    BY <2>1 DEF Phase, Exists
  <2>3. \A t \in Tasks : ~log[t].held /\ log[t].approvals = 0 /\ log[t].launches = 0
    BY <2>1 DEF EmptyLog
  <2>4. \A t \in Tasks : log[t].held = FALSE
    BY <2>1 DEF EmptyLog
  <2>5. [t \in Tasks |-> log[t].held] = [t \in Tasks |-> FALSE]
    BY <2>4
  <2> QED BY <2>2, <2>3, <2>5 DEF Ledger!Init
<1>2. Inv /\ [Next]_vars => [Ledger!Next]_(Ledger!vars)
  BY LedgerStep
<1> QED BY <1>1, <1>2, AccountedInvariant, PTL DEF Spec, LedgerSpec, Ledger!Spec
=============================================================================
