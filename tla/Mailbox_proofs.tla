---------------------------- MODULE Mailbox_proofs ----------------------------
(***************************************************************************)
(* Proofs about Mailbox, for any files, messages, handlers and bounds:     *)
(* type correctness, one task per message, the account of executions, the  *)
(* files a watcher at rest leaves behind, the messages it loses, and the   *)
(* refinement of MailboxLedger.                                            *)
(***************************************************************************)
EXTENDS Mailbox, FiniteSetTheorems, TLAPS

-----------------------------------------------------------------------------
(* Copies.                                                                 *)

\* Advancing a copy gives a copy of that status.
LEMMA AdvanceType ==
    ASSUME NEW copy \in Copies, NEW s \in Statuses
    PROVE  advanceState(copy, s) \in Copies /\ advanceState(copy, s).status = s
<1>1. copy.approval \in ApprovalStatuses
  BY DEF Copies
<1>2. resolveApprovalStatus(copy, s) \in ApprovalStatuses
  BY <1>1 DEF resolveApprovalStatus, ApprovalStatuses
<1> QED BY <1>2 DEF advanceState, Copies

\* The row after a save is a copy, with the status of the row or of the copy.
LEMMA SavedType ==
    ASSUME NEW old \in Copies \cup {NoRow}, NEW copy \in Copies
    PROVE  /\ Saved(old, copy) \in Copies
           /\ \/ Saved(old, copy).status = copy.status
              \/ old # NoRow /\ Saved(old, copy).status = old.status
<1>1. CASE old = NoRow
  BY <1>1 DEF Saved
<1>2. CASE old # NoRow
  <2>1. old \in Copies /\ Saved(old, copy) = mergeTaskForPersistence(old, copy)
    BY <1>2 DEF Saved
  <2>2. CASE shouldPreservePersistedStatus(old.status, copy.status)
    BY <1>2, <2>1, <2>2 DEF mergeTaskForPersistence, Copies
  <2>3. CASE ~shouldPreservePersistedStatus(old.status, copy.status)
    BY <2>1, <2>3 DEF mergeTaskForPersistence
  <2> QED BY <2>2, <2>3
<1> QED BY <1>1, <1>2

\* The copy a task is created with.
LEMMA PendingType == Pending \in Copies
BY DEF Pending, Copies, Statuses, ApprovalStatuses

\* The statuses the handlers and the scanner advance to.
LEMMA StatusNames ==
    {"parsed", "planned", "waiting_approval", "approved", "running",
     "completed", "failed", "rejected"} \subseteq Statuses
BY DEF Statuses

\* A failed copy is a copy that does not wait for approval.
LEMMA FailedType ==
    ASSUME NEW copy \in Copies
    PROVE  Failed(copy) \in Copies /\ Failed(copy).status # "waiting_approval"
<1>1. CASE copy.status \in Terminal
  BY <1>1 DEF Failed, Terminal
<1>2. CASE copy.status \notin Terminal
  BY <1>2, AdvanceType, StatusNames DEF Failed
<1> QED BY <1>1, <1>2

\* The frame of an idle handler, and a scanner without a file.
LEMMA RestTypes ==
    /\ IdleFrame \in Frames /\ IdleFrame.pc = "idle" /\ IdleFrame.task = NoTask
    /\ Asleep \in Scanners /\ Asleep.pc = "idle"
    /\ Scan \in Scanners /\ Scan.pc = "reading"
BY PendingType DEF IdleFrame, Frames, ChatPC, Asleep, Scan, Scanners, ScannerPC, Plans

\* The entries of the log that the actions write are entries.
LEMMA LogEntries ==
    ASSUME NEW e \in Logs
    PROVE  /\ [e EXCEPT !.approvals = @ + 1] \in Logs
           /\ [e EXCEPT !.launches = @ + 1] \in Logs
           /\ [e EXCEPT !.rejected = TRUE] \in Logs
           /\ [e EXCEPT !.held = TRUE] \in Logs
<1>1. [e EXCEPT !.approvals = @ + 1] \in Logs
  BY DEF Logs
<1>2. [e EXCEPT !.launches = @ + 1] \in Logs
  BY DEF Logs
<1>3. [e EXCEPT !.rejected = TRUE] \in Logs /\ [e EXCEPT !.held = TRUE] \in Logs
  BY DEF Logs
<1> QED BY <1>1, <1>2, <1>3

-----------------------------------------------------------------------------
(* The operator.                                                           *)

\* What an action of the operator does: it writes the row of one task that
\* exists, never makes it wait for approval, and either decides on it, uses
\* the approval, or leaves the account of the task alone.
OperatorEffect(h) ==
    \E t \in Tasks, x \in Copies, frame \in Frames :
        /\ Exists(t) /\ row' = [row EXCEPT ![t] = x]
        /\ x.status = "waiting_approval" => row[t].status = "waiting_approval"
        /\ chat' = [chat EXCEPT ![h] = frame]
        /\ frame.pc = "idle" => frame.task = NoTask
        /\ frame.pc # "idle" => /\ frame.task = t
                                /\ frame.mem.status # "waiting_approval"
        /\ frame.pc \notin {"idle", "notifying"} => chat[h].task = t
        /\ \/ /\ frame.pc = "notifying"
              /\ row[t].status = "waiting_approval"
              /\ x.status # "waiting_approval"
              /\ log' = [log EXCEPT ![t] = [log[t] EXCEPT !.approvals = @ + 1]]
           \/ /\ frame.pc # "notifying"
              /\ chat[h].pc = "notifying" /\ chat[h].task = t
              /\ log' = [log EXCEPT ![t] = [log[t] EXCEPT !.launches = @ + 1]]
           \/ /\ frame.pc # "notifying"
              /\ \/ log' = log
                 \/ log' = [log EXCEPT ![t] = [log[t] EXCEPT !.rejected = TRUE]]

\* What a handler works on: a task that exists, with a copy that does not
\* wait for approval.
HandlersHaveTasks ==
    \A h \in Handlers :
        /\ chat[h].pc = "idle" => chat[h].task = NoTask
        /\ chat[h].pc # "idle" => /\ chat[h].task \in Tasks
                                  /\ Exists(chat[h].task)
                                  /\ chat[h].mem.status # "waiting_approval"

\* An action that writes one row, moves the handler to a frame and leaves the
\* account alone.
LEMMA PlainEffect ==
    ASSUME NEW h \in Handlers, NEW t \in Tasks, NEW x \in Copies,
           NEW frame \in Frames,
           Exists(t), row' = [row EXCEPT ![t] = x],
           x.status = "waiting_approval" => row[t].status = "waiting_approval",
           chat' = [chat EXCEPT ![h] = frame],
           frame.pc = "idle" => frame.task = NoTask,
           frame.pc # "idle" => /\ frame.task = t /\ chat[h].task = t
                                /\ frame.mem.status # "waiting_approval",
           frame.pc # "notifying",
           log' = log
    PROVE  OperatorEffect(h)
BY DEF OperatorEffect

\* The write of a copy that does not wait for approval.
LEMMA SaveEffect ==
    ASSUME TypeOK, NEW t \in Tasks, Exists(t), NEW copy \in Copies,
           copy.status # "waiting_approval", Save(t, copy)
    PROVE  \E x \in Copies :
              /\ row' = [row EXCEPT ![t] = x]
              /\ x.status = "waiting_approval" => row[t].status = "waiting_approval"
<1>1. row[t] \in Copies \cup {NoRow}
  BY DEF TypeOK
<1>2. row' = [row EXCEPT ![t] = Saved(row[t], copy)]
  BY DEF Save
<1>3. /\ Saved(row[t], copy) \in Copies
      /\ \/ Saved(row[t], copy).status = copy.status
         \/ Saved(row[t], copy).status = row[t].status
  BY <1>1, SavedType
<1> QED BY <1>2, <1>3

\* Two writes of such copies in one segment.
LEMMA SaveTwiceEffect ==
    ASSUME TypeOK, NEW t \in Tasks, Exists(t), NEW first \in Copies, NEW second \in Copies,
           first.status # "waiting_approval", second.status # "waiting_approval",
           SaveTwice(t, first, second)
    PROVE  \E x \in Copies :
              /\ row' = [row EXCEPT ![t] = x]
              /\ x.status = "waiting_approval" => row[t].status = "waiting_approval"
<1>1. row[t] \in Copies \cup {NoRow}
  BY DEF TypeOK
<1> DEFINE y == Saved(row[t], first)
<1>2. y \in Copies /\ (y.status = first.status \/ y.status = row[t].status)
  BY <1>1, SavedType
<1>3. /\ Saved(y, second) \in Copies
      /\ Saved(y, second).status = second.status \/ Saved(y, second).status = y.status
  BY <1>2, SavedType
<1>4. row' = [row EXCEPT ![t] = Saved(y, second)]
  BY DEF SaveTwice
<1> HIDE DEF y
<1> QED BY <1>2, <1>3, <1>4

\* The catch of handleApproval, which fails a row that runs.
LEMMA FailIfRunningEffect ==
    ASSUME TypeOK, NEW t \in Tasks, Exists(t), FailIfRunning(t)
    PROVE  \E x \in Copies :
              /\ row' = [row EXCEPT ![t] = x]
              /\ x.status = "waiting_approval" => row[t].status = "waiting_approval"
<1>1. row[t] \in Copies
  BY DEF TypeOK, Exists
<1>2. CASE HasStatus(t, {"running"})
  <2> DEFINE failed == advanceState(row[t], "failed")
  <2>1. failed \in Copies /\ failed.status = "failed"
    BY <1>1, AdvanceType, StatusNames
  <2>2. row' = [row EXCEPT ![t] = Saved(row[t], failed)]
    BY <1>2 DEF FailIfRunning
  <2>3. Save(t, failed)
    BY <2>2 DEF Save
  <2> HIDE DEF failed
  <2> QED BY <2>1, <2>3, SaveEffect
<1>3. CASE ~HasStatus(t, {"running"})
  <2>1. row' = row /\ row = [row EXCEPT ![t] = row[t]]
    BY <1>3 DEF FailIfRunning, TypeOK
  <2> QED BY <1>1, <2>1
<1> QED BY <1>2, <1>3

\* A frame of a handler whose program counter and copy change.
LEMMA GotoFrame ==
    ASSUME TypeOK, NEW h \in Handlers, NEW pc \in ChatPC, NEW copy \in Copies,
           Goto(h, pc, copy)
    PROVE  \E frame \in Frames :
              /\ chat' = [chat EXCEPT ![h] = frame]
              /\ frame.pc = pc /\ frame.mem = copy /\ frame.task = chat[h].task
<1>1. chat[h] \in Frames
  BY DEF TypeOK
<1> DEFINE frame == [chat[h] EXCEPT !.pc = pc, !.mem = copy]
<1>2. frame \in Frames /\ frame.pc = pc /\ frame.mem = copy /\ frame.task = chat[h].task
  BY <1>1 DEF Frames
<1>3. chat' = [chat EXCEPT ![h] = frame]
  BY <1>1 DEF Goto, TypeOK, Frames
<1> HIDE DEF frame
<1> QED BY <1>2, <1>3

\* Caught, in a frame of either kind.
LEMMA CaughtEffect ==
    ASSUME TypeOK, HandlersHaveTasks, NEW h \in Handlers,
           chat[h].pc # "idle", Caught(h), UNCHANGED log
    PROVE  OperatorEffect(h)
<1> DEFINE t == chat[h].task
<1>1. /\ t \in Tasks /\ Exists(t) /\ chat[h].mem \in Copies
      /\ chat[h].mem.status # "waiting_approval"
  BY DEF HandlersHaveTasks, TypeOK, Frames
<1>2. CASE FailCopy(t, chat[h].mem) /\ Goto(h, "apologising", Failed(chat[h].mem))
  <2> DEFINE failed == Failed(chat[h].mem)
  <2>1. failed \in Copies /\ failed.status # "waiting_approval"
    BY <1>1, FailedType
  <2>2. Save(t, failed)
    BY <1>2 DEF FailCopy
  <2>3. PICK x \in Copies :
           /\ row' = [row EXCEPT ![t] = x]
           /\ x.status = "waiting_approval" => row[t].status = "waiting_approval"
    BY <1>1, <2>1, <2>2, SaveEffect
  <2>4. PICK frame \in Frames :
           /\ chat' = [chat EXCEPT ![h] = frame]
           /\ frame.pc = "apologising" /\ frame.mem = failed /\ frame.task = t
    BY <1>2, <2>1, GotoFrame DEF ChatPC
  <2> HIDE DEF t, failed
  <2>5. chat[h].task = t
    BY DEF t
  <2> QED BY <1>1, <2>1, <2>3, <2>4, <2>5, PlainEffect
<1>3. CASE FailIfRunning(t) /\ Finish(h)
  <2>1. PICK x \in Copies :
           /\ row' = [row EXCEPT ![t] = x]
           /\ x.status = "waiting_approval" => row[t].status = "waiting_approval"
    BY <1>1, <1>3, FailIfRunningEffect
  <2>2. chat' = [chat EXCEPT ![h] = IdleFrame]
    BY <1>3 DEF Finish
  <2> HIDE DEF t
  <2> QED BY <1>1, <2>1, <2>2, RestTypes, PlainEffect
<1> QED BY <1>2, <1>3 DEF Caught

\* Every action of the operator has that effect.
LEMMA OperatorStep ==
    ASSUME TypeOK, HandlersHaveTasks, NEW h \in Handlers, Operator(h)
    PROVE  OperatorEffect(h) /\ UNCHANGED up
<1>1. ASSUME NEW t \in Tasks, Approve(h, t) PROVE OperatorEffect(h) /\ UNCHANGED up
  <2>1. /\ HasStatus(t, {"waiting_approval"}) /\ chat[h].pc = "idle" /\ UNCHANGED up
        /\ row[t] \in Copies /\ row[t] # NoRow /\ row[t].status = "waiting_approval"
    BY <1>1 DEF Approve, At, HasStatus, Exists, TypeOK
  <2> DEFINE copy == advanceState(row[t], "approved")
             frame == [pc |-> "notifying", via |-> "approval", task |-> t, mem |-> copy]
  <2>2. copy \in Copies /\ copy.status = "approved"
    BY <2>1, AdvanceType, StatusNames
  <2>3. Saved(row[t], copy) = copy
    BY <2>1, <2>2 DEF Saved, mergeTaskForPersistence, shouldPreservePersistedStatus,
                      canTransition, TRANSITIONS
  <2>4. row' = [row EXCEPT ![t] = copy]
    BY <1>1, <2>3 DEF Approve, Save
  <2>5. frame \in Frames /\ frame.pc = "notifying" /\ frame.task = t /\ frame.mem = copy
    BY <2>2 DEF Frames, ChatPC
  <2>6. chat' = [chat EXCEPT ![h] = frame]
    BY <1>1 DEF Approve
  <2>7. log' = [log EXCEPT ![t] = [log[t] EXCEPT !.approvals = @ + 1]]
    BY <1>1 DEF Approve, Log, TypeOK
  <2>8. Exists(t)
    BY <2>1 DEF Exists
  <2> HIDE DEF copy, frame
  <2> QED BY <2>1, <2>2, <2>4, <2>5, <2>6, <2>7, <2>8 DEF OperatorEffect
<1>2. ASSUME NEW t \in Tasks, ApproveRefused(h, t) PROVE OperatorEffect(h) /\ UNCHANGED up
  <2>1. Exists(t) /\ chat[h].pc = "idle" /\ UNCHANGED <<up, log, chat>>
    BY <1>2 DEF ApproveRefused, HasStatus, At
  <2>2. PICK x \in Copies :
           /\ row' = [row EXCEPT ![t] = x]
           /\ x.status = "waiting_approval" => row[t].status = "waiting_approval"
    BY <1>2, <2>1, FailIfRunningEffect DEF ApproveRefused
  <2>3. /\ chat[h] \in Frames /\ chat' = [chat EXCEPT ![h] = chat[h]]
        /\ chat[h].task = NoTask
    BY <2>1 DEF TypeOK, HandlersHaveTasks
  <2> QED BY <2>1, <2>2, <2>3, PlainEffect
<1>3. ASSUME NEW t \in Tasks, Reject(h, t) PROVE OperatorEffect(h) /\ UNCHANGED up
  <2>1. Exists(t) /\ chat[h].pc = "idle" /\ UNCHANGED <<up, chat>> /\ row[t] \in Copies
    BY <1>3 DEF Reject, HasStatus, At, Exists, TypeOK
  <2> DEFINE copy == advanceState(row[t], "rejected")
  <2>2. copy \in Copies /\ copy.status = "rejected"
    BY <2>1, AdvanceType, StatusNames
  <2>3. Save(t, copy)
    BY <1>3 DEF Reject
  <2> HIDE DEF copy
  <2>4. PICK x \in Copies :
           /\ row' = [row EXCEPT ![t] = x]
           /\ x.status = "waiting_approval" => row[t].status = "waiting_approval"
    BY <2>1, <2>2, <2>3, SaveEffect
  <2>5. /\ chat[h] \in Frames /\ chat' = [chat EXCEPT ![h] = chat[h]]
        /\ chat[h].task = NoTask
    BY <2>1 DEF TypeOK, HandlersHaveTasks
  <2>6. log' = [log EXCEPT ![t] = [log[t] EXCEPT !.rejected = TRUE]]
    BY <1>3 DEF Reject, Log, TypeOK
  <2> QED BY <2>1, <2>4, <2>5, <2>6 DEF OperatorEffect
<1>4. CASE ResumeApproved(h)
  <2> DEFINE t == chat[h].task
             copy == advanceState(chat[h].mem, "running")
  <2>1. /\ chat[h].pc = "notifying" /\ t \in Tasks /\ Exists(t) /\ chat[h].mem \in Copies
        /\ UNCHANGED up
    BY <1>4 DEF ResumeApproved, At, HandlersHaveTasks, TypeOK, Frames
  <2>2. copy \in Copies /\ copy.status = "running"
    BY <2>1, AdvanceType, StatusNames
  <2>3. /\ Save(t, copy) /\ Goto(h, "executing", copy)
        /\ log' = [log EXCEPT ![t] = [log[t] EXCEPT !.launches = @ + 1]]
    BY <1>4 DEF ResumeApproved, Log, TypeOK
  <2>4. PICK frame \in Frames :
           /\ chat' = [chat EXCEPT ![h] = frame]
           /\ frame.pc = "executing" /\ frame.mem = copy /\ frame.task = t
    BY <2>2, <2>3, GotoFrame DEF ChatPC
  <2> HIDE DEF t, copy
  <2>5. PICK x \in Copies :
           /\ row' = [row EXCEPT ![t] = x]
           /\ x.status = "waiting_approval" => row[t].status = "waiting_approval"
    BY <2>1, <2>2, <2>3, SaveEffect
  <2>6. chat[h].task = t
    BY DEF t
  <2> QED BY <2>1, <2>2, <2>3, <2>4, <2>5, <2>6 DEF OperatorEffect
<1>5. CASE NotifyThrows(h)
  <2>1. /\ chat[h].pc # "idle" /\ chat[h].task \in Tasks /\ Exists(chat[h].task)
        /\ FailIfRunning(chat[h].task) /\ chat' = [chat EXCEPT ![h] = IdleFrame]
        /\ UNCHANGED <<up, log>>
    BY <1>5 DEF NotifyThrows, At, HandlersHaveTasks, Finish
  <2>2. PICK x \in Copies :
           /\ row' = [row EXCEPT ![chat[h].task] = x]
           /\ x.status = "waiting_approval" => row[chat[h].task].status = "waiting_approval"
    BY <2>1, FailIfRunningEffect
  <2> QED BY <2>1, <2>2, RestTypes, PlainEffect
<1>6. ASSUME NEW outcome \in {"success", "failure", "blocked"}, ExecutorReturns(h, outcome)
      PROVE  OperatorEffect(h) /\ UNCHANGED up
  <2> DEFINE t == chat[h].task
             stored == Stored(chat[h].mem, outcome)
             copy == Settled(stored, outcome)
  <2>1. /\ chat[h].pc # "idle" /\ t \in Tasks /\ Exists(t) /\ chat[h].mem \in Copies
        /\ chat[h].mem.status # "waiting_approval" /\ UNCHANGED <<up, log>>
        /\ Goto(h, "replying", copy)
        /\ Save(t, copy) \/ SaveTwice(t, stored, copy)
    BY <1>6 DEF ExecutorReturns, At, HandlersHaveTasks, TypeOK, Frames
  <2>2. stored \in Copies /\ stored.status # "waiting_approval"
    BY <2>1 DEF Stored, Copies
  <2>3. copy \in Copies /\ copy.status # "waiting_approval"
    <3>1. copy = advanceState(stored, "completed") \/ copy = advanceState(stored, "failed")
      BY DEF Settled
    <3> HIDE DEF copy, stored
    <3> QED BY <2>2, <3>1, AdvanceType, StatusNames
  <2> HIDE DEF stored
  <2>4. PICK frame \in Frames :
           /\ chat' = [chat EXCEPT ![h] = frame]
           /\ frame.pc = "replying" /\ frame.mem = copy /\ frame.task = t
    BY <2>1, <2>3, GotoFrame DEF ChatPC
  <2> HIDE DEF copy, t
  <2>5. PICK x \in Copies :
           /\ row' = [row EXCEPT ![t] = x]
           /\ x.status = "waiting_approval" => row[t].status = "waiting_approval"
    BY <2>1, <2>2, <2>3, SaveEffect, SaveTwiceEffect
  <2>6. chat[h].task = t
    BY DEF t
  <2> QED BY <2>1, <2>3, <2>4, <2>5, <2>6, PlainEffect
<1>7. CASE ExecutorThrows(h)
  BY <1>7, CaughtEffect DEF ExecutorThrows, At
<1>8. CASE ReplyDone(h)
  <2>1. /\ chat[h].pc # "idle" /\ chat[h].task \in Tasks /\ Exists(chat[h].task)
        /\ row' = row /\ chat' = [chat EXCEPT ![h] = IdleFrame] /\ UNCHANGED <<up, log>>
        /\ row[chat[h].task] \in Copies
    BY <1>8 DEF ReplyDone, At, HandlersHaveTasks, Finish, TypeOK, Exists
  <2>2. row' = [row EXCEPT ![chat[h].task] = row[chat[h].task]]
    BY <2>1 DEF TypeOK
  <2> QED BY <2>1, <2>2, RestTypes, PlainEffect
<1>9. CASE ReplyThrows(h)
  BY <1>9, CaughtEffect DEF ReplyThrows, At
<1> QED BY <1>1, <1>2, <1>3, <1>4, <1>5, <1>6, <1>7, <1>8, <1>9 DEF Operator

-----------------------------------------------------------------------------
(* The inductive invariant.                                                *)

\* Where the scanner works on a claim without a task, on a task, on a task
\* that is not answered yet, and on a task that nobody may decide on yet.
Claiming   == {"claiming", "announcing"}
Working    == {"planning", "presenting", "asking", "executing", "reporting",
               "answering", "apologising"}
Unanswered == Working \ {"apologising"}
Early      == {"planning", "presenting", "executing"}

\* A task was made from a message that is marked on disk.
TasksAreSeen == \A f \in Tasks : Exists(f) => MessageId[f] \in seen

\* A claimed message is marked, and no file with its id has a task yet.
ClaimIsFresh ==
    scanner.pc \in Claiming =>
        /\ scanner.file \in Tasks /\ MessageId[scanner.file] \in seen
        /\ \A f \in Tasks : MessageId[f] = MessageId[scanner.file] => ~Exists(f)

\* The scanner works on a task that exists.
ScannerHasTask ==
    scanner.pc \in Working => scanner.file \in Tasks /\ Exists(scanner.file)

\* Answers belong to tasks, and the task in work has none before it is written.
AnswersHaveTasks ==
    /\ \A f \in Tasks : answer[f] # NoAnswer => Exists(f)
    /\ scanner.pc \in Unanswered => answer[scanner.file] = NoAnswer

Allowed(f) == log[f].approvals + (IF log[f].held THEN 0 ELSE 1)

\* The account of executions: a task starts at none; until its plan is run or
\* held nobody else works on it; an approval not used yet has one handler.
Accounted ==
    /\ \A f \in Tasks : ~Exists(f) => log[f].launches = 0 /\ ~log[f].held
    /\ scanner.pc \in Early =>
          /\ log[scanner.file].launches = 0 /\ ~log[scanner.file].held
          /\ row[scanner.file].status # "waiting_approval"
          /\ scanner.copy.status # "waiting_approval"
          /\ \A h \in Handlers : chat[h].task # scanner.file
    /\ \A h \in Handlers :
          chat[h].pc = "notifying" =>
              /\ row[chat[h].task].status # "waiting_approval"
              /\ log[chat[h].task].launches < Allowed(chat[h].task)
    /\ \A h, g \in Handlers :
          /\ chat[h].pc = "notifying" /\ chat[g].pc = "notifying"
          /\ chat[h].task = chat[g].task
          => h = g

Ties ==
    /\ HandlersHaveTasks /\ TasksAreSeen /\ ClaimIsFresh /\ ScannerHasTask
    /\ AnswersHaveTasks /\ OneTaskPerMessage
    /\ Accounted /\ LaunchesAreEarned

IndInv == TypeOK /\ Ties

-----------------------------------------------------------------------------
(* Steps that only tell where the scanner is.                              *)

\* A scanner that goes on has no file in work.
LEMMA GoOnFree ==
    ASSUME TypeOK, GoOn
    PROVE  scanner' \in Scanners /\ scanner'.pc \in {"reading", "next"}
<1>1. scanner.todo \in SUBSET Tasks
  BY DEF TypeOK, Scanners
<1>2. CASE scanner.todo = {}
  BY <1>2, RestTypes DEF GoOn
<1>3. CASE scanner.todo # {}
  <2>1. scanner' = [Asleep EXCEPT !.pc = "next", !.todo = scanner.todo]
    BY <1>3 DEF GoOn
  <2> QED BY <1>1, <2>1, RestTypes DEF Scanners, ScannerPC
<1> QED BY <1>2, <1>3

\* So has one that ends its scan.
LEMMA RestFree ==
    ASSUME TypeOK, Rest
    PROVE  /\ scanner' \in Scanners /\ scanner'.pc = "idle"
           /\ watch' \in {"on", "event"} /\ missed' \subseteq Tasks
BY RestTypes DEF Rest, TypeOK, Inbox

\* Nothing of the tasks changes and the scanner has none in work.
LEMMA QuietTies ==
    ASSUME Ties, UNCHANGED <<row, log, chat, answer>>, seen \subseteq seen',
           scanner'.pc \notin Claiming \cup Working
    PROVE  Ties'
<1>1. scanner'.pc \notin Unanswered /\ scanner'.pc \notin Early
  BY DEF Unanswered, Early, Working
<1> QED
  BY <1>1 DEF Ties, HandlersHaveTasks, TasksAreSeen, ClaimIsFresh, ScannerHasTask,
     AnswersHaveTasks, OneTaskPerMessage, Accounted, LaunchesAreEarned, Exists, Allowed

\* The scanner moves on with the same file, from a claim to a claim or from a
\* task to a task, and does not come back to a step before the execution.
LEMMA MoveTies ==
    ASSUME Ties, UNCHANGED <<row, log, chat, answer, seen>>,
           scanner'.file = scanner.file,
           scanner'.pc \in Claiming => scanner.pc \in Claiming,
           scanner'.pc \in Working => scanner.pc \in Working,
           scanner'.pc \in Unanswered => scanner.pc \in Unanswered,
           scanner'.pc \notin Early
    PROVE  Ties'
BY DEF Ties, HandlersHaveTasks, TasksAreSeen, ClaimIsFresh, ScannerHasTask,
   AnswersHaveTasks, OneTaskPerMessage, Accounted, LaunchesAreEarned, Exists, Allowed

\* The scanner writes the row of its task, and, before or at the execution,
\* its account; then it keeps the task or has none.
LEMMA WriteTies ==
    ASSUME TypeOK, Ties, scanner.pc \in Working,
           NEW x \in Copies, row' = [row EXCEPT ![scanner.file] = x],
           UNCHANGED <<chat, answer, seen>>,
           x.status = "waiting_approval"
              => scanner.pc \in Early \/ row[scanner.file].status = "waiting_approval",
           scanner'.pc \notin Claiming,
           scanner'.pc \in Working => scanner'.file = scanner.file,
           scanner'.pc \in Unanswered => scanner.pc \in Unanswered,
           scanner'.pc \in Early => /\ scanner.pc \in Early
                                    /\ x.status # "waiting_approval"
                                    /\ scanner'.copy.status # "waiting_approval",
           NEW e \in Logs,
           e.launches <= e.approvals + (IF e.held THEN 0 ELSE 1),
           scanner'.pc \in Early => e.launches = 0 /\ ~e.held,
           \/ log' = log
           \/ scanner.pc \in Early /\ log' = [log EXCEPT ![scanner.file] = e]
    PROVE  Ties'
<1> DEFINE f == scanner.file
<1>1. f \in Tasks /\ Exists(f)
  BY DEF Ties, ScannerHasTask
<1>2. x # NoRow
  BY StoreAssumption
<1>3. \A g \in Tasks : Exists(g)' <=> Exists(g)
  BY <1>1, <1>2 DEF Exists, TypeOK
<1>4. /\ log'[f] = log[f] \/ log'[f] = e
      /\ \A g \in Tasks : g # f => log'[g] = log[g] /\ row'[g] = row[g]
      /\ row'[f] = x
  BY <1>1 DEF TypeOK
<1>5. HandlersHaveTasks'
  BY <1>3 DEF Ties, HandlersHaveTasks
<1>6. TasksAreSeen' /\ OneTaskPerMessage'
  BY <1>3 DEF Ties, TasksAreSeen, OneTaskPerMessage
<1>7. ClaimIsFresh' /\ ScannerHasTask'
  BY <1>1, <1>3 DEF ClaimIsFresh, ScannerHasTask
<1>8. AnswersHaveTasks'
  <2>1. scanner'.pc \in Unanswered => scanner'.pc \in Working
    BY DEF Unanswered
  <2> QED BY <1>3, <2>1 DEF Ties, AnswersHaveTasks
<1>9. LaunchesAreEarned'
  BY <1>4 DEF Ties, LaunchesAreEarned
<1>10. Accounted'
  <2>1. \A g \in Tasks : ~Exists(g)' => log'[g].launches = 0 /\ ~log'[g].held
    BY <1>1, <1>3, <1>4 DEF Ties, Accounted
  <2>2. scanner'.pc \in Early =>
           /\ log'[scanner'.file].launches = 0 /\ ~log'[scanner'.file].held
           /\ row'[scanner'.file].status # "waiting_approval"
           /\ scanner'.copy.status # "waiting_approval"
           /\ \A h \in Handlers : chat'[h].task # scanner'.file
    <3>1. scanner'.pc \in Early => scanner'.file = f /\ scanner.pc \in Early
      BY DEF Early, Working
    <3> QED BY <1>1, <1>4, <3>1 DEF Ties, Accounted
  <2>3. ASSUME NEW h \in Handlers, chat'[h].pc = "notifying"
        PROVE  /\ row'[chat'[h].task].status # "waiting_approval"
               /\ log'[chat'[h].task].launches < Allowed(chat[h].task)'
    <3>1. /\ chat[h].pc = "notifying" /\ chat[h].task \in Tasks
          /\ chat'[h] = chat[h]
      BY <2>3 DEF Ties, HandlersHaveTasks
    <3>2. CASE chat[h].task = f
      <4>1. scanner.pc \notin Early
        BY <3>2 DEF Ties, Accounted
      <4> QED BY <1>4, <3>1, <3>2, <4>1 DEF Ties, Accounted, Allowed
    <3>3. CASE chat[h].task # f
      BY <1>4, <3>1, <3>3 DEF Ties, Accounted, Allowed
    <3> QED BY <3>2, <3>3
  <2>4. \A h, g \in Handlers :
           /\ chat'[h].pc = "notifying" /\ chat'[g].pc = "notifying"
           /\ chat'[h].task = chat'[g].task
           => h = g
    BY DEF Ties, Accounted
  <2> QED BY <2>1, <2>2, <2>3, <2>4 DEF Accounted
<1> QED BY <1>5, <1>6, <1>7, <1>8, <1>9, <1>10 DEF Ties

-----------------------------------------------------------------------------
(* The actions.                                                            *)

\* A decision, or a step of the execution it starts, keeps the invariant.
LEMMA OperatorKeeps ==
    ASSUME IndInv, NEW h \in Handlers, Operator(h), UNCHANGED <<disk, memory, counts>>
    PROVE  IndInv'
<1> USE DEF IndInv
<1>1. UNCHANGED <<up, dir, seen, answer, processed, watch, scanner, faults, crashes, missed>>
  BY OperatorStep DEF disk, memory, counts, Ties
<1>2. PICK t \in Tasks, x \in Copies, frame \in Frames :
        /\ Exists(t) /\ row' = [row EXCEPT ![t] = x]
        /\ x.status = "waiting_approval" => row[t].status = "waiting_approval"
        /\ chat' = [chat EXCEPT ![h] = frame]
        /\ frame.pc = "idle" => frame.task = NoTask
        /\ frame.pc # "idle" => /\ frame.task = t
                                /\ frame.mem.status # "waiting_approval"
        /\ frame.pc \notin {"idle", "notifying"} => chat[h].task = t
        /\ \/ /\ frame.pc = "notifying"
              /\ row[t].status = "waiting_approval"
              /\ x.status # "waiting_approval"
              /\ log' = [log EXCEPT ![t] = [log[t] EXCEPT !.approvals = @ + 1]]
           \/ /\ frame.pc # "notifying"
              /\ chat[h].pc = "notifying" /\ chat[h].task = t
              /\ log' = [log EXCEPT ![t] = [log[t] EXCEPT !.launches = @ + 1]]
           \/ /\ frame.pc # "notifying"
              /\ \/ log' = log
                 \/ log' = [log EXCEPT ![t] = [log[t] EXCEPT !.rejected = TRUE]]
  BY OperatorStep DEF OperatorEffect, Ties
<1>3. x # NoRow
  BY StoreAssumption
<1>4. \A g \in Tasks : Exists(g)' <=> Exists(g)
  BY <1>2, <1>3 DEF Exists, TypeOK
<1>5. /\ row'[t] = x /\ chat'[h] = frame
      /\ \A g \in Tasks : g # t => log'[g] = log[g] /\ row'[g] = row[g]
      /\ \A g \in Handlers : g # h => chat'[g] = chat[g]
  BY <1>2 DEF TypeOK
<1>6. /\ log[t] \in Logs /\ log'[t] \in Logs
      /\ log'[t].held = log[t].held
      /\ \/ frame.pc = "notifying" /\ log'[t].approvals = log[t].approvals + 1
                                   /\ log'[t].launches = log[t].launches
         \/ /\ frame.pc # "notifying" /\ chat[h].pc = "notifying" /\ chat[h].task = t
            /\ log'[t].approvals = log[t].approvals
            /\ log'[t].launches = log[t].launches + 1
         \/ /\ frame.pc # "notifying"
            /\ log'[t].approvals = log[t].approvals
            /\ log'[t].launches = log[t].launches
  <2>1. log[t] \in Logs
    BY DEF TypeOK
  <2>2. \/ /\ frame.pc = "notifying"
           /\ log'[t] = [log[t] EXCEPT !.approvals = @ + 1]
        \/ /\ frame.pc # "notifying" /\ chat[h].pc = "notifying" /\ chat[h].task = t
           /\ log'[t] = [log[t] EXCEPT !.launches = @ + 1]
        \/ /\ frame.pc # "notifying"
           /\ log'[t] = log[t] \/ log'[t] = [log[t] EXCEPT !.rejected = TRUE]
    BY <1>2 DEF TypeOK
  <2>3. /\ [log[t] EXCEPT !.approvals = @ + 1] \in Logs
        /\ [log[t] EXCEPT !.launches = @ + 1] \in Logs
        /\ [log[t] EXCEPT !.rejected = TRUE] \in Logs
    BY <2>1, LogEntries
  <2>4. CASE log'[t] = [log[t] EXCEPT !.approvals = @ + 1] /\ frame.pc = "notifying"
    BY <2>1, <2>3, <2>4 DEF Logs
  <2>5. CASE /\ log'[t] = [log[t] EXCEPT !.launches = @ + 1] /\ frame.pc # "notifying"
             /\ chat[h].pc = "notifying" /\ chat[h].task = t
    BY <2>1, <2>3, <2>5 DEF Logs
  <2>6. CASE log'[t] = log[t] /\ frame.pc # "notifying"
    BY <2>1, <2>6
  <2>7. CASE log'[t] = [log[t] EXCEPT !.rejected = TRUE] /\ frame.pc # "notifying"
    BY <2>1, <2>3, <2>7 DEF Logs
  <2> QED BY <2>2, <2>4, <2>5, <2>6, <2>7
<1>7. TypeOK'
  BY <1>1, <1>2, <1>6 DEF TypeOK
<1>8. HandlersHaveTasks' /\ TasksAreSeen' /\ ClaimIsFresh' /\ ScannerHasTask'
      /\ AnswersHaveTasks' /\ OneTaskPerMessage'
  <2>1. HandlersHaveTasks'
    BY <1>2, <1>4, <1>5 DEF Ties, HandlersHaveTasks
  <2> QED
    BY <1>1, <1>4, <2>1 DEF Ties, TasksAreSeen, ClaimIsFresh, ScannerHasTask,
       AnswersHaveTasks, OneTaskPerMessage
<1>9. \A g \in Tasks : g # t => Allowed(g)' = Allowed(g)
  BY <1>5 DEF Allowed
<1>10. /\ Allowed(t) \in Nat /\ Allowed(t)' \in Nat
       /\ log[t].launches \in Nat /\ log'[t].launches \in Nat
       /\ frame.pc = "notifying" => Allowed(t)' = Allowed(t) + 1
       /\ frame.pc # "notifying" => Allowed(t)' = Allowed(t)
  BY <1>6 DEF Allowed, Logs
<1>11. \A g \in Tasks : log[g].launches <= Allowed(g)
  BY DEF Ties, LaunchesAreEarned, Allowed
<1>12. \A g \in Tasks : log'[g].launches <= Allowed(g)'
  <2>1. log'[t].launches <= Allowed(t)'
    <3>1. chat[h].pc = "notifying" /\ chat[h].task = t => log[t].launches < Allowed(t)
      BY DEF Ties, Accounted
    <3> QED BY <1>6, <1>10, <1>11, <3>1
  <2> QED BY <1>5, <1>9, <1>11, <2>1
<1>13. LaunchesAreEarned'
  BY <1>12 DEF LaunchesAreEarned, Allowed
<1>14. \A g \in Handlers : chat'[g].pc = "notifying" /\ chat'[g].task = t /\ g # h
          => frame.pc # "notifying" /\ ~(chat[h].pc = "notifying" /\ chat[h].task = t)
  BY <1>2, <1>5 DEF Ties, Accounted
<1>15. Accounted'
  <2>1. \A g \in Tasks : ~Exists(g)' => log'[g].launches = 0 /\ ~log'[g].held
    BY <1>2, <1>4, <1>5 DEF Ties, Accounted
  <2>2. scanner'.pc \in Early =>
           /\ log'[scanner'.file].launches = 0 /\ ~log'[scanner'.file].held
           /\ row'[scanner'.file].status # "waiting_approval"
           /\ scanner'.copy.status # "waiting_approval"
           /\ \A g \in Handlers : chat'[g].task # scanner'.file
    <3> SUFFICES ASSUME scanner.pc \in Early
                 PROVE  /\ log'[scanner.file].launches = 0 /\ ~log'[scanner.file].held
                        /\ row'[scanner.file].status # "waiting_approval"
                        /\ scanner.copy.status # "waiting_approval"
                        /\ \A g \in Handlers : chat'[g].task # scanner.file
      BY <1>1
    <3>1. /\ scanner.file \in Tasks /\ scanner.file # NoTask
          /\ log[scanner.file].launches = 0 /\ ~log[scanner.file].held
          /\ row[scanner.file].status # "waiting_approval"
          /\ scanner.copy.status # "waiting_approval"
          /\ \A g \in Handlers : chat[g].task # scanner.file
      BY StoreAssumption DEF Ties, Accounted, ScannerHasTask, Early, Working
    <3>2. CASE scanner.file = t
      <4>1. frame.pc = "idle"
        BY <1>2, <3>1, <3>2
      <4> QED BY <1>2, <1>5, <1>6, <3>1, <3>2, <4>1
    <3>3. CASE scanner.file # t
      BY <1>2, <1>5, <3>1, <3>3
    <3> QED BY <3>2, <3>3
  <2>3. ASSUME NEW g \in Handlers, NEW f \in Tasks, chat'[g].pc = "notifying", chat'[g].task = f
        PROVE  row'[f].status # "waiting_approval" /\ log'[f].launches < Allowed(f)'
    <3>1. CASE g = h
      BY <1>2, <1>5, <1>6, <1>10, <1>11, <2>3, <3>1
    <3>2. CASE g # h
      <4>1. /\ chat[g].pc = "notifying" /\ chat[g].task = f
            /\ row[f].status # "waiting_approval" /\ log[f].launches < Allowed(f)
        BY <1>5, <2>3, <3>2 DEF Ties, Accounted
      <4>2. CASE f = t
        BY <1>2, <1>5, <1>6, <1>10, <1>14, <2>3, <3>2, <4>1, <4>2
      <4>3. CASE f # t
        BY <1>5, <1>9, <4>1, <4>3
      <4> QED BY <4>2, <4>3
    <3> QED BY <3>1, <3>2
  <2>4. \A g, k \in Handlers :
           /\ chat'[g].pc = "notifying" /\ chat'[k].pc = "notifying"
           /\ chat'[g].task = chat'[k].task
           => g = k
    BY <1>2, <1>5, <1>14 DEF Ties, Accounted
  <2>5. \A g \in Handlers : chat'[g].pc = "notifying" => chat'[g].task \in Tasks
    BY <1>8 DEF HandlersHaveTasks
  <2>6. \A g \in Handlers : chat'[g].pc = "notifying" =>
           /\ row'[chat'[g].task].status # "waiting_approval"
           /\ log'[chat'[g].task].launches
                 < log'[chat'[g].task].approvals
                      + (IF log'[chat'[g].task].held THEN 0 ELSE 1)
    BY <2>3, <2>5 DEF Allowed
  <2> QED BY <2>1, <2>2, <2>4, <2>6 DEF Accounted, Allowed
<1> QED BY <1>7, <1>8, <1>13, <1>15 DEF Ties

\* The write of a copy of a task that exists.
LEMMA SaveWrites ==
    ASSUME TypeOK, NEW t \in Tasks, Exists(t), NEW copy \in Copies, Save(t, copy)
    PROVE  \E x \in Copies :
              /\ row' = [row EXCEPT ![t] = x]
              /\ x.status \in {copy.status, row[t].status}
<1>1. row[t] \in Copies \cup {NoRow}
  BY DEF TypeOK
<1> QED BY <1>1, SavedType DEF Save

\* What the scanner holds while it has a task in work.
LEMMA InWork ==
    ASSUME IndInv, scanner.pc \in Working
    PROVE  /\ scanner.file \in Tasks /\ Exists(scanner.file)
           /\ scanner.copy \in Copies /\ scanner \in Scanners
           /\ row[scanner.file] \in Copies /\ log[scanner.file] \in Logs
           /\ log[scanner.file].launches
                 <= log[scanner.file].approvals
                       + (IF log[scanner.file].held THEN 0 ELSE 1)
BY DEF IndInv, Ties, ScannerHasTask, TypeOK, Scanners, Exists, LaunchesAreEarned

\* The scanner with the same file, at another step, is a scanner.
ScannerTo(s, pc, copy) ==
    s \in Scanners /\ s.pc = pc /\ s.copy = copy /\ s.file = scanner.file

\* A scanner that moves to another step, with another copy and plan.
LEMMA ScannerMoves ==
    ASSUME TypeOK, NEW pc \in ScannerPC, NEW copy \in Copies, NEW plan \in Plans,
           NEW v \in {"COMPLETED", "FAILED"}
    PROVE  /\ ScannerTo([scanner EXCEPT !.pc = pc], pc, scanner.copy)
           /\ ScannerTo([scanner EXCEPT !.pc = pc, !.copy = copy], pc, copy)
           /\ ScannerTo([scanner EXCEPT !.pc = pc, !.plan = plan], pc, scanner.copy)
           /\ ScannerTo([scanner EXCEPT !.pc = pc, !.verdict = v], pc, scanner.copy)
           /\ ScannerTo([scanner EXCEPT !.pc = pc, !.copy = copy, !.verdict = v], pc, copy)
<1>1. scanner \in Scanners
  BY DEF TypeOK
<1> QED BY <1>1 DEF Scanners, ScannerTo

\* The catch of processMessageFile, before or after the end of its first write.
LEMMA CaughtKeeps ==
    ASSUME IndInv, scanner.pc \in Unanswered, CaughtFails \/ CaughtThrows,
           UNCHANGED <<up, log, chat, dir, seen, answer, processed, crashes>>,
           faults' \in Nat
    PROVE  IndInv'
<1>1. scanner.pc \in Working
  BY DEF Unanswered
<1>2. TypeOK /\ Ties
  BY DEF IndInv
<1>3. CASE CaughtFails
  <2> DEFINE copy == advanceState(scanner.copy, "failed")
  <2>1. copy \in Copies /\ copy.status = "failed"
    BY <1>1, InWork, AdvanceType, StatusNames
  <2>2. /\ Save(scanner.file, copy) /\ UNCHANGED <<watch, missed>>
        /\ scanner' = [scanner EXCEPT !.pc = "answering", !.copy = copy, !.verdict = "FAILED"]
    BY <1>3 DEF CaughtFails
  <2> HIDE DEF copy
  <2>3. PICK x \in Copies :
           /\ row' = [row EXCEPT ![scanner.file] = x]
           /\ x.status \in {copy.status, row[scanner.file].status}
    BY <1>1, <1>2, <2>1, <2>2, InWork, SaveWrites
  <2>4. scanner' \in Scanners /\ scanner'.pc = "answering" /\ scanner'.file = scanner.file
    <3>1. scanner' = [scanner EXCEPT !.pc = "answering", !.copy = copy, !.verdict = "FAILED"]
      BY <2>2
    <3>2. "answering" \in ScannerPC /\ "nothing" \in Plans
      BY DEF ScannerPC, Plans
    <3>3. ScannerTo([scanner EXCEPT !.pc = "answering", !.copy = copy, !.verdict = "FAILED"],
                    "answering", copy)
      BY <1>2, <2>1, <3>2, ScannerMoves
    <3> QED BY <3>1, <3>3 DEF ScannerTo
  <2>5. Ties'
    BY <1>1, <1>2, <2>1, <2>3, <2>4, InWork, WriteTies DEF Claiming, Working, Unanswered, Early
  <2>6. TypeOK'
    BY <1>2, <2>2, <2>3, <2>4 DEF TypeOK
  <2> QED BY <2>5, <2>6 DEF IndInv
<1>4. CASE CaughtThrows
  <2>1. Rest /\ UNCHANGED row
    BY <1>4 DEF CaughtThrows
  <2>2. Ties'
    BY <1>2, <2>1, RestFree, QuietTies DEF Claiming, Working
  <2>3. TypeOK'
    BY <1>2, <2>1, RestFree DEF TypeOK
  <2> QED BY <2>2, <2>3 DEF IndInv
<1> QED BY <1>3, <1>4

\* Every step of the scanner keeps the invariant.
LEMMA ScannerKeeps ==
    ASSUME IndInv, ScannerStep
    PROVE  IndInv'
<1> USE DEF store, disk, memory, counts, ScannerAt
<1>0. TypeOK /\ Ties /\ scanner \in Scanners
  BY DEF IndInv, TypeOK
<1>1. ASSUME UNCHANGED <<row, up, log, chat, answer, crashes>>, seen' = seen,
             dir' = dir, processed' \subseteq Messages,
             Rest, faults' \in Nat
      PROVE  IndInv'
  <2>1. Ties'
    BY <1>0, <1>1, RestFree, QuietTies DEF Claiming, Working
  <2>2. TypeOK'
    BY <1>0, <1>1, RestFree DEF TypeOK
  <2> QED BY <2>1, <2>2 DEF IndInv
<1>2. ASSUME UNCHANGED <<store, disk, processed, watch, crashes, missed>>,
             GoOn, faults' \in Nat
      PROVE  IndInv'
  <2>1. Ties'
    BY <1>0, <1>2, GoOnFree, QuietTies DEF Claiming, Working
  <2>2. TypeOK'
    BY <1>0, <1>2, GoOnFree DEF TypeOK
  <2> QED BY <2>1, <2>2 DEF IndInv
<1>3. Fault => faults' \in Nat
  BY <1>0 DEF Fault, TypeOK
<1>4. CASE Listing
  <2>1. scanner' \in Scanners /\ scanner'.pc = "next"
    BY <1>0, <1>4 DEF Listing, Scanners, ScannerPC, Inbox
  <2>2. UNCHANGED <<store, disk, processed, watch, counts>>
    BY <1>4 DEF Listing
  <2>3. Ties'
    BY <1>0, <2>1, <2>2, QuietTies DEF Claiming, Working
  <2>4. TypeOK'
    BY <1>0, <2>1, <2>2 DEF TypeOK
  <2> QED BY <2>3, <2>4 DEF IndInv
<1>5. CASE ScanEnds
  BY <1>0, <1>1, <1>5 DEF ScanEnds, TypeOK
<1>6. CASE ReadThrows
  BY <1>0, <1>1, <1>3, <1>6 DEF ReadThrows, ScanThrows, TypeOK
<1>7. ASSUME NEW f \in Tasks, RejectFile(f) PROVE IndInv'
  <2>1. scanner' \in Scanners /\ scanner'.pc = "noting"
    BY <1>0, <1>7 DEF RejectFile, Scanners, ScannerPC
  <2>2. /\ dir' = [dir EXCEPT ![f] = "rejected"] /\ Notify
        /\ UNCHANGED <<store, seen, answer, processed, counts>>
    BY <1>7 DEF RejectFile
  <2>3. Ties'
    BY <1>0, <2>1, <2>2, QuietTies DEF Claiming, Working
  <2>4. TypeOK'
    BY <1>0, <2>1, <2>2 DEF TypeOK, Notify
  <2> QED BY <2>3, <2>4 DEF IndInv
<1>8. ASSUME NEW f \in Tasks, Claim(f) PROVE IndInv'
  <2>1. scanner' \in Scanners /\ scanner'.pc = "claiming" /\ scanner'.file = f
    BY <1>0, <1>8 DEF Claim, Scanners, ScannerPC
  <2>2. /\ MessageId[f] \notin seen /\ seen' = seen \cup {MessageId[f]}
        /\ processed' = processed \cup {MessageId[f]}
        /\ UNCHANGED <<store, dir, answer, watch, counts>>
    BY <1>8 DEF Claim, hasProcessedMessageId
  <2>3. Ties'
    BY <1>0, <2>1, <2>2 DEF Ties, HandlersHaveTasks, TasksAreSeen, ClaimIsFresh,
       ScannerHasTask, AnswersHaveTasks, OneTaskPerMessage, Accounted, LaunchesAreEarned,
       Exists, Allowed, Working, Unanswered, Early
  <2>4. TypeOK'
    BY <1>0, <2>1, <2>2 DEF TypeOK, Messages
  <2> QED BY <2>3, <2>4 DEF IndInv
<1>9. ASSUME NEW f \in Tasks, MarkerThrows(f) PROVE IndInv'
  <2>1. processed' \subseteq Messages
    BY <1>0, <1>9 DEF MarkerThrows, Messages, TypeOK
  <2> QED BY <1>1, <1>3, <1>9, <2>1 DEF MarkerThrows, ScanThrows
<1>10. CASE Noted
  BY <1>0, <1>2, <1>10 DEF Noted, TypeOK
<1>11. CASE Moved
  <2>1. scanner' \in Scanners /\ scanner'.pc = "announcing" /\ scanner'.file = scanner.file
    BY <1>0, <1>11 DEF Moved, Scanners, ScannerPC
  <2>2. /\ scanner.pc = "claiming" /\ dir' = [dir EXCEPT ![scanner.file] = "processed"]
        /\ Notify /\ UNCHANGED <<store, seen, answer, processed, counts>>
    BY <1>11 DEF Moved
  <2>3. Ties'
    BY <1>0, <2>1, <2>2, MoveTies DEF Claiming, Working, Unanswered, Early
  <2>4. TypeOK'
    BY <1>0, <2>1, <2>2 DEF TypeOK, Notify
  <2> QED BY <2>3, <2>4 DEF IndInv
<1>12. CASE BookkeepingThrows
  BY <1>0, <1>1, <1>3, <1>12 DEF BookkeepingThrows, ScanThrows, TypeOK
<1>13. CASE TaskCreated
  <2> DEFINE parsed  == advanceState(Pending, "parsed")
             planned == advanceState(parsed, "planned")
             x       == Saved(Saved(Pending, parsed), planned)
  <2>1. parsed \in Copies /\ planned \in Copies /\ planned.status = "planned"
    BY PendingType, AdvanceType, StatusNames
  <2>2. x \in Copies /\ x # NoRow /\ x.status = "planned"
    <3>1. x = planned
      BY StoreAssumption, PendingType DEF Saved, mergeTaskForPersistence,
         shouldPreservePersistedStatus, canTransition, TRANSITIONS, advanceState, Pending
    <3> HIDE DEF x, planned
    <3> QED BY <2>1, <3>1, StoreAssumption
  <2>3. /\ scanner.pc = "announcing" /\ row' = [row EXCEPT ![scanner.file] = x]
        /\ scanner' = [scanner EXCEPT !.pc = "planning", !.copy = planned]
        /\ UNCHANGED <<log, up, chat, disk, processed, watch, counts>>
    BY <1>13 DEF TaskCreated, OnlyTask
  <2>4. ScannerTo(scanner', "planning", planned)
    <3>1. "planning" \in ScannerPC /\ "nothing" \in Plans
      BY DEF ScannerPC, Plans
    <3>2. ScannerTo([scanner EXCEPT !.pc = "planning", !.copy = planned],
                    "planning", planned)
      BY <1>0, <2>1, <3>1, ScannerMoves
    <3> QED BY <2>3, <3>2
  <2>5. PICK f \in Tasks :
           /\ f = scanner.file /\ MessageId[f] \in seen
           /\ \A g \in Tasks : MessageId[g] = MessageId[f] => ~Exists(g)
    BY <1>0, <2>3 DEF Ties, ClaimIsFresh, Claiming
  <2> HIDE DEF x, planned, parsed
  <2>6. /\ scanner'.pc = "planning" /\ scanner'.file = f
        /\ row'[f] = x /\ \A g \in Tasks : g # f => row'[g] = row[g]
        /\ Exists(f)' /\ \A g \in Tasks : g # f => (Exists(g)' <=> Exists(g))
    BY <1>0, <2>2, <2>3, <2>4, <2>5 DEF ScannerTo, Exists, TypeOK
  <2>7. HandlersHaveTasks' /\ TasksAreSeen' /\ ClaimIsFresh' /\ ScannerHasTask'
    BY <1>0, <2>3, <2>5, <2>6 DEF Ties, HandlersHaveTasks, TasksAreSeen, ClaimIsFresh,
       ScannerHasTask, Claiming
  <2>8. AnswersHaveTasks' /\ OneTaskPerMessage'
    BY <1>0, <2>3, <2>5, <2>6 DEF Ties, AnswersHaveTasks, OneTaskPerMessage
  <2>9. \A h \in Handlers : chat[h].task # f
    BY <1>0, <2>5, StoreAssumption DEF Ties, HandlersHaveTasks
  <2>10. log[f].launches = 0 /\ ~log[f].held
    BY <1>0, <2>5 DEF Ties, Accounted
  <2>11. Accounted' /\ LaunchesAreEarned'
    <3>1. \A g \in Tasks : ~Exists(g)' => log'[g].launches = 0 /\ ~log'[g].held
      BY <1>0, <2>3, <2>6 DEF Ties, Accounted
    <3>2. /\ log'[scanner'.file].launches = 0 /\ ~log'[scanner'.file].held
          /\ row'[scanner'.file].status # "waiting_approval"
          /\ scanner'.copy.status # "waiting_approval"
          /\ \A h \in Handlers : chat'[h].task # scanner'.file
      BY <2>1, <2>2, <2>3, <2>4, <2>6, <2>9, <2>10 DEF ScannerTo
    <3>3. \A h \in Handlers :
             chat'[h].pc = "notifying" =>
                 /\ row'[chat'[h].task].status # "waiting_approval"
                 /\ log'[chat'[h].task].launches < Allowed(chat[h].task)'
      BY <1>0, <2>3, <2>6, <2>9 DEF Ties, Accounted, Allowed, HandlersHaveTasks
    <3>4. \A h, g \in Handlers :
             /\ chat'[h].pc = "notifying" /\ chat'[g].pc = "notifying"
             /\ chat'[h].task = chat'[g].task
             => h = g
      BY <1>0, <2>3 DEF Ties, Accounted
    <3>5. LaunchesAreEarned'
      BY <1>0, <2>3 DEF Ties, LaunchesAreEarned
    <3> QED BY <2>3, <3>1, <3>2, <3>3, <3>4, <3>5 DEF Accounted, Allowed
  <2>12. TypeOK'
    BY <1>0, <2>2, <2>3, <2>4 DEF TypeOK, ScannerTo
  <2> QED BY <2>7, <2>8, <2>11, <2>12 DEF IndInv, Ties
<1>14. ASSUME NEW plan \in Plans, PlanMade(plan) PROVE IndInv'
  <2>1. /\ scanner.pc = "planning" /\ Save(scanner.file, scanner.copy)
        /\ scanner' = [scanner EXCEPT !.pc = "presenting", !.plan = plan]
        /\ UNCHANGED <<log, up, chat, disk, processed, watch, counts>>
    BY <1>14 DEF PlanMade, OnlyTask
  <2>2. ScannerTo(scanner', "presenting", scanner.copy)
    <3>1. "presenting" \in ScannerPC
      BY DEF ScannerPC
    <3>2. ScannerTo([scanner EXCEPT !.pc = "presenting", !.plan = plan],
                    "presenting", scanner.copy)
      BY <1>0, <3>1, PendingType, ScannerMoves
    <3> QED BY <2>1, <3>2
  <2>3. PICK x \in Copies :
           /\ row' = [row EXCEPT ![scanner.file] = x]
           /\ x.status \in {scanner.copy.status, row[scanner.file].status}
    BY <1>0, <2>1, InWork, SaveWrites DEF Working
  <2>4. Ties'
    BY <1>0, <2>1, <2>2, <2>3, InWork, WriteTies
    DEF ScannerTo, Claiming, Working, Unanswered, Early, Ties, Accounted
  <2>5. TypeOK'
    BY <1>0, <2>1, <2>2, <2>3 DEF TypeOK, ScannerTo
  <2> QED BY <2>4, <2>5 DEF IndInv
<1>15. CASE HoldPlan
  <2> DEFINE copy == advanceState(scanner.copy, "waiting_approval")
  <2>1. copy \in Copies /\ copy.status = "waiting_approval"
    BY <1>0, <1>15, InWork, AdvanceType, StatusNames DEF HoldPlan, Working
  <2>2. /\ scanner.pc = "presenting" /\ Save(scanner.file, copy)
        /\ scanner' = [scanner EXCEPT !.pc = "asking", !.copy = copy]
        /\ UNCHANGED <<up, chat, disk, processed, watch, counts>>
    BY <1>15 DEF HoldPlan, OnlyTask
  <2> HIDE DEF copy
  <2>3. ScannerTo(scanner', "asking", copy)
    <3>1. "asking" \in ScannerPC /\ "nothing" \in Plans
      BY DEF ScannerPC, Plans
    <3>2. ScannerTo([scanner EXCEPT !.pc = "asking", !.copy = copy], "asking", copy)
      BY <1>0, <2>1, <3>1, ScannerMoves
    <3> QED BY <2>2, <3>2
  <2>4. PICK x \in Copies :
           /\ row' = [row EXCEPT ![scanner.file] = x]
           /\ x.status \in {copy.status, row[scanner.file].status}
    BY <1>0, <2>1, <2>2, InWork, SaveWrites DEF Working
  <2> DEFINE e == [log[scanner.file] EXCEPT !.held = TRUE]
  <2>5. /\ e \in Logs /\ e.launches = log[scanner.file].launches
        /\ e.approvals \in Nat /\ e.held
    <3>1. log[scanner.file] \in Logs
      BY <2>2, InWork DEF Working
    <3>2. e \in Logs
      BY <3>1, LogEntries
    <3> QED BY <3>1, <3>2 DEF Logs
  <2>6. log' = [log EXCEPT ![scanner.file] = e]
    BY <1>15 DEF HoldPlan, Log
  <2> HIDE DEF e
  <2>7. e.launches <= e.approvals + (IF e.held THEN 0 ELSE 1)
    BY <1>0, <2>2, <2>5 DEF Ties, Accounted, Early
  <2>8. Ties'
    BY <1>0, <2>1, <2>2, <2>3, <2>4, <2>5, <2>6, <2>7, WriteTies
    DEF ScannerTo, Claiming, Working, Unanswered, Early
  <2>9. TypeOK'
    BY <1>0, <2>2, <2>3, <2>4, <2>5, <2>6 DEF TypeOK, ScannerTo
  <2> QED BY <2>8, <2>9 DEF IndInv
<1>16. CASE Asked
  BY <1>0, <1>2, <1>16 DEF Asked, TypeOK
<1>17. CASE RunPlan
  <2> DEFINE copy == advanceState(scanner.copy, "running")
  <2>1. copy \in Copies /\ copy.status = "running"
    BY <1>0, <1>17, InWork, AdvanceType, StatusNames DEF RunPlan, Working
  <2>2. /\ scanner.pc = "presenting" /\ Save(scanner.file, copy)
        /\ scanner' = [scanner EXCEPT !.pc = "executing", !.copy = copy]
        /\ UNCHANGED <<up, chat, disk, processed, watch, counts>>
    BY <1>17 DEF RunPlan, OnlyTask
  <2> HIDE DEF copy
  <2>3. ScannerTo(scanner', "executing", copy)
    <3>1. "executing" \in ScannerPC /\ "nothing" \in Plans
      BY DEF ScannerPC, Plans
    <3>2. ScannerTo([scanner EXCEPT !.pc = "executing", !.copy = copy], "executing", copy)
      BY <1>0, <2>1, <3>1, ScannerMoves
    <3> QED BY <2>2, <3>2
  <2>4. PICK x \in Copies :
           /\ row' = [row EXCEPT ![scanner.file] = x]
           /\ x.status \in {copy.status, row[scanner.file].status}
    BY <1>0, <2>1, <2>2, InWork, SaveWrites DEF Working
  <2>5. log' = log
    BY <1>17 DEF RunPlan
  <2>6. Ties'
    BY <1>0, <2>1, <2>2, <2>3, <2>4, <2>5, InWork, WriteTies
    DEF ScannerTo, Claiming, Working, Unanswered, Early, Ties, Accounted
  <2>7. TypeOK'
    BY <1>0, <2>2, <2>3, <2>4, <2>5 DEF TypeOK, ScannerTo
  <2> QED BY <2>6, <2>7 DEF IndInv
<1>18. ASSUME NEW outcome \in {"confirm", "blocked", "failure", "success"},
              GatewayDecides(outcome)
       PROVE  IndInv'
  <2> DEFINE done == [scanner.copy EXCEPT !.result = (outcome = "success")]
             copy == advanceState(done, GatewayStatus(outcome))
             e    == [log[scanner.file] EXCEPT
                         !.held = @ \/ outcome = "confirm",
                         !.launches = IF outcome \in {"confirm", "blocked"} THEN @ ELSE @ + 1]
  <2>1. /\ scanner.pc = "executing" /\ Save(scanner.file, copy)
        /\ scanner' = [scanner EXCEPT !.pc = "reporting", !.copy = copy]
        /\ log' = [log EXCEPT ![scanner.file] = e]
        /\ UNCHANGED <<up, chat, disk, processed, watch, counts>>
    BY <1>18 DEF GatewayDecides, OnlyTask, Log
  <2>2. scanner.copy \in Copies /\ log[scanner.file] \in Logs
    BY <2>1, InWork DEF Working
  <2>3. copy \in Copies
    <3>1. done \in Copies
      BY <2>2 DEF Copies
    <3>2. GatewayStatus(outcome) \in Statuses
      BY DEF GatewayStatus, Statuses
    <3> HIDE DEF done
    <3> QED BY <3>1, <3>2, AdvanceType
  <2>4. /\ e \in Logs /\ e.approvals \in Nat
        /\ e.launches <= e.approvals + (IF e.held THEN 0 ELSE 1)
    <3>1. log[scanner.file].launches = 0 /\ ~log[scanner.file].held
      BY <1>0, <2>1 DEF Ties, Accounted, Early
    <3> DEFINE k == log[scanner.file]
    <3>2. k \in Logs /\ k.launches = 0 /\ ~k.held /\ k.approvals \in Nat
      BY <2>2, <3>1 DEF Logs
    <3>3. CASE outcome = "confirm"
      <4>1. e = [k EXCEPT !.held = TRUE]
        BY <3>2, <3>3 DEF Logs
      <4> HIDE DEF e, k
      <4>2. e \in Logs
        BY <3>2, <4>1, LogEntries
      <4>3. e.launches = 0 /\ e.approvals = k.approvals
        BY <3>2, <4>1 DEF Logs
      <4> QED BY <3>2, <4>2, <4>3
    <3>4. CASE outcome = "blocked"
      <4>1. e = k
        BY <3>2, <3>4 DEF Logs
      <4> HIDE DEF e, k
      <4> QED BY <3>2, <4>1
    <3>5. CASE outcome \in {"failure", "success"}
      <4>1. e = [k EXCEPT !.launches = @ + 1]
        BY <3>2, <3>5 DEF Logs
      <4> HIDE DEF e, k
      <4>2. e \in Logs
        BY <3>2, <4>1, LogEntries
      <4>3. e.launches = 1 /\ e.approvals = k.approvals /\ ~e.held
        BY <3>2, <4>1 DEF Logs
      <4> QED BY <3>2, <4>2, <4>3
    <3> QED BY <3>3, <3>4, <3>5
  <2> HIDE DEF done, copy, e
  <2>5. ScannerTo(scanner', "reporting", copy)
    <3>1. "reporting" \in ScannerPC /\ "nothing" \in Plans
      BY DEF ScannerPC, Plans
    <3>2. ScannerTo([scanner EXCEPT !.pc = "reporting", !.copy = copy], "reporting", copy)
      BY <1>0, <2>3, <3>1, ScannerMoves
    <3> QED BY <2>1, <3>2
  <2>6. PICK x \in Copies :
           /\ row' = [row EXCEPT ![scanner.file] = x]
           /\ x.status \in {copy.status, row[scanner.file].status}
    BY <1>0, <2>1, <2>3, InWork, SaveWrites DEF Working
  <2>7. Ties'
    BY <1>0, <2>1, <2>3, <2>4, <2>5, <2>6, WriteTies
    DEF ScannerTo, Claiming, Working, Unanswered, Early
  <2>8. TypeOK'
    BY <1>0, <2>1, <2>4, <2>5, <2>6 DEF TypeOK, ScannerTo
  <2> QED BY <2>7, <2>8 DEF IndInv
<1>19. CASE Reported
  <2>1. /\ scanner.pc = "reporting"
        /\ scanner' = [scanner EXCEPT !.pc = "answering", !.verdict = "COMPLETED"]
        /\ UNCHANGED <<row, log, up, chat, disk, processed, watch, counts>>
    BY <1>19 DEF Reported, OnlyTask
  <2>2. ScannerTo(scanner', "answering", scanner.copy)
    <3>1. "answering" \in ScannerPC /\ "nothing" \in Plans
      BY DEF ScannerPC, Plans
    <3>2. ScannerTo([scanner EXCEPT !.pc = "answering", !.verdict = "COMPLETED"],
                    "answering", scanner.copy)
      BY <1>0, <3>1, PendingType, ScannerMoves
    <3> QED BY <2>1, <3>2
  <2>3. Ties'
    BY <1>0, <2>1, <2>2, MoveTies DEF ScannerTo, Claiming, Working, Unanswered, Early
  <2>4. TypeOK'
    BY <1>0, <2>1, <2>2 DEF TypeOK, ScannerTo
  <2> QED BY <2>3, <2>4 DEF IndInv
<1>20. CASE StepThrows
  <2>1. CASE scanner.pc \in Unanswered
    BY <1>3, <1>20, <2>1, CaughtKeeps DEF StepThrows
  <2> QED BY <1>20, <2>1 DEF StepThrows, Unanswered, Working
<1>21. CASE CannotComplete
  BY <1>0, <1>21, CaughtKeeps DEF CannotComplete, Unanswered, Working, TypeOK
<1>22. CASE Answered
  <2>1. /\ scanner.pc = "answering" /\ AfterAnswer
        /\ answer' = [answer EXCEPT ![scanner.file] = scanner.verdict]
        /\ UNCHANGED <<store, dir, seen, processed, watch, counts>>
    BY <1>22 DEF Answered
  <2>2. /\ scanner' \in Scanners /\ scanner'.pc \in {"apologising", "reading", "next"}
        /\ scanner'.pc = "apologising" => scanner'.file = scanner.file
    <3>1. CASE scanner.verdict = "FAILED"
      <4>1. scanner' = [scanner EXCEPT !.pc = "apologising"]
        BY <2>1, <3>1 DEF AfterAnswer
      <4>2. "apologising" \in ScannerPC /\ "nothing" \in Plans
        BY DEF ScannerPC, Plans
      <4>3. ScannerTo([scanner EXCEPT !.pc = "apologising"], "apologising", scanner.copy)
        BY <1>0, <4>2, PendingType, ScannerMoves
      <4> QED BY <4>1, <4>3 DEF ScannerTo
    <3>2. CASE scanner.verdict # "FAILED"
      BY <1>0, <2>1, <3>2, GoOnFree DEF AfterAnswer
    <3> QED BY <3>1, <3>2
  <2>3. scanner.file \in Tasks /\ Exists(scanner.file)
    BY <2>1, InWork DEF Working
  <2>4. Ties'
    <3>1. AnswersHaveTasks'
      BY <1>0, <2>1, <2>2, <2>3 DEF AnswersHaveTasks, Exists, Ties, TypeOK, Unanswered, Working
    <3>2. HandlersHaveTasks' /\ TasksAreSeen' /\ ClaimIsFresh' /\ ScannerHasTask'
          /\ OneTaskPerMessage'
      BY <1>0, <2>1, <2>2, <2>3 DEF Ties, HandlersHaveTasks, TasksAreSeen, ClaimIsFresh,
         ScannerHasTask, OneTaskPerMessage, Exists, Claiming, Working
    <3>3. Accounted' /\ LaunchesAreEarned'
      BY <1>0, <2>1, <2>2 DEF Ties, Accounted, LaunchesAreEarned, Exists, Allowed, Early
    <3> QED BY <3>1, <3>2, <3>3 DEF Ties
  <2>5. TypeOK'
    BY <1>0, <2>1, <2>2 DEF TypeOK, Scanners
  <2> QED BY <2>4, <2>5 DEF IndInv
<1>23. CASE AnswerThrows
  <2>1. /\ scanner.pc = "answering" /\ AfterAnswer /\ Fault
        /\ UNCHANGED <<store, disk, processed, watch, crashes, missed>>
    BY <1>23 DEF AnswerThrows
  <2>2. /\ scanner' \in Scanners /\ scanner'.pc \in {"apologising", "reading", "next"}
        /\ scanner'.pc = "apologising" => scanner'.file = scanner.file
    <3>1. CASE scanner.verdict = "FAILED"
      <4>1. scanner' = [scanner EXCEPT !.pc = "apologising"]
        BY <2>1, <3>1 DEF AfterAnswer
      <4>2. "apologising" \in ScannerPC /\ "nothing" \in Plans
        BY DEF ScannerPC, Plans
      <4>3. ScannerTo([scanner EXCEPT !.pc = "apologising"], "apologising", scanner.copy)
        BY <1>0, <4>2, PendingType, ScannerMoves
      <4> QED BY <4>1, <4>3 DEF ScannerTo
    <3>2. CASE scanner.verdict # "FAILED"
      BY <1>0, <2>1, <3>2, GoOnFree DEF AfterAnswer
    <3> QED BY <3>1, <3>2
  <2>3. ASSUME scanner'.pc = "apologising" PROVE Ties'
    BY <1>0, <2>1, <2>2, <2>3, MoveTies DEF Claiming, Working, Unanswered, Early
  <2>4. ASSUME scanner'.pc # "apologising" PROVE Ties'
    BY <1>0, <2>1, <2>2, <2>4, QuietTies DEF Claiming, Working
  <2>5. Ties'
    BY <2>3, <2>4
  <2>6. TypeOK'
    BY <1>0, <1>3, <2>1, <2>2 DEF TypeOK
  <2> QED BY <2>5, <2>6 DEF IndInv
<1>24. CASE Apologised
  BY <1>0, <1>2, <1>24 DEF Apologised, TypeOK
<1>25. CASE ApologyFails
  BY <1>0, <1>1, <1>3, <1>25 DEF ApologyFails, ScanThrows, TypeOK
<1> QED
  BY <1>4, <1>5, <1>6, <1>7, <1>8, <1>9, <1>10, <1>11, <1>12, <1>13, <1>14, <1>15,
     <1>16, <1>17, <1>18, <1>19, <1>20, <1>21, <1>22, <1>23, <1>24, <1>25
  DEF ScannerStep, RejectUnaccepted, RejectLate, RejectReplay

\* The initial state satisfies the invariant.
LEMMA InitHolds == MailboxInit => IndInv
<1> SUFFICES ASSUME MailboxInit PROVE IndInv
  OBVIOUS
<1>1. TypeOK
  BY RestTypes, MailboxAssumption DEF MailboxInit, StoreInit, ChatInit, TypeOK, EmptyLog,
     Logs, Messages
<1>2. \A f \in Tasks : ~Exists(f)
  BY DEF MailboxInit, StoreInit, Exists
<1>3. scanner.pc = "reading" /\ \A h \in Handlers : chat[h].pc = "idle" /\ chat[h].task = NoTask
  BY RestTypes DEF MailboxInit, ChatInit
<1>4. \A f \in Tasks : /\ log[f].launches = 0 /\ log[f].approvals = 0 /\ ~log[f].held
                       /\ answer[f] = NoAnswer
  BY DEF MailboxInit, StoreInit, EmptyLog
<1>5. Ties
  BY <1>2, <1>3, <1>4 DEF Ties, HandlersHaveTasks, TasksAreSeen, ClaimIsFresh,
     ScannerHasTask, AnswersHaveTasks, OneTaskPerMessage, Accounted, LaunchesAreEarned,
     Claiming, Working, Unanswered, Early
<1> QED BY <1>1, <1>5 DEF IndInv

\* Nothing of the tasks and nothing the scanner holds of them changes.
LEMMA SameTies ==
    ASSUME Ties, UNCHANGED <<row, log, chat, answer, seen, scanner>>
    PROVE  Ties'
BY DEF Ties, HandlersHaveTasks, TasksAreSeen, ClaimIsFresh, ScannerHasTask,
   AnswersHaveTasks, OneTaskPerMessage, Accounted, LaunchesAreEarned, Exists, Allowed

\* The boot fails what ran and changes no other row.
LEMMA BootKeeps ==
    ASSUME IndInv, Boot
    PROVE  IndInv'
<1> USE DEF store, disk, memory, counts
<1>0. TypeOK /\ Ties
  BY DEF IndInv
<1>1. /\ scanner' = Scan /\ up' = TRUE
      /\ row' = [f \in Tasks |-> IF HasStatus(f, {"running"})
                                 THEN Saved(row[f], advanceState(row[f], "failed"))
                                 ELSE row[f]]
      /\ UNCHANGED <<log, chat, disk, processed, watch, counts>>
  BY DEF Boot
<1>2. ASSUME NEW f \in Tasks
      PROVE  /\ row'[f] \in Copies \cup {NoRow}
             /\ (row'[f] = NoRow) <=> (row[f] = NoRow)
             /\ row[f] # NoRow /\ row'[f].status = "waiting_approval"
                   => row[f].status = "waiting_approval"
  <2>1. row[f] \in Copies \cup {NoRow}
    BY <1>0 DEF TypeOK
  <2>2. CASE HasStatus(f, {"running"})
    <3>1. row[f] \in Copies /\ row[f] # NoRow
      BY <2>1, <2>2 DEF HasStatus, Exists
    <3> DEFINE copy == advanceState(row[f], "failed")
    <3>2. copy \in Copies /\ copy.status = "failed"
      BY <3>1, AdvanceType, StatusNames
    <3>3. row'[f] = Saved(row[f], copy)
      BY <1>1, <2>2
    <3> HIDE DEF copy
    <3> QED BY <3>1, <3>2, <3>3, SavedType, StoreAssumption
  <2>3. CASE ~HasStatus(f, {"running"})
    BY <1>1, <2>1, <2>3
  <2> QED BY <2>2, <2>3
<1>3. scanner' \in Scanners /\ scanner'.pc = "reading"
  BY <1>1, RestTypes
<1>4. TypeOK'
  <2>1. row' \in [Tasks -> Copies \cup {NoRow}]
    BY <1>1, <1>2
  <2> QED BY <1>0, <1>1, <1>3, <2>1 DEF TypeOK
<1>5. HandlersHaveTasks' /\ TasksAreSeen' /\ ClaimIsFresh' /\ ScannerHasTask'
      /\ AnswersHaveTasks' /\ OneTaskPerMessage' /\ LaunchesAreEarned'
  BY <1>0, <1>1, <1>2, <1>3 DEF Ties, HandlersHaveTasks, TasksAreSeen, ClaimIsFresh,
     ScannerHasTask, AnswersHaveTasks, OneTaskPerMessage, LaunchesAreEarned, Exists,
     Claiming, Working, Unanswered
<1>6. Accounted'
  BY <1>0, <1>1, <1>2, <1>3 DEF Ties, Accounted, HandlersHaveTasks, Exists, Allowed, Early
<1> QED BY <1>4, <1>5, <1>6 DEF IndInv, Ties

\* Every step keeps the invariant.
LEMMA NextKeeps == IndInv /\ [Next]_vars => IndInv'
<1> SUFFICES ASSUME IndInv, [Next]_vars PROVE IndInv'
  OBVIOUS
<1>0. TypeOK /\ Ties
  BY DEF IndInv
<1>1. ASSUME NEW f \in Tasks, Deposit(f) PROVE IndInv'
  <2>1. /\ dir' = [dir EXCEPT ![f] = "inbox"] /\ Notify
        /\ UNCHANGED <<row, up, log, chat, seen, answer, processed, scanner,
                       faults, crashes, missed>>
    BY <1>1 DEF Deposit, store, counts
  <2>2. Ties'
    BY <1>0, <2>1, SameTies
  <2>3. TypeOK'
    BY <1>0, <2>1 DEF TypeOK, Notify
  <2> QED BY <2>2, <2>3 DEF IndInv
<1>2. CASE WatchEvent
  <2>1. /\ watch' = "on" /\ missed' \in {missed, missed \cup Inbox}
        /\ scanner' = (IF scanner.pc = "idle" THEN Scan ELSE scanner)
        /\ UNCHANGED <<row, up, log, chat, dir, seen, answer, processed, faults, crashes>>
    BY <1>2 DEF WatchEvent, store, disk
  <2>2. Ties'
    <3>1. CASE scanner.pc = "idle"
      BY <1>0, <2>1, <3>1, RestTypes, QuietTies DEF Claiming, Working
    <3>2. CASE scanner.pc # "idle"
      BY <1>0, <2>1, <3>2, SameTies
    <3> QED BY <3>1, <3>2
  <2>3. TypeOK'
    BY <1>0, <2>1, RestTypes DEF TypeOK, Inbox
  <2> QED BY <2>2, <2>3 DEF IndInv
<1>3. CASE ScannerStep
  BY <1>3, ScannerKeeps
<1>4. CASE OperatorActs
  BY <1>4, OperatorKeeps DEF OperatorActs
<1>5. CASE Crash
  <2>1. /\ up' = FALSE /\ crashes' = crashes + 1 /\ watch' = "off" /\ processed' = {}
        /\ scanner' = Asleep /\ chat' = [h \in Handlers |-> IdleFrame]
        /\ UNCHANGED <<row, log, dir, seen, answer, faults, missed>>
    BY <1>5 DEF Crash, disk
  <2>2. scanner'.pc = "idle" /\ \A h \in Handlers : chat'[h].pc = "idle" /\ chat'[h].task = NoTask
    BY <2>1, RestTypes
  <2>3. Ties'
    BY <1>0, <2>1, <2>2 DEF Ties, HandlersHaveTasks, TasksAreSeen, ClaimIsFresh,
       ScannerHasTask, AnswersHaveTasks, OneTaskPerMessage, Accounted, LaunchesAreEarned,
       Exists, Claiming, Working, Unanswered, Early
  <2>4. TypeOK'
    <3>1. chat' \in [Handlers -> Frames] /\ scanner' \in Scanners
      BY <2>1, RestTypes
    <3>2. crashes \in Nat /\ crashes' = crashes + 1
      BY <1>0, <2>1 DEF TypeOK
    <3>3. crashes' \in Nat
      BY <3>2
    <3>4. up' \in BOOLEAN /\ processed' \subseteq Messages /\ watch' \in {"off", "on", "event"}
      BY <2>1
    <3>5. UNCHANGED <<row, log, dir, seen, answer, faults, missed>>
      BY <2>1
    <3> QED BY <1>0, <3>1, <3>3, <3>4, <3>5 DEF TypeOK
  <2> QED BY <2>3, <2>4 DEF IndInv
<1>6. CASE Boot
  BY <1>6, BootKeeps
<1>7. CASE UNCHANGED vars
  <2>1. UNCHANGED <<row, up, log, chat, dir, seen, answer, processed, watch, scanner,
                    faults, crashes, missed>>
    BY <1>7 DEF vars, store, disk, memory, counts
  <2>2. Ties'
    BY <1>0, <2>1, SameTies
  <2>3. TypeOK'
    BY <1>0, <2>1 DEF TypeOK
  <2> QED BY <2>2, <2>3 DEF IndInv
<1> QED BY <1>1, <1>2, <1>3, <1>4, <1>5, <1>6, <1>7 DEF Next

\* The invariant holds in every reachable state.
THEOREM Inductive == Spec => []IndInv
<1>1. MailboxInit => IndInv
  BY InitHolds
<1>2. IndInv /\ [Next]_vars => IndInv'
  BY NextKeeps
<1> QED BY <1>1, <1>2, PTL DEF Spec

\* Type correctness of the mailbox.
THEOREM TypeCorrect == Spec => []TypeOK
<1>1. IndInv => TypeOK
  BY DEF IndInv
<1> QED BY <1>1, Inductive, PTL

\* However often a message is deposited, and whenever the process dies, at
\* most one task is made from it.
THEOREM OneTaskForEver == Spec => []OneTaskPerMessage
<1>1. IndInv => OneTaskPerMessage
  BY DEF IndInv, Ties
<1> QED BY <1>1, Inductive, PTL

\* The plan of a message is executed once if nobody had to approve it, and
\* otherwise once for each approval, by the scanner and the chat together.
THEOREM LaunchesStayEarned == Spec => []LaunchesAreEarned
<1>1. IndInv => LaunchesAreEarned
  BY DEF IndInv, Ties
<1> QED BY <1>1, Inductive, PTL

-----------------------------------------------------------------------------
(* What a watcher at rest leaves in the inbox.                             *)

\* A step of the scanner leaves it at work, or ends its scan.
LEMMA ScannerRests ==
    ASSUME TypeOK, ScannerStep
    PROVE  scanner'.pc # "idle" \/ (Rest /\ dir' = dir)
<1>0. scanner \in Scanners
  BY DEF TypeOK
<1>1. GoOn => scanner'.pc # "idle"
  BY GoOnFree
<1>2. CaughtFails => scanner'.pc # "idle"
  BY <1>0 DEF CaughtFails, Scanners
<1>3. AfterAnswer => scanner'.pc # "idle"
  BY <1>0, <1>1 DEF AfterAnswer, Scanners
<1> USE DEF disk
<1>4. Listing \/ ScanEnds \/ ReadThrows => scanner'.pc # "idle" \/ (Rest /\ dir' = dir)
  BY <1>0 DEF Listing, ScanEnds, ReadThrows, ScanThrows, Scanners
<1>5. ASSUME NEW f \in Tasks,
             RejectFile(f) \/ Claim(f) \/ MarkerThrows(f)
      PROVE  scanner'.pc # "idle" \/ (Rest /\ dir' = dir)
  BY <1>0, <1>5 DEF RejectFile, Claim, MarkerThrows, ScanThrows, Scanners
<1>6. Moved \/ BookkeepingThrows \/ ApologyFails
         => scanner'.pc # "idle" \/ (Rest /\ dir' = dir)
  BY <1>0 DEF Moved, BookkeepingThrows, ApologyFails, ScanThrows, Scanners
<1>7. TaskCreated \/ HoldPlan \/ RunPlan \/ Reported => scanner'.pc # "idle"
  BY <1>0 DEF TaskCreated, HoldPlan, RunPlan, Reported, Scanners
<1>8. ASSUME NEW x, PlanMade(x) \/ GatewayDecides(x) PROVE scanner'.pc # "idle"
  BY <1>0, <1>8 DEF PlanMade, GatewayDecides, Scanners
<1>9. StepThrows \/ CannotComplete => scanner'.pc # "idle" \/ (Rest /\ dir' = dir)
  BY <1>2 DEF StepThrows, CannotComplete, CaughtThrows
<1>10. Noted \/ Asked \/ Answered \/ AnswerThrows \/ Apologised => scanner'.pc # "idle"
  BY <1>1, <1>3 DEF Noted, Asked, Answered, AnswerThrows, Apologised
<1> QED
  BY <1>4, <1>5, <1>6, <1>7, <1>8, <1>9, <1>10
  DEF ScannerStep, RejectUnaccepted, RejectLate, RejectReplay

\* A file stays in the inbox of a watcher at rest only if its event was
\* dropped or its scan was broken off, for any files and any faults.
THEOREM StuckFilesWereMissed == Spec => []StuckNeedsMissedEvent
<1>1. MailboxInit => StuckNeedsMissedEvent
  BY DEF MailboxInit, StuckNeedsMissedEvent
<1>2. ASSUME TypeOK, StuckNeedsMissedEvent, [Next]_vars
      PROVE  StuckNeedsMissedEvent'
  <2>1. ASSUME NEW f \in Tasks, Deposit(f) PROVE StuckNeedsMissedEvent'
    BY <1>2, <2>1 DEF Deposit, Notify, StuckNeedsMissedEvent, TypeOK, store
  <2>2. CASE WatchEvent
    BY <1>2, <2>2, RestTypes DEF WatchEvent, StuckNeedsMissedEvent
  <2>3. CASE ScannerStep
    <3>1. CASE scanner'.pc # "idle"
      BY <3>1 DEF StuckNeedsMissedEvent
    <3>2. CASE Rest /\ dir' = dir
      BY <1>2, <3>2 DEF Rest, StuckNeedsMissedEvent, Inbox
    <3> QED BY <1>2, <2>3, <3>1, <3>2, ScannerRests
  <2>4. CASE OperatorActs \/ UNCHANGED vars
    <3>1. UNCHANGED <<dir, watch, scanner, missed>>
      BY <2>4 DEF OperatorActs, vars, disk, memory, counts
    <3>2. up' => up
      <4>1. CASE OperatorActs
        <5>1. PICK h \in Handlers : Operator(h)
          BY <4>1 DEF OperatorActs
        <5>2. UNCHANGED up
          BY <5>1 DEF Operator, Approve, ApproveRefused, Reject, ResumeApproved,
             NotifyThrows, ExecutorReturns, ExecutorThrows, ReplyDone, ReplyThrows
        <5> QED BY <5>2
      <4>2. CASE UNCHANGED vars
        BY <4>2 DEF vars, store
      <4> QED BY <2>4, <4>1, <4>2
    <3> QED BY <1>2, <3>1, <3>2 DEF StuckNeedsMissedEvent, Inbox
  <2>5. CASE Crash
    BY <2>5 DEF Crash, StuckNeedsMissedEvent
  <2>6. CASE Boot
    BY <2>6, RestTypes DEF Boot, StuckNeedsMissedEvent
  <2> QED BY <1>2, <2>1, <2>2, <2>3, <2>4, <2>5, <2>6 DEF Next
<1> QED BY <1>1, <1>2, TypeCorrect, PTL DEF Spec
-----------------------------------------------------------------------------
(* Which tasks there are.                                                  *)

\* No task appears or vanishes.
SameTasks == \A f \in Tasks : Exists(f)' <=> Exists(f)

\* A task that is saved stays.
LEMMA SaveStays ==
    ASSUME TypeOK, NEW t \in Tasks, Exists(t), NEW copy \in Copies, Save(t, copy)
    PROVE  SameTasks
<1>1. PICK x \in Copies : row' = [row EXCEPT ![t] = x]
  BY SaveWrites
<1> QED BY <1>1, StoreAssumption DEF SameTasks, Exists, TypeOK

\* Only TaskCreated makes a task, and nothing removes one.
LEMMA TasksStay ==
    ASSUME IndInv, [Next]_vars
    PROVE  SameTasks \/ TaskCreated
<1>0. TypeOK /\ Ties
  BY DEF IndInv
<1>1. ASSUME UNCHANGED row PROVE SameTasks
  BY <1>1 DEF SameTasks, Exists
<1>2. ASSUME scanner.pc \in Working, NEW copy \in Copies, Save(scanner.file, copy)
      PROVE  SameTasks
  BY <1>0, <1>2, InWork, SaveStays
<1>3. scanner.pc \in Working => scanner.copy \in Copies
  BY InWork
<1>4. CASE OperatorActs
  <2>1. PICK h \in Handlers : Operator(h)
    BY <1>4 DEF OperatorActs
  <2>2. PICK t \in Tasks, x \in Copies : Exists(t) /\ row' = [row EXCEPT ![t] = x]
    BY <1>0, <2>1, OperatorStep DEF OperatorEffect, Ties
  <2> QED BY <1>0, <2>2, StoreAssumption DEF SameTasks, Exists, TypeOK
<1>5. CASE Boot
  <2>1. /\ \A f \in Tasks : row'[f] = IF HasStatus(f, {"running"})
                                      THEN Saved(row[f], advanceState(row[f], "failed"))
                                      ELSE row[f]
    BY <1>5 DEF Boot
  <2>2. ASSUME NEW f \in Tasks, HasStatus(f, {"running"})
        PROVE  row'[f] # NoRow /\ row[f] # NoRow
    <3>1. row[f] \in Copies /\ row[f] # NoRow
      BY <1>0, <2>2 DEF HasStatus, Exists, TypeOK
    <3>2. advanceState(row[f], "failed") \in Copies
      BY <3>1, AdvanceType, StatusNames
    <3>3. Saved(row[f], advanceState(row[f], "failed")) \in Copies
      BY <3>1, <3>2, SavedType
    <3> QED BY <2>1, <2>2, <3>1, <3>3, StoreAssumption
  <2> QED BY <2>1, <2>2 DEF SameTasks, Exists
<1>6. ASSUME scanner.pc \in Working, CaughtFails \/ CaughtThrows PROVE SameTasks
  <2>1. CASE CaughtFails
    <3>1. advanceState(scanner.copy, "failed") \in Copies
      BY <1>3, <1>6, AdvanceType, StatusNames
    <3> QED BY <1>2, <1>6, <2>1, <3>1 DEF CaughtFails
  <2>2. CASE CaughtThrows
    BY <1>1, <2>2 DEF CaughtThrows
  <2> QED BY <1>6, <2>1, <2>2
<1>7. CASE HoldPlan
  <2>1. scanner.pc \in Working
    BY <1>7 DEF HoldPlan, ScannerAt, Working
  <2>2. advanceState(scanner.copy, "waiting_approval") \in Copies
    BY <1>3, <2>1, AdvanceType, StatusNames
  <2> QED BY <1>2, <1>7, <2>1, <2>2 DEF HoldPlan
<1>8. CASE RunPlan
  <2>1. scanner.pc \in Working
    BY <1>8 DEF RunPlan, ScannerAt, Working
  <2>2. advanceState(scanner.copy, "running") \in Copies
    BY <1>3, <2>1, AdvanceType, StatusNames
  <2> QED BY <1>2, <1>8, <2>1, <2>2 DEF RunPlan
<1>9. ASSUME NEW outcome \in {"confirm", "blocked", "failure", "success"},
             GatewayDecides(outcome)
      PROVE  SameTasks
  <2> DEFINE done == [scanner.copy EXCEPT !.result = (outcome = "success")]
             copy == advanceState(done, GatewayStatus(outcome))
  <2>1. scanner.pc \in Working /\ Save(scanner.file, copy)
    BY <1>9 DEF GatewayDecides, ScannerAt, Working
  <2>2. done \in Copies
    BY <1>3, <2>1 DEF Copies
  <2>3. GatewayStatus(outcome) \in Statuses
    BY DEF GatewayStatus, Statuses
  <2> HIDE DEF done
  <2>4. copy \in Copies
    BY <2>2, <2>3, AdvanceType
  <2> QED BY <1>2, <2>1, <2>4
<1>10. ASSUME NEW plan \in Plans, PlanMade(plan) PROVE SameTasks
  BY <1>2, <1>3, <1>10 DEF PlanMade, ScannerAt, Working
<1>11. CASE StepThrows \/ CannotComplete
  BY <1>6, <1>11 DEF StepThrows, CannotComplete, ScannerAt, Working
<1>12. CASE \/ Listing \/ ScanEnds \/ ReadThrows \/ Noted \/ Moved \/ BookkeepingThrows
            \/ Asked \/ Reported \/ Answered \/ AnswerThrows \/ Apologised \/ ApologyFails
  BY <1>1, <1>12 DEF Listing, ScanEnds, ReadThrows, Noted, Moved, BookkeepingThrows, Asked,
     Reported, Answered, AnswerThrows, Apologised, ApologyFails, store
<1>13. CASE \E f \in Tasks : \/ RejectUnaccepted(f) \/ RejectLate(f) \/ RejectReplay(f)
                             \/ Claim(f) \/ MarkerThrows(f)
  BY <1>1, <1>13 DEF RejectUnaccepted, RejectLate, RejectReplay, RejectFile, Claim,
     MarkerThrows, store
<1>14. CASE ScannerStep
  BY <1>7, <1>8, <1>9, <1>10, <1>11, <1>12, <1>13, <1>14 DEF ScannerStep
<1>15. CASE (\E f \in Tasks : Deposit(f)) \/ WatchEvent \/ Crash \/ UNCHANGED vars
  BY <1>1, <1>15 DEF Deposit, WatchEvent, Crash, vars, store
<1> QED BY <1>4, <1>5, <1>14, <1>15 DEF Next

-----------------------------------------------------------------------------
(* The ledger.                                                             *)

\* Only Claim marks a message on disk, and only Answered writes an answer.
LEMMA DiskStays ==
    ASSUME [Next]_vars
    PROVE  \/ UNCHANGED <<seen, answer>>
           \/ \E f \in Tasks : Claim(f)
           \/ Answered
<1> USE DEF disk, counts, memory
<1>1. CASE OperatorActs \/ Crash \/ Boot \/ WatchEvent \/ UNCHANGED vars
  BY <1>1 DEF OperatorActs, Crash, Boot, WatchEvent, vars
<1>2. ASSUME NEW f \in Tasks, Deposit(f) PROVE UNCHANGED <<seen, answer>>
  BY <1>2 DEF Deposit
<1>3. CASE \/ Listing \/ ScanEnds \/ ReadThrows \/ Noted \/ Moved \/ BookkeepingThrows
           \/ Asked \/ AnswerThrows \/ Apologised \/ ApologyFails
  BY <1>3 DEF Listing, ScanEnds, ReadThrows, Noted, Moved, BookkeepingThrows, Asked,
     AnswerThrows, Apologised, ApologyFails
<1>4. CASE \E f \in Tasks : \/ RejectUnaccepted(f) \/ RejectLate(f) \/ RejectReplay(f)
                            \/ MarkerThrows(f)
  BY <1>4 DEF RejectUnaccepted, RejectLate, RejectReplay, RejectFile, MarkerThrows
<1>5. CASE TaskCreated \/ HoldPlan \/ RunPlan \/ Reported \/ StepThrows \/ CannotComplete
  BY <1>5 DEF TaskCreated, HoldPlan, RunPlan, Reported, StepThrows, CannotComplete, OnlyTask
<1>6. ASSUME NEW plan \in Plans, PlanMade(plan) PROVE UNCHANGED <<seen, answer>>
  BY <1>6 DEF PlanMade, OnlyTask
<1>7. ASSUME NEW outcome \in {"confirm", "blocked", "failure", "success"},
             GatewayDecides(outcome)
      PROVE  UNCHANGED <<seen, answer>>
  BY <1>7 DEF GatewayDecides, OnlyTask
<1> QED
  BY <1>1, <1>2, <1>3, <1>4, <1>5, <1>6, <1>7 DEF Next, ScannerStep

\* The phase of a message, by the tasks it has, their answers and its marker.
LEMMA PhaseCases ==
    ASSUME NEW m
    PROVE  /\ (\E f \in TasksOf(m) : answer[f] # NoAnswer) => Phase(m) = "answered"
           /\ TasksOf(m) # {} /\ (\A f \in TasksOf(m) : answer[f] = NoAnswer)
                 => Phase(m) = "open"
           /\ TasksOf(m) = {} /\ m \in seen => Phase(m) = "claimed"
           /\ TasksOf(m) = {} /\ m \notin seen => Phase(m) = "new"
<1>1. CASE \E f \in TasksOf(m) : answer[f] # NoAnswer
  BY <1>1 DEF Phase
<1>2. CASE ~ \E f \in TasksOf(m) : answer[f] # NoAnswer
  <2>1. CASE TasksOf(m) # {}
    BY <1>2, <2>1 DEF Phase
  <2>2. CASE TasksOf(m) = {}
    BY <2>2 DEF Phase
  <2> QED BY <2>1, <2>2
<1> QED BY <1>1, <1>2

\* Every step is a step of the ledger, or changes nothing in it.
LEMMA LedgerStep ==
    ASSUME IndInv, [Next]_vars
    PROVE  [Ledger!Next]_<<[m \in Messages |-> Phase(m)], [m \in Messages |-> TasksOf(m)]>>
<1> DEFINE phase == [m \in Messages |-> Phase(m)]
           tasks == [m \in Messages |-> TasksOf(m)]
<1>0. TypeOK /\ Ties
  BY DEF IndInv
<1>1. \A m \in Messages : phase[m] = Phase(m) /\ tasks[m] = TasksOf(m)
  OBVIOUS
<1>2. ASSUME SameTasks, UNCHANGED <<seen, answer>>
      PROVE  phase' = phase /\ tasks' = tasks
  <2>1. \A m \in Messages : TasksOf(m)' = TasksOf(m)
    BY <1>2 DEF TasksOf, SameTasks
  <2>2. \A m \in Messages : Phase(m)' = Phase(m)
    BY <1>2, <2>1 DEF Phase
  <2> QED BY <2>1, <2>2
<1>3. ASSUME NEW f \in Tasks, Claim(f) PROVE Ledger!Next
  <2> DEFINE k == MessageId[f]
  <2>1. /\ k \in Messages /\ k \notin seen /\ seen' = seen \cup {k}
        /\ UNCHANGED <<row, answer>>
    BY <1>3 DEF Claim, hasProcessedMessageId, Messages, store
  <2>2. \A m \in Messages : TasksOf(m)' = TasksOf(m)
    BY <2>1 DEF TasksOf, Exists
  <2>3. TasksOf(k) = {}
    BY <1>0, <2>1 DEF TasksOf, Ties, TasksAreSeen
  <2>4. Phase(k) = "new"
    BY <2>1, <2>3, PhaseCases
  <2>5. Phase(k)' = "claimed"
    BY <2>1, <2>2, <2>3 DEF Phase
  <2>6. \A m \in Messages : m # k => Phase(m)' = Phase(m)
    BY <2>1, <2>2 DEF Phase
  <2>7. phase' = [phase EXCEPT ![k] = "claimed"] /\ tasks' = tasks /\ phase[k] = "new"
    BY <2>1, <2>2, <2>4, <2>5, <2>6
  <2> HIDE DEF phase, tasks, k
  <2>8. Ledger!Claim(k)
    BY <2>7 DEF Ledger!Claim, phase, tasks
  <2> QED BY <2>1, <2>8 DEF Ledger!Next
<1>4. ASSUME TaskCreated, UNCHANGED <<seen, answer>> PROVE Ledger!Next
  <2>1. PICK f \in Tasks :
           /\ f = scanner.file /\ MessageId[f] \in seen
           /\ \A g \in Tasks : MessageId[g] = MessageId[f] => ~Exists(g)
    BY <1>0, <1>4 DEF TaskCreated, ScannerAt, Ties, ClaimIsFresh, Claiming
  <2> DEFINE k == MessageId[f]
             x == Saved(Saved(Pending, advanceState(Pending, "parsed")),
                        advanceState(advanceState(Pending, "parsed"), "planned"))
  <2>2. row' = [row EXCEPT ![f] = x]
    BY <1>4, <2>1 DEF TaskCreated
  <2>3. x # NoRow
    <3>1. /\ advanceState(Pending, "parsed") \in Copies
          /\ advanceState(advanceState(Pending, "parsed"), "planned") \in Copies
      BY PendingType, AdvanceType, StatusNames
    <3>2. Saved(Pending, advanceState(Pending, "parsed")) \in Copies
      BY <3>1, PendingType, SavedType
    <3>3. x \in Copies
      BY <3>1, <3>2, SavedType
    <3> QED BY <3>3, StoreAssumption
  <2> HIDE DEF x
  <2>4. Exists(f)' /\ \A g \in Tasks : g # f => (Exists(g)' <=> Exists(g))
    BY <1>0, <2>2, <2>3 DEF Exists, TypeOK
  <2>5. k \in Messages
    BY DEF Messages
  <2>6. TasksOf(k) = {} /\ TasksOf(k)' = {f}
    BY <2>1, <2>4 DEF TasksOf
  <2>7. \A m \in Messages : m # k => TasksOf(m)' = TasksOf(m)
    BY <2>1, <2>4 DEF TasksOf
  <2>8. Phase(k) = "claimed"
    BY <2>1, <2>6, PhaseCases
  <2>9. answer[f] = NoAnswer
    BY <1>0, <2>1 DEF Ties, AnswersHaveTasks
  <2>10. Phase(k)' = "open"
    BY <1>4, <2>6, <2>9 DEF Phase
  <2>11. \A m \in Messages : m # k => Phase(m)' = Phase(m)
    BY <1>4, <2>7 DEF Phase
  <2>12. /\ phase' = [phase EXCEPT ![k] = "open"] /\ tasks' = [tasks EXCEPT ![k] = {f}]
         /\ phase[k] = "claimed"
    BY <2>5, <2>6, <2>7, <2>8, <2>10, <2>11
  <2> HIDE DEF phase, tasks, k
  <2>13. Ledger!Open(k, f)
    BY <2>12 DEF Ledger!Open, phase, tasks
  <2> QED BY <2>5, <2>13 DEF Ledger!Next
<1>5. ASSUME Answered, SameTasks PROVE Ledger!Next
  <2>0. PICK f \in Tasks : f = scanner.file /\ Exists(f)
    BY <1>5, InWork DEF Answered, ScannerAt, Working
  <2> DEFINE k == MessageId[f]
  <2>1. /\ answer' = [answer EXCEPT ![f] = scanner.verdict]
        /\ seen' = seen /\ scanner.pc = "answering"
    BY <1>5, <2>0 DEF Answered, ScannerAt
  <2>2. /\ Exists(f) /\ answer[f] = NoAnswer
        /\ scanner.verdict \in {"COMPLETED", "FAILED"}
    BY <1>0, <2>0, <2>1 DEF Ties, AnswersHaveTasks, Working, Unanswered, Scanners, TypeOK
  <2>3. k \in Messages
    BY <2>2 DEF Messages
  <2>4. TasksOf(k) = {f}
    BY <1>0, <2>2 DEF TasksOf, Ties, OneTaskPerMessage
  <2>5. \A m \in Messages : TasksOf(m)' = TasksOf(m)
    BY <1>5 DEF TasksOf, SameTasks
  <2>6. Phase(k) = "open"
    BY <2>2, <2>4, PhaseCases
  <2>7. answer'[f] = scanner.verdict /\ \A g \in Tasks : g # f => answer'[g] = answer[g]
    BY <1>0, <2>1, <2>2 DEF TypeOK
  <2>8. answer'[f] # NoAnswer
    BY <2>2, <2>7, MailboxAssumption
  <2>9. Phase(k)' = "answered"
    BY <2>3, <2>4, <2>5, <2>8 DEF Phase
  <2>10. \A m \in Messages : m # k => f \notin TasksOf(m) /\ TasksOf(m) \subseteq Tasks
    BY DEF TasksOf
  <2>11. \A m \in Messages : m # k => Phase(m)' = Phase(m)
    BY <2>1, <2>5, <2>7, <2>10 DEF Phase
  <2>12. /\ phase' = [phase EXCEPT ![k] = "answered"] /\ tasks' = tasks
         /\ phase[k] = "open"
    BY <2>3, <2>5, <2>6, <2>9, <2>11
  <2> HIDE DEF phase, tasks, k
  <2>13. Ledger!Answer(k)
    BY <2>12 DEF Ledger!Answer, phase, tasks
  <2> QED BY <2>3, <2>13 DEF Ledger!Next
<1>6. TaskCreated => UNCHANGED <<seen, answer>>
  BY DEF TaskCreated, OnlyTask, disk
<1>7. Answered => ~TaskCreated
  BY DEF Answered, TaskCreated, ScannerAt
<1> QED BY <1>2, <1>3, <1>4, <1>5, <1>6, <1>7, TasksStay, DiskStays

\* The mailbox implements its ledger: each message is claimed, becomes a task
\* and is answered once at most and in this order, for any number of deposits,
\* failed calls and crashes.
THEOREM ImplementsLedger == Spec => LedgerSpec
<1>1. MailboxInit => Ledger!Init
  <2> SUFFICES ASSUME MailboxInit PROVE Ledger!Init
    OBVIOUS
  <2>1. (\A f \in Tasks : ~Exists(f)) /\ seen = {}
    BY DEF MailboxInit, StoreInit, Exists
  <2>2. \A m \in Messages : TasksOf(m) = {}
    BY <2>1 DEF TasksOf
  <2>3. \A m \in Messages : Phase(m) = "new"
    BY <2>1, <2>2, PhaseCases
  <2> QED BY <2>2, <2>3 DEF Ledger!Init
<1>2. IndInv /\ [Next]_vars
         => [Ledger!Next]_<<[m \in Messages |-> Phase(m)], [m \in Messages |-> TasksOf(m)]>>
  BY LedgerStep
<1> QED BY <1>1, <1>2, Inductive, PTL DEF Spec, LedgerSpec, Ledger!Spec
-----------------------------------------------------------------------------
(* Lost messages.                                                          *)

\* What the scanner has claimed stays in its hand or becomes a task, no
\* message is marked that is not in hand, and the faults are not fewer.
NothingLost ==
    /\ \A f \in Tasks : Exists(f) => Exists(f)'
    /\ seen' \cup processed' \subseteq seen \cup processed
    /\ \A f \in Tasks :
          scanner.pc \in Claiming /\ scanner.file = f =>
              Exists(f)' \/ (scanner'.pc \in Claiming /\ scanner'.file = f)
    /\ faults + crashes <= faults' + crashes'

\* A fault, or a crash: all that was marked is still marked or forgotten, but
\* for one message, the one the scanner had in hand or could not mark.
OneFault(m) ==
    /\ \A f \in Tasks : Exists(f) => Exists(f)'
    /\ seen' \cup processed' \subseteq seen \cup processed \cup {m}
    /\ scanner.pc \in Claiming => MessageId[scanner.file] = m
    /\ faults' + crashes' = faults + crashes + 1

\* Marking a message and taking it in hand is one step.
LEMMA ClaimedInHand ==
    ASSUME TypeOK, NEW f \in Tasks, Claim(f)
    PROVE  Lost' \subseteq Lost /\ UNCHANGED <<faults, crashes>>
<1>1. scanner' = [scanner EXCEPT !.pc = "claiming", !.todo = @ \ {f}, !.file = f]
      /\ scanner.pc = "next" /\ scanner \in Scanners
  BY DEF Claim, Take, ScannerAt, TypeOK
<1>2. scanner'.pc = "claiming" /\ scanner'.file = f
  BY <1>1 DEF Scanners
<1>3. /\ seen' = seen \cup {MessageId[f]} /\ processed' = processed \cup {MessageId[f]}
      /\ UNCHANGED <<row, faults, crashes>>
  BY DEF Claim, store, counts
<1>4. InHand(MessageId[f])'
  BY <1>2 DEF InHand
<1>5. \A m : InHand(m) => InHand(m)'
  BY <1>1, <1>3 DEF InHand, Exists
<1> QED BY <1>3, <1>4, <1>5 DEF Lost

\* Steps that lose nothing, and steps of a fault.
LEMMA LostByKind ==
    ASSUME TypeOK
    PROVE  /\ NothingLost => Lost' \subseteq Lost
           /\ \A m : OneFault(m) => Lost' \subseteq Lost \cup {m}
<1>1. ASSUME NothingLost PROVE Lost' \subseteq Lost
  <2>1. \A m : InHand(m) => InHand(m)'
    BY <1>1 DEF NothingLost, InHand, Claiming
  <2> QED BY <1>1, <2>1 DEF NothingLost, Lost
<1>2. ASSUME NEW m, OneFault(m) PROVE Lost' \subseteq Lost \cup {m}
  <2>1. \A k : k # m /\ InHand(k) => InHand(k)'
    BY <1>2 DEF OneFault, InHand, Claiming
  <2> QED BY <1>2, <2>1 DEF OneFault, Lost
<1> QED BY <1>1, <1>2

\* The scanner of a process that is gone has nothing in hand.
SleepsWhenDown == ~up => scanner.pc = "idle"

\* A scanner works only while its process is up, and does not end it.
LEMMA ScannerNeedsProcess == ASSUME ScannerStep PROVE up /\ up' = up
<1> USE DEF ScannerAt, Take, store, OnlyTask
<1>1. CASE \/ Listing \/ ScanEnds \/ ReadThrows \/ Noted \/ Moved \/ BookkeepingThrows
           \/ Asked \/ Reported \/ Answered \/ AnswerThrows \/ Apologised \/ ApologyFails
  BY <1>1 DEF Listing, ScanEnds, ReadThrows, Noted, Moved, BookkeepingThrows, Asked,
     Reported, Answered, AnswerThrows, Apologised, ApologyFails
<1>2. CASE \E f \in Tasks : \/ RejectUnaccepted(f) \/ RejectLate(f) \/ RejectReplay(f)
                            \/ Claim(f) \/ MarkerThrows(f)
  BY <1>2 DEF RejectUnaccepted, RejectLate, RejectReplay, RejectFile, Claim, MarkerThrows
<1>3. CASE TaskCreated \/ HoldPlan \/ RunPlan \/ StepThrows \/ CannotComplete
  BY <1>3 DEF TaskCreated, HoldPlan, RunPlan, StepThrows, CannotComplete
<1>4. CASE \E plan \in Plans : PlanMade(plan)
  BY <1>4 DEF PlanMade
<1>5. CASE \E outcome \in {"confirm", "blocked", "failure", "success"} :
              GatewayDecides(outcome)
  BY <1>5 DEF GatewayDecides
<1> QED BY <1>1, <1>2, <1>3, <1>4, <1>5 DEF ScannerStep

\* Only a process that runs scans, and a crash ends its scan.
LEMMA SleepsInvariant == Spec => []SleepsWhenDown
<1>1. MailboxInit => SleepsWhenDown
  BY DEF MailboxInit, StoreInit, SleepsWhenDown
<1>2. ASSUME IndInv, SleepsWhenDown, [Next]_vars PROVE SleepsWhenDown'
  <2>1. CASE ScannerStep
    BY <2>1, ScannerNeedsProcess DEF SleepsWhenDown
  <2>2. CASE OperatorActs
    <3>1. PICK h \in Handlers : Operator(h) /\ UNCHANGED scanner
      BY <2>2 DEF OperatorActs, memory
    <3>2. UNCHANGED up
      BY <1>2, <3>1, OperatorStep DEF IndInv, Ties
    <3> QED BY <1>2, <3>1, <3>2 DEF SleepsWhenDown
  <2>3. CASE WatchEvent \/ (\E f \in Tasks : Deposit(f)) \/ UNCHANGED vars
    BY <1>2, <2>3 DEF WatchEvent, Deposit, vars, store, memory, SleepsWhenDown
  <2>4. CASE Crash \/ Boot
    BY <2>4, RestTypes DEF Crash, Boot, SleepsWhenDown
  <2> QED BY <1>2, <2>1, <2>2, <2>3, <2>4 DEF Next
<1> QED BY <1>1, <1>2, Inductive, PTL DEF Spec

\* The steps of the scanner that throw.
Throws == Fault /\ UNCHANGED crashes

\* Every step is of one of the three kinds.
LEMMA LossSteps ==
    ASSUME IndInv, SleepsWhenDown, [Next]_vars
    PROVE  \/ NothingLost
           \/ \E m : OneFault(m)
           \/ \E f \in Tasks : Claim(f)
<1> USE DEF disk, counts, memory, store
<1>0. TypeOK /\ Ties /\ faults \in Nat /\ crashes \in Nat /\ scanner \in Scanners
  BY DEF IndInv, TypeOK
<1>1. \A f \in Tasks : Exists(f) => Exists(f)'
  <2>1. CASE SameTasks
    BY <2>1 DEF SameTasks
  <2>2. CASE TaskCreated
    <3>1. \A f \in Tasks : Exists(f) => f # scanner.file
      BY <1>0, <2>2 DEF TaskCreated, ScannerAt, Ties, ClaimIsFresh, Claiming
    <3>2. \A f \in Tasks : f # scanner.file => row'[f] = row[f]
      BY <1>0, <2>2 DEF TaskCreated, TypeOK
    <3> QED BY <3>1, <3>2 DEF Exists
  <2> QED BY <2>1, <2>2, TasksStay
<1>2. ASSUME seen' = seen, processed' \subseteq processed, scanner.pc \notin Claiming,
             faults + crashes <= faults' + crashes'
      PROVE  NothingLost
  BY <1>1, <1>2 DEF NothingLost
<1>3. ASSUME seen' = seen, processed' = processed, Throws
      PROVE  \E m : OneFault(m)
  <2>1. faults' + crashes' = faults + crashes + 1
    BY <1>0, <1>3 DEF Throws, Fault
  <2> QED BY <1>1, <1>3, <2>1 DEF OneFault
<1>4. Throws => faults + crashes <= faults' + crashes'
  BY <1>0 DEF Throws, Fault
<1>5. CASE OperatorActs \/ UNCHANGED vars
  <2>1. UNCHANGED <<seen, processed, scanner, faults, crashes>>
    BY <1>5 DEF OperatorActs, vars
  <2> QED BY <1>0, <1>1, <2>1 DEF NothingLost
<1>6. CASE Crash
  <2>1. seen' = seen /\ processed' = {} /\ faults' = faults /\ crashes' = crashes + 1
    BY <1>6 DEF Crash
  <2>2. OneFault(MessageId[scanner.file])
    BY <1>0, <1>1, <2>1 DEF OneFault
  <2> QED BY <2>2
<1>7. CASE Boot \/ WatchEvent \/ \E f \in Tasks : Deposit(f)
  <2>1. UNCHANGED <<seen, processed, faults, crashes>>
    BY <1>7 DEF Boot, WatchEvent, Deposit
  <2>2. scanner.pc \in Claiming => scanner' = scanner
    <3>1. scanner.pc \in Claiming => up
      BY DEF SleepsWhenDown, Claiming
    <3> QED BY <1>7, <3>1 DEF Boot, WatchEvent, Deposit, Claiming
  <2> QED BY <1>0, <1>1, <2>1, <2>2 DEF NothingLost
<1>8. CASE \/ Listing \/ ScanEnds \/ Noted \/ Asked \/ Reported \/ Answered \/ CannotComplete
           \/ HoldPlan \/ RunPlan \/ Apologised
  <2>1. /\ UNCHANGED <<seen, processed, faults, crashes>> /\ scanner.pc \notin Claiming
    BY <1>8 DEF Listing, ScanEnds, Noted, Asked, Reported, Answered, CannotComplete,
       HoldPlan, RunPlan, Apologised, OnlyTask, ScannerAt, Claiming
  <2> QED BY <1>0, <1>2, <2>1
<1>9. ASSUME NEW plan \in Plans, PlanMade(plan) PROVE NothingLost
  BY <1>0, <1>2, <1>9 DEF PlanMade, OnlyTask, ScannerAt, Claiming
<1>10. ASSUME NEW outcome \in {"confirm", "blocked", "failure", "success"},
              GatewayDecides(outcome)
       PROVE  NothingLost
  BY <1>0, <1>2, <1>10 DEF GatewayDecides, OnlyTask, ScannerAt, Claiming
<1>11. ASSUME NEW f \in Tasks, RejectFile(f) PROVE NothingLost
  BY <1>0, <1>2, <1>11 DEF RejectFile, Take, ScannerAt, Claiming
<1>12. CASE Moved
  <2>1. scanner'.pc = "announcing" /\ scanner'.file = scanner.file
    BY <1>0, <1>12 DEF Moved, Scanners
  <2>2. UNCHANGED <<seen, processed, faults, crashes>>
    BY <1>12 DEF Moved
  <2> QED BY <1>0, <1>1, <2>1, <2>2 DEF NothingLost, Claiming
<1>13. CASE TaskCreated
  <2>1. PICK f \in Tasks : f = scanner.file
    BY <1>0, <1>13 DEF TaskCreated, ScannerAt, Ties, ClaimIsFresh, Claiming
  <2>2. Exists(f)'
    <3>1. row' = [row EXCEPT ![scanner.file] =
                    Saved(Saved(Pending, advanceState(Pending, "parsed")),
                          advanceState(advanceState(Pending, "parsed"), "planned"))]
      BY <1>13 DEF TaskCreated
    <3>2. /\ advanceState(Pending, "parsed") \in Copies
          /\ advanceState(advanceState(Pending, "parsed"), "planned") \in Copies
      BY PendingType, AdvanceType, StatusNames
    <3>3. Saved(Pending, advanceState(Pending, "parsed")) \in Copies
      BY <3>2, PendingType, SavedType
    <3>4. Saved(Saved(Pending, advanceState(Pending, "parsed")),
                advanceState(advanceState(Pending, "parsed"), "planned")) \in Copies
      BY <3>2, <3>3, SavedType
    <3> DEFINE x == Saved(Saved(Pending, advanceState(Pending, "parsed")),
                          advanceState(advanceState(Pending, "parsed"), "planned"))
    <3>5. x # NoRow /\ row' = [row EXCEPT ![scanner.file] = x]
      BY <3>1, <3>4, StoreAssumption
    <3> HIDE DEF x
    <3> QED BY <1>0, <2>1, <3>5 DEF Exists, TypeOK
  <2>3. UNCHANGED <<seen, processed, faults, crashes>>
    BY <1>13 DEF TaskCreated, OnlyTask
  <2> QED BY <1>0, <1>1, <2>1, <2>2, <2>3 DEF NothingLost
<1>14. CASE BookkeepingThrows
  BY <1>3, <1>14 DEF BookkeepingThrows, ScanThrows, Throws
<1>15. CASE ReadThrows \/ AnswerThrows \/ ApologyFails \/ StepThrows
  <2>1. UNCHANGED <<seen, processed>> /\ Throws /\ scanner.pc \notin Claiming
    BY <1>15 DEF ReadThrows, AnswerThrows, ApologyFails, StepThrows, ScanThrows, Throws,
       ScannerAt, Claiming
  <2> QED BY <1>2, <1>4, <2>1
<1>16. ASSUME NEW f \in Tasks, MarkerThrows(f) PROVE \E m : OneFault(m)
  <2>1. /\ processed' = processed \cup {MessageId[f]} /\ seen' = seen /\ Throws
        /\ scanner.pc \notin Claiming
    BY <1>16 DEF MarkerThrows, ScanThrows, Throws, Take, ScannerAt, Claiming
  <2>2. faults' + crashes' = faults + crashes + 1
    BY <1>0, <2>1 DEF Throws, Fault
  <2>3. OneFault(MessageId[f])
    BY <1>1, <2>1, <2>2 DEF OneFault
  <2> QED BY <2>3
<1> QED
  BY <1>5, <1>6, <1>7, <1>8, <1>9, <1>10, <1>11, <1>12, <1>13, <1>14, <1>15, <1>16
  DEF Next, ScannerStep, RejectUnaccepted, RejectLate, RejectReplay

\* A loss of at most one message is paid for by one fault or crash more.
LEMMA PaidSum ==
    ASSUME NEW f \in Nat, NEW c \in Nat, NEW g \in Nat, NEW d \in Nat,
           NEW a \in Nat, NEW b \in Nat, a <= f + c
    PROVE  /\ b <= a /\ f + c <= g + d => b <= g + d
           /\ b <= a + 1 /\ g + d = f + c + 1 => b <= g + d
OBVIOUS

\* The lost messages are finitely many, and each has a fault or a crash.
LossPaid == IsFiniteSet(Lost) /\ LossNeedsFault

\* A message that was claimed and never became a task was lost to a crash or
\* to a failed call, one message to each, for any bounds on both.
THEOREM LossesNeedFaults == Spec => []LossNeedsFault
<1>1. MailboxInit => LossPaid
  <2> SUFFICES ASSUME MailboxInit PROVE LossPaid
    OBVIOUS
  <2>1. Lost = {} /\ faults = 0 /\ crashes = 0
    BY DEF MailboxInit, Lost
  <2> QED BY <2>1, FS_EmptySet DEF LossPaid, LossNeedsFault
<1>2. ASSUME IndInv, IndInv', SleepsWhenDown, LossPaid, [Next]_vars PROVE LossPaid'
  <2>0. TypeOK
    BY <1>2 DEF IndInv
  <2>1. faults \in Nat /\ crashes \in Nat /\ faults' \in Nat /\ crashes' \in Nat
    BY <1>2 DEF IndInv, TypeOK
  <2>2. IsFiniteSet(Lost) /\ Cardinality(Lost) \in Nat
        /\ Cardinality(Lost) <= faults + crashes
    BY <1>2, FS_CardinalityType DEF LossPaid, LossNeedsFault
  <2>3. ASSUME Lost' \subseteq Lost, faults + crashes <= faults' + crashes'
        PROVE  LossPaid'
    <3>1. IsFiniteSet(Lost') /\ Cardinality(Lost') <= Cardinality(Lost)
          /\ Cardinality(Lost') \in Nat
      BY <2>2, <2>3, FS_Subset, FS_CardinalityType
    <3>2. Cardinality(Lost') <= faults' + crashes'
      <4>1. Cardinality(Lost) \in Nat /\ Cardinality(Lost) <= faults + crashes
        BY <2>2
      <4>2. Cardinality(Lost') \in Nat /\ Cardinality(Lost') <= Cardinality(Lost)
        BY <3>1
      <4>3. faults + crashes <= faults' + crashes'
        BY <2>3
      <4> QED BY <2>1, <4>1, <4>2, <4>3, PaidSum, Zenon
    <3> QED BY <3>1, <3>2 DEF LossPaid, LossNeedsFault
  <2>4. ASSUME NEW m, Lost' \subseteq Lost \cup {m},
               faults' + crashes' = faults + crashes + 1
        PROVE  LossPaid'
    <3> DEFINE S == Lost \cup {m}
    <3>1. /\ IsFiniteSet(S) /\ Cardinality(S) \in Nat
          /\ Cardinality(S) <= Cardinality(Lost) + 1
      BY <2>2, FS_AddElement, FS_CardinalityType
    <3>2. IsFiniteSet(Lost') /\ Cardinality(Lost') <= Cardinality(S)
          /\ Cardinality(Lost') \in Nat
      BY <2>4, <3>1, FS_Subset, FS_CardinalityType
    <3>3. Cardinality(Lost') <= Cardinality(Lost) + 1
      <4>1. Cardinality(Lost) \in Nat
        BY <2>2
      <4>2. Cardinality(S) \in Nat /\ Cardinality(S) <= Cardinality(Lost) + 1
        BY <3>1
      <4>3. Cardinality(Lost') \in Nat /\ Cardinality(Lost') <= Cardinality(S)
        BY <3>2
      <4> QED BY <4>1, <4>2, <4>3
    <3>4. Cardinality(Lost') <= faults' + crashes'
      <4>1. Cardinality(Lost) \in Nat /\ Cardinality(Lost) <= faults + crashes
        BY <2>2
      <4>2. Cardinality(Lost') \in Nat /\ Cardinality(Lost') <= Cardinality(Lost) + 1
        BY <3>2, <3>3
      <4>3. faults' + crashes' = faults + crashes + 1
        BY <2>4
      <4> QED BY <2>1, <4>1, <4>2, <4>3, PaidSum, Zenon
    <3> QED BY <3>2, <3>4 DEF LossPaid, LossNeedsFault
  <2>5. CASE NothingLost
    BY <2>0, <2>3, <2>5, LostByKind DEF NothingLost
  <2>6. ASSUME NEW m, OneFault(m) PROVE LossPaid'
    BY <2>0, <2>4, <2>6, LostByKind DEF OneFault
  <2>7. ASSUME NEW f \in Tasks, Claim(f) PROVE LossPaid'
    <3>1. Lost' \subseteq Lost /\ UNCHANGED <<faults, crashes>>
      BY <2>0, <2>7, ClaimedInHand
    <3>2. faults + crashes <= faults' + crashes'
      BY <2>1, <3>1
    <3> QED BY <2>3, <3>1, <3>2
  <2> QED BY <1>2, <2>5, <2>6, <2>7, LossSteps
<1>3. LossPaid => LossNeedsFault
  BY DEF LossPaid
<1> QED BY <1>1, <1>2, <1>3, Inductive, SleepsInvariant, PTL DEF Spec
=============================================================================
