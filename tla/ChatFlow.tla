------------------------------ MODULE ChatFlow ------------------------------
(***************************************************************************)
(* The chat handlers: a message that becomes a task (handleTaskMessage),   *)
(* the operator's decision on a held task (handleApproval,                 *)
(* handleRejection) and the execution either of them starts                *)
(* (executeImmediate, resumeTaskExecution, submitPlanViaGateway), for      *)
(* /run tasks and for the part of /jules tasks that runs in the chat.      *)
(* A handler is cut at its awaits; between them it works on its own copy.  *)
(***************************************************************************)
EXTENDS TaskStore, FiniteSets

CONSTANTS
    Handlers,       \* updates handled at the same time, on any surface
    MaxApprovals    \* bound: approvals the operator gives to one task

ASSUME ChatAssumption == IsFiniteSet(Handlers) /\ MaxApprovals \in Nat

VARIABLE chat

ChatPC == {"idle",
           "preparing",     \* awaits attachRecentContext, prepareTaskState
           "prompting",     \* awaits the reply that asks for approval
           "notifying",     \* awaits audit, reply and telemetry of an approval
           "executing",     \* awaits the executor
           "replying",      \* awaits the reply that carries the output
           "apologising"}   \* awaits the reply that tells of a failure

\* via: did a message or an approval start this handler?
Frames == [pc: ChatPC, via: {"message", "approval"}, task: Tasks \cup {NoTask},
           mem: Copies]

IdleFrame ==
    [pc |-> "idle", via |-> "message", task |-> NoTask, mem |-> Pending]

ChatInit == chat = [h \in Handlers |-> IdleFrame]

At(h, pc) == up /\ chat[h].pc = pc

Goto(h, pc, copy) == chat' = [chat EXCEPT ![h].pc = pc, ![h].mem = copy]

\* What is left of the handler only replies: it changes no task any more.
Finish(h) == chat' = [chat EXCEPT ![h] = IdleFrame]

\* The catch of handleApproval reads the row again and fails it if it runs.
FailIfRunning(t) ==
    row' = IF HasStatus(t, {"running"})
           THEN [row EXCEPT ![t] = Saved(@, advanceState(@, "failed"))]
           ELSE row

\* The catch of executeImmediate and of handleTaskMessage fails the copy,
\* unless it is terminal already, and writes it back.
Failed(copy) ==
    IF copy.status \in Terminal THEN copy ELSE advanceState(copy, "failed")

FailCopy(t, copy) == Save(t, Failed(copy))

-----------------------------------------------------------------------------
(* A message that becomes a task.                                          *)

\* createPendingTask and the step to parsed.
MessageArrives(h, t) ==
    /\ At(h, "idle") /\ ~Exists(t) /\ Kind[t] # "research"
    /\ LET copy == advanceState(Pending, "parsed")
       IN /\ row' = [row EXCEPT ![t] = Saved(Pending, copy)]
          /\ chat' = [chat EXCEPT ![h] = [pc |-> "preparing", via |-> "message",
                                          task |-> t, mem |-> copy]]
    /\ UNCHANGED <<up, log>>

\* The trusted boundary blocks the text before anything is awaited.
MessageBlocked(h, t) ==
    /\ At(h, "idle") /\ ~Exists(t) /\ Kind[t] # "research"
    /\ LET copy == advanceState(Pending, "parsed")
       IN row' = [row EXCEPT ![t] = Saved(Saved(Pending, copy),
                                          advanceState(copy, "failed"))]
    /\ UNCHANGED <<up, log, chat>>

\* attachRecentContext or prepareTaskState throws.
PrepareThrows(h) ==
    /\ At(h, "preparing")
    /\ FailCopy(chat[h].task, chat[h].mem)
    /\ Finish(h)
    /\ UNCHANGED <<up, log>>

\* The task is prepared and its risk, or the operator mode, wants approval.
HoldForApproval(h) ==
    /\ At(h, "preparing")
    /\ LET t    == chat[h].task
           copy == advanceState(chat[h].mem, "waiting_approval")
       IN /\ SaveTwice(t, chat[h].mem, copy)
          /\ Goto(h, "prompting", copy)
          /\ Log(t, [log[t] EXCEPT !.held = TRUE])
    /\ UNCHANGED up

\* The task is prepared and needs no approval: executeImmediate.
LaunchNow(h) ==
    /\ At(h, "preparing")
    /\ LET t    == chat[h].task
           copy == advanceState(chat[h].mem, "running")
       IN /\ SaveTwice(t, chat[h].mem, copy)
          /\ Goto(h, "executing", copy)
          /\ Log(t, [log[t] EXCEPT !.launches = @ + 1])
    /\ UNCHANGED up

\* Mutant: the return after the prompt is missing.
PromptDone_FallsThrough(h) ==
    /\ At(h, "prompting")
    /\ Goto(h, "executing", advanceState(chat[h].mem, "running"))
    /\ Save(chat[h].task, advanceState(chat[h].mem, "running"))
    /\ Log(chat[h].task, [log[chat[h].task] EXCEPT !.launches = @ + 1])
    /\ UNCHANGED up

PromptDone(h) ==
    /\ At(h, "prompting") /\ Finish(h)
    /\ UNCHANGED <<row, up, log>>

\* The approval prompt cannot be sent: the stale copy is failed.
PromptThrows(h) ==
    /\ At(h, "prompting")
    /\ FailCopy(chat[h].task, chat[h].mem)
    /\ Finish(h)
    /\ UNCHANGED <<up, log>>

-----------------------------------------------------------------------------
(* The operator decides, by a button, a command or the web console.        *)

Approve(h, t) ==
    /\ At(h, "idle") /\ HasStatus(t, {"waiting_approval"})
    /\ log[t].approvals < MaxApprovals
    /\ LET copy == advanceState(row[t], "approved")
       IN /\ Save(t, copy)
          /\ chat' = [chat EXCEPT ![h] = [pc |-> "notifying", via |-> "approval",
                                          task |-> t, mem |-> copy]]
    /\ Log(t, [log[t] EXCEPT !.approvals = @ + 1])
    /\ UNCHANGED up

\* /approve of a task that is not waiting: processApproval throws, and the
\* catch fails the task when it is running.
ApproveRefused(h, t) ==
    /\ At(h, "idle") /\ HasStatus(t, {"running"})
    /\ FailIfRunning(t)
    /\ UNCHANGED <<up, log, chat>>

\* Mutant: a task that is approved already can still be rejected.
Reject_Late(h, t) ==
    /\ At(h, "idle") /\ HasStatus(t, {"waiting_approval", "approved"})
    /\ Save(t, advanceState(row[t], "rejected"))
    /\ Log(t, [log[t] EXCEPT !.rejected = TRUE])
    /\ UNCHANGED <<up, chat>>

Reject(h, t) ==
    /\ At(h, "idle") /\ HasStatus(t, {"waiting_approval"})
    /\ Save(t, advanceState(row[t], "rejected"))
    /\ Log(t, [log[t] EXCEPT !.rejected = TRUE])
    /\ UNCHANGED <<up, chat>>

\* resumeApprovedTaskOrWorkflow: the copy goes on to run.
ResumeApproved(h) ==
    /\ At(h, "notifying")
    /\ LET t    == chat[h].task
           copy == advanceState(chat[h].mem, "running")
       IN /\ Save(t, copy)
          /\ Goto(h, "executing", copy)
          /\ Log(t, [log[t] EXCEPT !.launches = @ + 1])
    /\ UNCHANGED up

\* The reply to the approval fails: nothing is resumed.
NotifyThrows(h) ==
    /\ At(h, "notifying")
    /\ FailIfRunning(chat[h].task)
    /\ Finish(h)
    /\ UNCHANGED <<up, log>>

-----------------------------------------------------------------------------
(* The execution a handler awaits.                                         *)

\* storeExecutionResult; a plan the gateway blocks has no result to store.
Stored(copy, outcome) ==
    IF outcome = "blocked" THEN copy
    ELSE [copy EXCEPT !.result = (outcome = "success")]

\* Mutant: the session of a result that is still pending is not kept.
Settled_ForgetsSession(copy, outcome) ==
    CASE outcome = "awaiting" -> advanceState(copy, "waiting_approval")
      [] outcome = "pending"  -> advanceState(copy, "delivery_pending")
      [] outcome = "success"  -> advanceState(copy, "completed")
      [] OTHER                -> advanceState(copy, "failed")

\* A jules session that waits for its plan or still runs moves the copy on
\* (submitPlanViaGateway); a copy that is still running is closed.
Settled(copy, outcome) ==
    CASE outcome = "awaiting" ->
            advanceState([copy EXCEPT !.session = TRUE], "waiting_approval")
      [] outcome = "pending" ->
            advanceState([copy EXCEPT !.session = TRUE], "delivery_pending")
      [] outcome = "success" -> advanceState(copy, "completed")
      [] OTHER               -> advanceState(copy, "failed")

Outcomes(t) == {"success", "failure", "blocked"}
                  \cup (IF Kind[t] = "jules" THEN {"awaiting", "pending"} ELSE {})

ExecutorReturns(h, outcome) ==
    /\ At(h, "executing") /\ outcome \in Outcomes(chat[h].task)
    /\ LET t      == chat[h].task
           stored == Stored(chat[h].mem, outcome)
           copy   == Settled(stored, outcome)
       IN /\ IF outcome = "blocked" THEN Save(t, copy) ELSE SaveTwice(t, stored, copy)
          /\ Goto(h, "replying", copy)
    /\ UNCHANGED <<up, log>>

\* What the execution throws: the catch of executeImmediate fails the copy
\* and replies, the catch of handleApproval fails the row it reads.
Caught(h) ==
    \/ /\ chat[h].via = "message"
       /\ FailCopy(chat[h].task, chat[h].mem)
       /\ Goto(h, "apologising", Failed(chat[h].mem))
    \/ /\ chat[h].via = "approval"
       /\ FailIfRunning(chat[h].task)
       /\ Finish(h)

ExecutorThrows(h) ==
    /\ At(h, "executing") /\ Caught(h)
    /\ UNCHANGED <<up, log>>

ReplyDone(h) ==
    /\ At(h, "replying") /\ Finish(h)
    /\ UNCHANGED <<row, up, log>>

ReplyThrows(h) ==
    /\ At(h, "replying") /\ Caught(h)
    /\ UNCHANGED <<up, log>>

ApologyDone(h) ==
    /\ At(h, "apologising") /\ Finish(h)
    /\ UNCHANGED <<row, up, log>>

\* The reply inside that catch throws too: the catch of handleTaskMessage
\* writes the failed copy once more.
ApologyThrows(h) ==
    /\ At(h, "apologising")
    /\ Save(chat[h].task, chat[h].mem)
    /\ Finish(h)
    /\ UNCHANGED <<up, log>>

ChatNext ==
    \E h \in Handlers :
        \/ \E t \in Tasks : \/ MessageArrives(h, t) \/ MessageBlocked(h, t)
                            \/ Approve(h, t) \/ ApproveRefused(h, t) \/ Reject(h, t)
        \/ PrepareThrows(h) \/ HoldForApproval(h) \/ LaunchNow(h)
        \/ PromptDone(h) \/ PromptThrows(h)
        \/ ResumeApproved(h) \/ NotifyThrows(h)
        \/ \E outcome \in {"success", "failure", "blocked", "awaiting", "pending"} :
              ExecutorReturns(h, outcome)
        \/ ExecutorThrows(h) \/ ReplyDone(h) \/ ReplyThrows(h)
        \/ ApologyDone(h) \/ ApologyThrows(h)
=============================================================================
