----------------------------- MODULE JulesQueue -----------------------------
(***************************************************************************)
(* JulesQueueWorker: it claims /jules tasks on a timer, polls their remote *)
(* session, and delivers the result to the chat.  The chat handlers of     *)
(* ChatFlow create the tasks and start the sessions.                       *)
(***************************************************************************)
EXTENDS TaskStore

VARIABLE jules       \* where the worker is, the task, and its copy of it

JulesPC == {"idle", "inspecting", "delivering", "accepted", "reporting"}

JulesFrames == [pc: JulesPC, task: Tasks \cup {NoTask}, mem: Copies]

IdleJules == [pc |-> "idle", task |-> NoTask, mem |-> Pending]

JulesInit == jules = IdleJules

JulesAt(pc) == up /\ jules.pc = pc
JulesGoto(pc, t, copy) == jules' = [pc |-> pc, task |-> t, mem |-> copy]
JulesEnds == jules' = IdleJules

JulesClaimable(t) ==
    Claimable(t, "jules", {"waiting_approval", "running", "delivery_pending"})

\* An undelivered result is what the claim is for.
Undelivered(t) == row[t].status = "delivery_pending" /\ row[t].result

JulesRetries(t) ==
    /\ JulesAt("idle") /\ JulesClaimable(t) /\ Undelivered(t)
    /\ Save(t, Claimed(t))
    /\ JulesGoto("delivering", t, Claimed(t))
    /\ UNCHANGED <<up, log>>

\* pollTask of a task without a session: it fails, held or running as it is.
JulesUntracked(t) ==
    /\ JulesAt("idle") /\ JulesClaimable(t) /\ ~Undelivered(t)
    /\ ~row[t].session
    /\ LET copy == advanceState(Unlock(Claimed(t)), "failed")
       IN /\ SaveTwice(t, Unlock(Claimed(t)), copy)
          /\ JulesGoto("reporting", t, copy)
    /\ UNCHANGED <<up, log>>

JulesPolls(t) ==
    /\ JulesAt("idle") /\ JulesClaimable(t) /\ ~Undelivered(t)
    /\ row[t].session
    /\ Save(t, Claimed(t))
    /\ JulesGoto("inspecting", t, Claimed(t))
    /\ UNCHANGED <<up, log>>

\* The worker's copy with withQueueUnlocked applied.
Unlocked == Unlock(jules.mem)

\* The session is completed: a waiting copy runs first, then delivery.
SessionCompleted ==
    /\ JulesAt("inspecting")
    /\ LET done    == [Unlocked EXCEPT !.result = TRUE]
           running == IF done.status = "waiting_approval"
                      THEN advanceState(done, "running") ELSE done
           copy    == advanceState(running, "delivery_pending")
       IN /\ SaveTwice(jules.task, running, copy)
          /\ JulesGoto("delivering", jules.task, copy)
    /\ UNCHANGED <<up, log>>

SessionFailed ==
    /\ JulesAt("inspecting")
    /\ LET copy == advanceState(Unlocked, "failed")
       IN /\ SaveTwice(jules.task, Unlocked, copy)
          /\ JulesGoto("reporting", jules.task, copy)
    /\ UNCHANGED <<up, log>>

\* The plan waits for review.  From delivery_pending the change is not
\* allowed: advanceState throws after the save and tick only logs it.
SessionInReview ==
    /\ JulesAt("inspecting")
    /\ IF Unlocked.status = "running"
       THEN SaveTwice(jules.task, Unlocked, advanceState(Unlocked, "waiting_approval"))
       ELSE Save(jules.task, Unlocked)
    /\ JulesEnds
    /\ UNCHANGED <<up, log>>

\* The session goes on.
SessionWorks ==
    /\ JulesAt("inspecting")
    /\ IF Unlocked.status = "waiting_approval"
       THEN SaveTwice(jules.task, Unlocked, advanceState(Unlocked, "running"))
       ELSE Save(jules.task, Unlocked)
    /\ JulesEnds
    /\ UNCHANGED <<up, log>>

\* inspectSession throws: tick logs it, the row keeps its lock.
InspectThrows ==
    /\ JulesAt("inspecting") /\ JulesEnds
    /\ UNCHANGED <<row, up, log>>

JulesAccepted ==
    /\ JulesAt("delivering")
    /\ JulesGoto("accepted", jules.task, jules.mem)
    /\ LET t == jules.task
       IN Log(t, [log[t] EXCEPT !.sent = @ + 1, !.told = TRUE])
    /\ UNCHANGED <<row, up>>

JulesDelivered ==
    /\ JulesAt("accepted")
    /\ SaveTwice(jules.task, Unlocked, advanceState(Unlocked, "completed"))
    /\ JulesEnds
    /\ UNCHANGED <<up, log>>

\* The send fails, before the chat had the message or after.
JulesSendThrows ==
    /\ JulesAt("delivering") \/ JulesAt("accepted")
    /\ Save(jules.task, Unlocked)
    /\ SendFailed(jules.task)
    /\ JulesEnds
    /\ UNCHANGED up

JulesReported ==
    /\ JulesAt("reporting")
    /\ LET t == jules.task
       IN \/ Log(t, [log[t] EXCEPT !.told = TRUE])
          \/ SendFailed(t)
    /\ JulesEnds
    /\ UNCHANGED <<row, up>>

JulesNext ==
    \/ \E t \in Tasks : JulesRetries(t) \/ JulesUntracked(t) \/ JulesPolls(t)
    \/ SessionCompleted \/ SessionFailed \/ SessionInReview \/ SessionWorks
    \/ InspectThrows \/ JulesAccepted \/ JulesDelivered
    \/ JulesSendThrows \/ JulesReported
=============================================================================
