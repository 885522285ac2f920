---------------------------- MODULE ResearchQueue ----------------------------
(***************************************************************************)
(* /research and /deepresearch: TelegramResearchController enqueues a      *)
(* pending task, ResearchQueueWorker claims it on a timer, searches,       *)
(* delivers the result to the chat and closes the task.  The worker works  *)
(* on one task at a time (its running flag), and a send is two steps: the  *)
(* chat accepts the message, and the worker learns of it.                  *)
(***************************************************************************)
EXTENDS TaskStore

VARIABLE research    \* where the worker is, the task, and its copy of it

ResearchPC == {"idle", "searching", "delivering", "accepted", "reporting"}

ResearchFrames == [pc: ResearchPC, task: Tasks \cup {NoTask}, mem: Copies]

IdleResearch == [pc |-> "idle", task |-> NoTask, mem |-> Pending]

ResearchInit == research = IdleResearch

ResearchAt(pc) == up /\ research.pc = pc
ResearchGoto(pc, t, copy) == research' = [pc |-> pc, task |-> t, mem |-> copy]
ResearchEnds == research' = IdleResearch

\* enqueueResearch
Enqueue(t) ==
    /\ up /\ ~Exists(t) /\ Kind[t] = "research"
    /\ row' = [row EXCEPT ![t] = Pending]
    /\ UNCHANGED <<up, log, research>>

\* execute: a pending task goes through parsed to running.
ResearchStarts(t) ==
    /\ ResearchAt("idle") /\ Claimable(t, "research", {"pending"})
    /\ LET parsed == advanceState(Claimed(t), "parsed")
           copy   == advanceState(parsed, "running")
       IN /\ row' = [row EXCEPT ![t] = Saved(Saved(Claimed(t), parsed), copy)]
          /\ ResearchGoto("searching", t, copy)
    /\ UNCHANGED <<up, log>>

\* Mutant: the claim leaves out delivery_pending.
ResearchRetries_Never(t) ==
    /\ ResearchAt("idle") /\ Claimable(t, "research", {})
    /\ UNCHANGED <<row, up, log, research>>

\* A result that was not delivered yet is sent again.
ResearchRetries(t) ==
    /\ ResearchAt("idle") /\ Claimable(t, "research", {"delivery_pending"})
    /\ row[t].result
    /\ Save(t, Claimed(t))
    /\ ResearchGoto("delivering", t, Claimed(t))
    /\ UNCHANGED <<up, log>>

\* An undelivered task whose result is empty is executed again: running does
\* not follow delivery_pending, advanceState throws, the task fails.
ResearchRerunFails(t) ==
    /\ ResearchAt("idle") /\ Claimable(t, "research", {"delivery_pending"})
    /\ ~row[t].result
    /\ LET copy == advanceState(Unlock(Claimed(t)), "failed")
       IN /\ SaveTwice(t, Unlock(Claimed(t)), copy)
          /\ ResearchGoto("reporting", t, copy)
    /\ UNCHANGED <<up, log>>

\* The search answers; the answer may be empty.
SearchDone(found) ==
    /\ ResearchAt("searching")
    /\ LET stored == [Unlock(research.mem) EXCEPT !.result = found]
           copy   == advanceState(stored, "delivery_pending")
       IN /\ SaveTwice(research.task, stored, copy)
          /\ ResearchGoto("delivering", research.task, copy)
    /\ UNCHANGED <<up, log>>

SearchThrows ==
    /\ ResearchAt("searching")
    /\ LET copy == advanceState(Unlock(research.mem), "failed")
       IN /\ SaveTwice(research.task, Unlock(research.mem), copy)
          /\ ResearchGoto("reporting", research.task, copy)
    /\ UNCHANGED <<up, log>>

\* SmartOutputService.send: the chat has the message.
ResearchAccepted ==
    /\ ResearchAt("delivering")
    /\ ResearchGoto("accepted", research.task, research.mem)
    /\ LET t == research.task
       IN Log(t, [log[t] EXCEPT !.sent = @ + 1, !.told = TRUE])
    /\ UNCHANGED <<row, up>>

\* Mutant: the status after the send is not advanced.
ResearchDelivered_Forgets ==
    /\ ResearchAt("accepted")
    /\ Save(research.task, Unlock(research.mem))
    /\ ResearchEnds
    /\ UNCHANGED <<up, log>>

\* deliver, after the send: unlock, save, completed.
ResearchDelivered ==
    /\ ResearchAt("accepted")
    /\ SaveTwice(research.task, Unlock(research.mem),
                 advanceState(Unlock(research.mem), "completed"))
    /\ ResearchEnds
    /\ UNCHANGED <<up, log>>

\* Mutant: a failed send is taken for a delivery.
ResearchSendThrows_Completes ==
    /\ ResearchAt("delivering") \/ ResearchAt("accepted")
    /\ SaveTwice(research.task, research.mem, advanceState(research.mem, "completed"))
    /\ SendFailed(research.task)
    /\ ResearchEnds
    /\ UNCHANGED up

\* The send fails, before the chat had the message or after.
ResearchSendThrows ==
    /\ ResearchAt("delivering") \/ ResearchAt("accepted")
    /\ Save(research.task, research.mem)
    /\ SendFailed(research.task)
    /\ ResearchEnds
    /\ UNCHANGED up

\* Mutant: a failure is not reported.
ResearchReported_Silent ==
    /\ ResearchAt("reporting")
    /\ ResearchEnds
    /\ UNCHANGED <<row, up, log>>

\* deliverFailure: a failed report is only logged.
ResearchReported ==
    /\ ResearchAt("reporting")
    /\ LET t == research.task
       IN \/ Log(t, [log[t] EXCEPT !.told = TRUE])
          \/ SendFailed(t)
    /\ ResearchEnds
    /\ UNCHANGED <<row, up>>

ResearchNext ==
    \/ \E t \in Tasks : \/ Enqueue(t) \/ ResearchStarts(t)
                        \/ ResearchRetries(t) \/ ResearchRerunFails(t)
    \/ \E found \in BOOLEAN : SearchDone(found)
    \/ SearchThrows \/ ResearchAccepted \/ ResearchDelivered
    \/ ResearchSendThrows \/ ResearchReported
=============================================================================
