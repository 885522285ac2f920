-------------------------------- MODULE TaskOS --------------------------------
(***************************************************************************)
(* One Zavorth process: the chat handlers, the research worker and the     *)
(* jules worker over the same task rows, the crash of the process, and the *)
(* boot recovery of RecoveryManager.  The properties of the whole are at   *)
(* the end.                                                                *)
(***************************************************************************)
EXTENDS ChatFlow, ResearchQueue, JulesQueue

CONSTANT MaxCrashes    \* bound: how often the process dies

ASSUME CrashAssumption == MaxCrashes \in Nat

VARIABLE crashes

vars == <<row, up, log, chat, research, jules, crashes>>

Init ==
    /\ StoreInit /\ ChatInit /\ ResearchInit /\ JulesInit
    /\ crashes = 0

\* The process dies between two steps: what handlers and workers hold in
\* memory is lost, the rows stay.
Crash ==
    /\ up /\ crashes < MaxCrashes
    /\ up' = FALSE
    /\ crashes' = crashes + 1
    /\ chat' = [h \in Handlers |-> IdleFrame]
    /\ ResearchEnds /\ JulesEnds
    /\ UNCHANGED <<row, log>>

\* Mutant: the boot recovery leaves the rows that were running.
Boot_KeepsRunning ==
    /\ ~up /\ up' = TRUE
    /\ UNCHANGED <<row, log, chat, research, jules, crashes>>

\* runBootRecovery, awaited before the surfaces and the workers start: every
\* row that was running is failed, whatever it was running.
Boot ==
    /\ ~up
    /\ up' = TRUE
    /\ row' = [t \in Tasks |-> IF HasStatus(t, {"running"})
                               THEN Saved(row[t], advanceState(row[t], "failed"))
                               ELSE row[t]]
    /\ UNCHANGED <<log, chat, research, jules, crashes>>

Next ==
    \/ ChatNext     /\ UNCHANGED <<research, jules, crashes>>
    \/ ResearchNext /\ UNCHANGED <<chat, jules, crashes>>
    \/ JulesNext    /\ UNCHANGED <<chat, research, crashes>>
    \/ \E t \in Tasks : LockExpires(t) /\ UNCHANGED <<chat, research, jules, crashes>>
    \/ Crash
    \/ Boot

Spec == Init /\ [][Next]_vars

(***************************************************************************)
(* What the runtime gives: a supervisor boots the process again, a timer   *)
(* drives each worker, which claims the row saved longest ago (so a row    *)
(* that stays claimable is claimed in the end), locks run out with time,   *)
(* and an awaited call returns or throws.  Messages and decisions of the   *)
(* operator are not promised.  That MaxFaults and MaxCrashes are finite    *)
(* says that sends do not fail, and the process does not die, forever.     *)
(***************************************************************************)
ResearchOnly(A) == A /\ UNCHANGED <<chat, jules, crashes>>
ChatOnly(A)     == A /\ UNCHANGED <<research, jules, crashes>>

ResearchProgress ==
    \/ \E found \in BOOLEAN : SearchDone(found)
    \/ SearchThrows \/ ResearchAccepted \/ ResearchDelivered
    \/ ResearchSendThrows \/ ResearchReported

ResearchClaims(t) ==
    ResearchStarts(t) \/ ResearchRetries(t) \/ ResearchRerunFails(t)

HandlerProgress(h) ==
    \/ PrepareThrows(h) \/ HoldForApproval(h) \/ LaunchNow(h)
    \/ PromptDone(h) \/ PromptThrows(h) \/ ResumeApproved(h) \/ NotifyThrows(h)
    \/ \E outcome \in {"success", "failure", "blocked", "awaiting", "pending"} :
          ExecutorReturns(h, outcome)
    \/ ExecutorThrows(h) \/ ReplyDone(h) \/ ReplyThrows(h)
    \/ ApologyDone(h) \/ ApologyThrows(h)

Fairness ==
    /\ WF_vars(Boot)
    /\ WF_vars(ResearchOnly(ResearchProgress))
    /\ \A t \in Tasks : /\ SF_vars(ResearchOnly(ResearchClaims(t)))
                        /\ WF_vars(LockExpires(t) /\ UNCHANGED <<chat, research, jules, crashes>>)
    /\ \A h \in Handlers : WF_vars(ChatOnly(HandlerProgress(h)))

FairSpec == Spec /\ Fairness

-----------------------------------------------------------------------------
(* Safety.                                                                 *)

\* Every row, every copy a handler or a worker holds in memory, and every
\* entry of the log has the fields and values the code gives it.
TypeOK ==
    /\ row \in [Tasks -> Copies \cup {NoRow}]
    /\ up \in BOOLEAN
    /\ log \in [Tasks -> Logs]
    /\ chat \in [Handlers -> Frames]
    /\ research \in ResearchFrames
    /\ jules \in JulesFrames
    /\ crashes \in 0..MaxCrashes

\* The approval status of a copy agrees with its status.
Consistent(copy) ==
    /\ copy.status = "waiting_approval" => copy.approval = "pending"
    /\ copy.status = "approved" => copy.approval = "approved"
    /\ copy.status = "rejected" => copy.approval = "rejected"

\* A row that waits for the operator is listed as pending, and approved and
\* rejected rows say so, however stale the copies are that were merged into
\* them (resolveApprovalStatus and mergeTaskForPersistence).
ApprovalMatchesStatus == \A t \in Tasks : Exists(t) => Consistent(row[t])

\* The executor is started once for a task nobody held, and otherwise once
\* for each approval: double clicks, retries and boots start nothing.
LaunchesAreEarned ==
    \A t \in Tasks :
        log[t].launches <= log[t].approvals + (IF log[t].held THEN 0 ELSE 1)

\* A /run task that was rejected while it was held is never executed, not
\* even by a handler that still works on the waiting copy.
RejectedRunNeverLaunched ==
    \A t \in Tasks :
        Kind[t] = "run" /\ log[t].rejected => log[t].launches = 0

\* A row says running only while somebody works on it: a handler that awaits
\* the executor, the worker that awaits the search, or a remote session.
RunningIsAlive ==
    up => \A t \in Tasks : HasStatus(t, {"running"}) =>
             \/ \E h \in Handlers : chat[h].pc = "executing" /\ chat[h].task = t
             \/ research.pc = "searching" /\ research.task = t
             \/ row[t].session

\* The queue never reports a research task completed before its result was
\* accepted by the chat, whatever crashed or was retried in between.
CompletedResearchWasSent ==
    \A t \in Tasks :
        Kind[t] = "research" /\ HasStatus(t, {"completed"}) => log[t].sent > 0

\* A result reaches the chat a second time only after a failed send or a
\* crash: the lock and the completed status stop every other repetition.
DuplicateNeedsFault ==
    \A t \in Tasks : log[t].sent <= 1 + log[t].faults + crashes

\* A row in delivery always leads to an answer: the jules row has a result
\* to send or a session to poll.
JulesDeliveryIsTracked ==
    \A t \in Tasks :
        Kind[t] = "jules" /\ HasStatus(t, {"delivery_pending"})
            => row[t].result \/ row[t].session

-----------------------------------------------------------------------------
(* The inductive invariants of the proofs.                                 *)

\* The statuses these flows give a copy.  rollback_pending, the one status
\* that reopens a task, is not among them.
FlowStatuses == {"pending", "parsed", "waiting_approval", "approved", "running",
                 "delivery_pending", "completed", "failed", "rejected"}

CopiesInUse == {c \in Copies : c.status \in FlowStatuses /\ Consistent(c)}

Works(frame, t) == frame.pc # "idle" /\ frame.task = t

\* Every copy, in a row or in memory, has a status of these flows and an
\* approval status that agrees with it; whoever works, works on a task whose
\* row exists.
CopiesAreSound ==
    /\ \A t \in Tasks : Exists(t) => row[t] \in CopiesInUse
    /\ \A f \in {chat[h] : h \in Handlers} \cup {research, jules} :
          /\ f.mem \in CopiesInUse
          /\ f.pc # "idle" => f.task \in Tasks /\ Exists(f.task)

IndInv == TypeOK /\ CopiesAreSound

Notifying(t) == {h \in Handlers : chat[h].pc = "notifying" /\ chat[h].task = t}

\* The entry of a task that was neither held, nor approved, nor started.
Untouched(entry) == ~entry.held /\ entry.approvals = 0 /\ entry.launches = 0

\* Every start of t, and every approval a handler will still turn into one,
\* was earned.
Earned(t) ==
    log[t].launches + Cardinality(Notifying(t))
       <= log[t].approvals + (IF log[t].held THEN 0 ELSE 1)

\* A handler that prepares t is alone at work on it, with a fresh copy.
Prepared(t) ==
    \A h \in Handlers : Works(chat[h], t) /\ chat[h].pc = "preparing" =>
        /\ Untouched(log[t])
        /\ row[t].status = "parsed" /\ chat[h].mem.status = "parsed"
        /\ \A g \in Handlers \ {h} : ~Works(chat[g], t)
        /\ ~Works(research, t) /\ ~Works(jules, t)

Accounted(t) == Earned(t) /\ (~Exists(t) => Untouched(log[t])) /\ Prepared(t)

\* An approval that was not used yet has a handler that will use it, and the
\* handler that prepares a task is the only one at work on it.
ApprovalsAccounted == \A t \in Tasks : Accounted(t)

-----------------------------------------------------------------------------
(* Action properties.                                                      *)

\* A task whose row reached a terminal status never becomes active again,
\* whichever stale copy is written over it.
TerminalNeverReopened ==
    [][\A t \in Tasks : HasStatus(t, Terminal) => row'[t].status \in Terminal]_vars

\* The remote session of a jules task that is still open is never forgotten
\* by a write of a copy that was read before the session was known.
SessionKeptWhileOpen ==
    [][\A t \in Tasks :
          Exists(t) /\ row[t].session /\ row'[t].status \notin Terminal
             => row'[t].session]_vars

-----------------------------------------------------------------------------
(* The promise of TaskLedger.                                              *)

Phase == [t \in Tasks |-> IF ~Exists(t) THEN "absent"
                          ELSE IF row[t].status \in Terminal THEN "closed"
                          ELSE "open"]

Ledger == INSTANCE TaskLedger WITH
             phase   <- Phase,
             held    <- [t \in Tasks |-> log[t].held],
             granted <- [t \in Tasks |-> log[t].approvals],
             started <- [t \in Tasks |-> log[t].launches]

\* The process implements the ledger: one-way closing, earned starts.
LedgerSpec == Ledger!Spec

-----------------------------------------------------------------------------
(* Liveness.                                                               *)

\* Every accepted research task is closed in the end.
ResearchSettles ==
    \A t \in Tasks : Kind[t] = "research" =>
        (Exists(t) ~> HasStatus(t, Terminal))

\* No /run or /research row says running forever: its handler or worker ends
\* it, or the boot after a crash does.
RunningEnds ==
    \A t \in Tasks : Kind[t] # "jules" =>
        (HasStatus(t, {"running"}) ~> ~HasStatus(t, {"running"}))

\* The chat is told how its research ended, whatever else its handlers do,
\* unless a send failed or the process died (the boot closes a research
\* without a message).
ChatIsTold ==
    \A t \in Tasks : Kind[t] = "research" =>
        (HasStatus(t, Terminal)
            ~> log[t].told \/ log[t].faults > 0 \/ crashes > 0)

-----------------------------------------------------------------------------
(* What the repository says and the code does not keep.                    *)

\* The reply to a rejection says that the task "was rejected and I will not
\* continue it" (TelegramTaskApprovalService.ts:159).
RejectedIsNotContinued ==
    [][\A t \in Tasks : HasStatus(t, {"rejected"}) => log'[t].sent = log[t].sent]_vars
=============================================================================
