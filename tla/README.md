# Zavorth task runtime: specifications, model checking and proofs

TLA+ specifications of the part of Zavorth that decides what happens to a task
after a message arrives: the state machine, the rows in `system_tasks`, the
chat handlers, the two asynchronous queues, the crash of the process and the
boot recovery; of the bridge mailbox, which makes tasks of message files; of the
goal loop, which several processes drive over one database; of the job
scheduler; and of two services that keep their state in files: the outbox of a
channel and the lock of a process. Paths are relative to the repository root; the
TypeScript code is under `src/`.

## 1. Inventory

The repository is large (a CLI fork, mobile and desktop apps, an AI gateway, UI,
plugins, SDKs). Its core logic is the task runtime below; everything else calls
it or is called by it.

| Component | State it keeps | Operations | Interacts with | Hard behaviour | Correct when |
|---|---|---|---|---|---|
| State machine, `TaskRepository`, `TaskManager` | rows of `system_tasks` | `advanceState`, `save` (merge), `claimNextTaskByCommands` | everybody | whole-row writes of copies read before an await; equal ranks | a stale write never reopens a task, approval fits status |
| Chat task flow (`TelegramTaskOrchestrationController`, `…ApprovalGateService`, `…ApprovalService`, `…ExecutionLifecycleService`, `…ExecutionGatewaySubmissionService`) | one task copy per update | message, hold, approve, reject, resume, execute, reply | rows, executor, chat; the web console calls the same handlers | several updates at once, throws at each await, double decisions | one execution per approval; a rejected task does not run |
| Research queue (`ResearchQueueWorker`) | one task copy, queue lock in the row | enqueue, claim, search, deliver, retry | rows, chat | failed sends, crash after send, expiring lock | completed implies delivered; settles |
| Jules queue (`JulesQueueWorker`) | as above | claim, poll, review, deliver | rows, remote session, chat handlers | poller and handler on one row | session kept, no reopening |
| Process and `RecoveryManager` | – | crash, boot scan | rows | handlers lost between two steps | no row runs without a runner |
| Bridge mailbox (`MailboxWatcher`, `BridgeProtocolAdapter`, the inbox part of `BridgeManager`) | inbox, processed, rejected, seen markers, answer files; the ids remembered in memory | deposit, watch event, scan, reject, claim, plan, hold, run, answer | rows, gateway, the operator's handlers | crash between marker, move and task; replay; dropped watch events | a message becomes one task at most; it is lost only to a fault; its task is answered |
| Outbox (`WebhookGateway.sendMessage`, `OutboxRetryService`) | one file per message | send, store, retry, delete, back off, reject | channels | crash or failing file operation between send, rewrite and deletion; lost answers | no message lost; bounded attempts; duplicates only for a fault |
| Process lock (`ProcessLockService`) | one lock file | acquire, ensure, release | OS processes | two starters, stale owners, partial files | at most one owner |
| Goal loop (`GoalLoopDaemonService`, `GoalLoopWorkerService`, `GoalLoopService`, `ZavorthOperationalStateDbService`) | goals, tasks with leases, locks: rows of one SQLite file | tick, recover, claim, run, judge, count a turn; `goals …` and `tasks …` on the command line | several processes | lease shorter than the work, reads and writes in separate statements, two judges | one agent per task, bounded attempts and turns, every continuation settles |
| Scheduler (`src/scheduler`, `ZavorthSchedulerTool`) | jobs in memory and in `jobs.json`, timer, loops | start, stop, tick, catch-up, dispatch; create, update, delete, run_now | webhooks | overlapping loops, stale objects, a throw in a tick (nothing in the product starts the engine yet: its callers are tests and `run_now`) | a run per due time, a deleted job stays deleted, one timer |
| Permissions (`PermissionService`) | permission requests | create, decide, resume | chat flow | decision racing expiry | – |
| Transactional execution, mutation plane | file snapshots | begin, commit, restore | executor | partial failure | – |
| Rollback (`RollbackManager`) | – | undo | chat flow | not reachable, see 8 | – |

`PROJECT.json` lists every component, modelled or not, and the hazards at their
lines.

## 2. Modules

    TaskLifecycle   operators on copies: TRANSITIONS, merge, advanceState
      TaskStore     rows, up, log; save, claim, lock expiry
        ChatFlow        handlers        (VARIABLE chat)
        ResearchQueue   research worker (VARIABLE research)
        JulesQueue      jules poller    (VARIABLE jules)
          TaskOS        the three together, Crash, Boot, properties
            TaskOS_proofs   theorems on rows and copies
              TaskLedger_proofs   theorems on starts and the ledger
                TaskRunners_proofs  theorems on running rows, sessions and sends
            MCTaskOS        instances for TLC
    TaskLedger      the abstract specification TaskOS implements
    Mailbox         ChatFlow with the inbox, the scanner and the answers
      Mailbox_proofs, MCMailbox
    MailboxLedger   the abstract specification Mailbox implements
    GoalLoop        goal, tasks, lock, the daemons and commands over them
      GoalLoop_proofs, MCGoalLoop
    Scheduler       engine, store and tool (its configurations need no MC module)
      Scheduler_proofs
    Outbox          sendMessage and processOutbox over the files of a channel
      Outbox_proofs, MCOutbox
    OutboxLedger    the abstract specification Outbox implements
    ProcessLock     acquire, ensure, release by several processes
      ProcessLock_proofs, MCProcessLock

`Mailbox` composes with the tasks: its scanner writes the same rows, with the same
merge, as the handlers of `ChatFlow`, and a plan that was held is decided by those
handlers. `GoalLoop` keeps its own tasks (`zavorth_tasks`, with other statuses than
`system_tasks`). `Outbox`, `ProcessLock` and `Scheduler` share no state with the
tasks: a reply that a channel queues has left its handler, the lock is taken
before the database is opened, and a job calls its webhook itself.

*Grain of atomicity.* Node runs code between two awaits without interruption and
`better-sqlite3` is synchronous, so one segment of a handler between two awaits
is one action, and every other actor may act while it awaits. `pc` names the
await a handler is in. A segment that saves a copy twice makes the merge twice
(`SaveTwice`); a third save of an unchanged copy changes nothing more and is left
out.

*Copies.* A row and each handler's copy keep five fields: `status`, `approval`,
`result` (is `result_summary` set), `session` (is `jules_session_id` known) and
`lock` (`queue_lock`). Texts, artifacts, risk and routing are abstracted: which
branch the code takes is a choice between actions.

*Log.* `log` is a history variable: approvals, launches, sends, faults. No action
of the system reads it except for the two bounds (`MaxApprovals`, `MaxFaults`).

*External.* The executor, the remote jules session, the search and the chat API
may return any outcome the code distinguishes, or throw. A send is two steps,
because the chat can accept a message whose acknowledgement never arrives. The
lock timeout is the action `LockExpires`, enabled at any time.

*Concurrency.* grammY hands Telegram updates to the handlers one after the other,
but the web console and the other surfaces call the same handlers
(`WebAppRuntimeDecisionRouteService`, `SurfaceTaskDispatchService`), and the two
queue timers run beside them; hence `Handlers`.

## 3. Correspondence of actions and code

| Action | Code |
|---|---|
| `MessageArrives`, `MessageBlocked`, `PrepareThrows` | `handleTaskMessage` |
| `HoldForApproval`, `PromptDone`, `PromptThrows` | `maybeHoldForApproval` and the catch of `handleTaskMessage` |
| `LaunchNow`, `ExecutorReturns`, `ExecutorThrows`, `ReplyDone`, `ReplyThrows`, `ApologyDone`, `ApologyThrows` | `executeImmediate`, `resumeTaskExecution`, `submitPlanViaGateway`, `storeExecutionResult` and their catches |
| `Approve`, `ApproveRefused`, `ResumeApproved`, `NotifyThrows` | `handleApproval`, `processApproval`, `resumeApprovedTaskOrWorkflow` |
| `Reject` | `handleRejection` |
| `Enqueue`, `Research…`, `Search…` | `TelegramResearchController`, `ResearchQueueWorker` |
| `Jules…`, `Session…`, `InspectThrows` | `JulesQueueWorker` |
| `LockExpires` | the `locked_at <= staleBefore` clause of `claimNextTaskByCommands` |
| `Crash`, `Boot` | the end of the process; `RecoveryManager.runBootRecovery`, awaited before surfaces and workers start |
| `SendMessage`, `SentLive`, `SendFails`, `Persist`, `PersistFails` | `WebhookGateway.sendMessage`, `dispatchLive`, `persistChannelOutboxEnvelope` |
| `Tick`, `Skip`, `Retry`, `RetrySent`, `RetryFails` | `OutboxRetryService.start` and the loop of `processOutbox` up to its await and its result |
| `Unlink`, `Rewrite`, `RejectWrites`, `Discard`, `RetryFileFails` | the file operations after the result, and the catch around them |
| `BecomesDue` | `nextAttemptAt` passes |
| `Start`, `ReadStale`, `ProbeStale`, `RemoveStale`, `Create`, `Reread`, `Reprobe`, `Truncate`, `Write` | the system calls of `ProcessLockService.acquire`, in order |
| `Ensure`, then `Truncate`, `Write` | `ensure` |
| `Release`, `ReleaseRemoves` | `release` |
| `Dies`, `Vanish` | a process ends; somebody else deletes the file |
| `Deposit`, `WatchEvent`, `Listing`, `ScanEnds` | `depositRequest`, the callback of `fs.watch`, `processInbox` |
| `RejectUnaccepted`, `RejectLate`, `RejectReplay`, `Noted`, `Claim`, `MarkerThrows`, `Moved` | `processMessageFile` up to the rename |
| `TaskCreated`, `PlanMade`, `HoldPlan`, `Asked`, `RunPlan`, `GatewayDecides`, `Reported`, `CannotComplete`, `Answered`, `AnswerThrows` | `processMessageFile` from the task to its answer, `executePlanThroughGateway`, `writeBridgeResponse` |
| `CaughtFails`, `CaughtThrows`, `Apologised`, `ApologyFails`, `ReadThrows` | the catch of `processMessageFile` and what escapes it |
| `acquireLock`, `LockTaken`, `Rest` | `GoalLoopDaemonService.tick` with `acquireLock`, `recoverStaleContinuations`, `releaseLock` |
| `WorkerStarts`, `Found`, `NothingFound`, `claimTask`, `Started`, `AgentReturns` | `drain`, `findCandidate`, `runNext` |
| `evaluate`, `VerdictStops`, `VerdictContinues`, `VerdictOutlived`, `TurnRecorded` | `GoalLoopService.evaluate` around its await, `recordGoalTurn` |
| `OperatorEvaluates`, `OperatorMoves`, `OperatorTicks`, `cancelTask`, `retryTask` | `goals loop`, `goals pause/resume/done/cancel`, `goals tick`, `tasks cancel`, `tasks retry` |
| `LeaseExpires`, `LockExpires` (of `GoalLoop`) | the clock passes the end of a lease or of a lock |
| `start`, `stop`, `tick`, `Delivered`, `NoNextRun` | `ZavorthSchedulerEngine`, cut at the webhook |
| `create`, `updateEnabled`, `updateSchedule`, `updateThrows`, `delete`, `run_now` | `ZavorthSchedulerTool.execute` |
| `TimePasses`, `Boot` (of `Scheduler`) | a next run comes due; `PersistentJobStore` reads `jobs.json` |

*Files.* `writeFileSync` empties a file and then writes it: a file is `Missing`,
`Torn` (it does not parse) or whole. In `Outbox` one process works, so a segment
between two awaits excludes the others (`Free`), and it is cut at its file
operations only for a crash or an error (`Cut`). In `ProcessLock` each system
call is a step, because the processes share nothing but the file. `open` tells
who has the current file open: what a process writes to a file that was removed
meanwhile goes nowhere, and when two write the same file the text may mix.

*Statements.* In `GoalLoop` the processes share a database and each statement is
one step; a process goes on without interruption only within its own event loop,
so what it has read in one statement may be stale in the next. Leases and locks
run out by actions of the clock, which are disabled only where the code runs
through without an await and so takes less time than any lease (`InFirstStretch`,
the guard of `LeaseExpires`).

*Objects.* The store of the scheduler hands out its own objects, `saveJob` puts a
copy in their place, and a schedule is shared by all copies. A job is therefore a
number of versions, and a loop holds references: what it saves may be a version
that is no longer in the map.

The map in `PROJECT.json` gives the lines.

## 4. Runs

Deadlock is checked for the goal loop, where a timer always ticks. It is not
checked elsewhere: those instances have a finite number of tasks, messages, calls
or processes, and once all are closed, or dead, nothing is left to do. The MC
modules extend the specifications; the configurations give the constants.

| Run | Instance | Question |
|---|---|---|
| `run_live` | 1 `/run`, 1 research task, 3 handlers, 2 approvals, 2 crashes, 2 failed sends, fairness | is every execution earned and every running row alive, is completed sent, is a duplicate excused by a fault, does everything end and is the chat told? |
| `run_jules` | 1 `/jules` task, 2 handlers, the poller, 1 failed send, 1 crash | does the merge keep the row sound, does `TaskOS` implement `TaskLedger`? |
| `run_mailbox` | 3 files, two of them one message and one unsigned, 1 handler, 1 fault, 1 crash, fairness | is a message one task at most, what may be lost or left behind, is it answered, does `Mailbox` implement `MailboxLedger`? |
| `run_goal` | a daemon that drains 2 tasks and a command that drains 1, 2 continuations, 3 turns, 2 attempts, 2 commands, 1 crash, fairness | do overlapping agents have a cause, are attempts and turns bounded, is a live lock respected, does every continuation settle? |
| `run_sched` | 2 jobs, 2 loops, 4 calls, 1 moment, 1 failed write, 1 crash, fairness | does a surplus run or a job that comes back have its cause, is there one timer, is a due job run? |
| `run_outbox` | 2 messages, 3 attempts, 2 faults, fairness | are retries and duplicates accounted for, does `Outbox` implement `OutboxLedger`, does the outbox drain? |
| `run_lock` | 3 processes, sequential starts, the file deleted once, fairness | is there one owner, can the next one start, does a lost file come back? |
| `bug_*` | smallest instance that shows it | a statement of the repository that the code does not keep |

*Bounds.* `MaxApprovals = 2` because a `/jules` task returns to
`waiting_approval` and can be approved again; three handlers are one more than
the two that race for a decision; one crash is enough for a stale row, two let a
recovered task crash again; two failed sends let a retry fail. `TaskOS` treats
tasks independently except for the claim of a worker, which takes one task at a
time and leaves the others as they are.
Messages of an outbox meet only in the worker's loop: two of them
show one in hand while the other is sent for the first time. Three attempts
(five in the code) give a first, a middle and a last retry, and two faults a
fault that follows another one. Three processes are an owner, one that starts,
and one that is dead or was refused. Three files of a mailbox are an original, its
replay and one that is refused; one fault and one crash let every awaited call of
the scan fail or be the last one, and a crash may follow the fault. Two processes
of the goal loop, one with a lock and one without, are the least that race; two
continuations let a drain go on to a second task, two attempts (three in the code)
give a requeue and a drop, two commands a pause and a resume. Two loops of the
scheduler let a tick overlap a catch-up, a `run_now` or another tick; four calls
create two jobs, start the engine and change one of them. The inductive
invariants of section 7 are what says that larger instances show nothing new about
the safety properties proved there.

## 5. Properties

Each one has a mutant of the code, in `PROJECT.json`, that breaks it, and the
hazards there say which property watches which line.

*Tasks.* `LaunchesAreEarned` (one start per approval, or one if never held),
`RejectedRunNeverLaunched`, `RunningIsAlive`, `CompletedResearchWasSent`,
`DuplicateNeedsFault`, `JulesDeliveryIsTracked`, `ApprovalMatchesStatus`; steps:
`TerminalNeverReopened`, `SessionKeptWhileOpen`; refinement: `LedgerSpec`; liveness:
`RunningEnds`, `ResearchSettles`, `ChatIsTold`.

*Mailbox.* `OneTaskPerMessage` (the guard is a set in memory and a marker on disk,
and a crash may fall between marker, move and task), `LossNeedsFault` (claim first,
task later: each message lost has its own fault or crash), `LaunchesAreEarned`,
`StuckNeedsMissedEvent`; refinement: `LedgerSpec`; liveness: `BootDrainsInbox`,
`TaskIsAnswered`.

*Goal loop.* `OverlapNeedsCause`, `RunsBounded`, `BudgetKept` (two judges may write
the turn they both read), the step property `LiveLockIsRespected`, the liveness
`ContinuationSettles`. The properties name their excuses: a lease that ran out, a
retry, a resumption, and `raced`, a claim written over a row that was no longer as
read. What they say is that nothing else breaks the promise.

*Scheduler.* `SurplusNeedsCause`, `DeletedStaysGone`, `OneTimer`, the liveness
`DueIsRun`.

*Outbox.* `RetriesBounded` (the counter lives in a file that crashes and errors may
keep from being rewritten, and still bounds the sends), `DuplicateNeedsFault`,
`QueuedNeedsFault`; refinement: `LedgerSpec` (what is delivered was accepted, what is
rejected had all its attempts in vain, what is closed is never sent again, although
all the worker knows is in files that a crash may leave torn or late); the liveness
`OutboxDrains`.

*Lock.* `Exclusion`, the liveness `StaleLockNeverBlocks` and `LockIsRestored`.

*Behaviours without a property.* Some things the models show follow from code that
is not there, so that a property could only say so: an approved task whose "Resuming"
reply throws stays `approved`, since no handler, worker or recovery takes it up
(`TelegramTaskApprovalService.ts:100`); a stale copy may replace one terminal
status by another one the transition table allows, since all of them have rank 9
(`StateMachine.ts:112`); an approved copy may be resumed although its row was failed
meanwhile; a research that ran at a crash is failed by the boot without a message to
its chat, which `ChatIsTold` excuses; and an outbox file torn by a failure in its
rewrite is skipped at every later tick, which `QueuedNeedsFault` and `OutboxDrains`
excuse.

*Fairness* (`FairSpec`). `Boot` is weakly fair: a supervisor restarts the process.
Every awaited call returns or throws, and a timer drives each worker: weak
fairness of the handlers and of the research worker. A claim is strongly fair per
task: a row may be locked and unlocked for ever, but `ORDER BY updated_at ASC`
serves the row that was not saved for longest. Locks time out: weak fairness of
`LockExpires`. Nothing is assumed of users. That `MaxFaults` and `MaxCrashes` are
finite says that sends and the process do not fail for ever.

The outbox: a send returns or throws, the timer ticks, a backoff ends, and the
process is restarted; a message that nobody sends yet is not sent. The channel
may be configured or not at each boot, which `OutboxDrains` allows for. The lock:
a process in `acquire` goes on, and an owner calls `ensure`, which the host does
on every heartbeat (`host.ts:378`).

The mailbox: a supervisor restarts the process, every awaited call of the scan
returns or throws, and an event of `fs.watch` that was not dropped is delivered;
nobody promises a deposit or a decision. The goal loop: the timer of a daemon
starts tick after tick, a process that began goes on (the agent and the judge
answer or fail), and the clock passes the ends of leases and locks; commands are
not promised, so `ContinuationSettles` rests on the daemon. The scheduler: the timer
fires while it is set and a webhook answers or its fetch fails; nobody promises to
start the engine, so `DueIsRun` speaks of an engine that runs.

*Overlap.* `Exclusion` holds when starts do not overlap (`Overlap = FALSE`): the
host forks a worker, waits for its exit event, and forks the next one. Nothing
keeps an operator from starting two hosts or two kernels at once; that is
`bug_lock`. Pids are not used again in the model.

## 6. Where the code departs from what the repository says

| Run | Statement | What happens |
|---|---|---|
| `bug_rejected` | "was rejected and I will not continue it." (`TelegramTaskApprovalService.ts:159`) | the poller finishes with the copy it claimed before the rejection: the result is sent and the row completed |
| `bug_lock` | "Prevents duplicate minimal-kernel instances in the same workspace." (`MinimalCapabilityRegistry.ts:128`) | the file of an exclusive create is empty until it is written; a second starter reads no lock in it, overwrites it, and both own the lock |
| `bug_mailbox` | other programs "receive a structured response in the response directory." (`BridgeProtocolSchema.ts:6`) | the gateway blocks, fails or holds the plan and returns normally; the answer file says `COMPLETED` |
| `bug_goal` | "so the loop will not continue it." (`GoalLoopService.ts:118`) | the goal is stopped while the judge is awaited; the copy read before stands in for it, and a continuation is queued |
| `bug_sched` | "*at-most-one* execution policy to prevent duplicate triggers" (`docs/ARCHITECTURE_DOCTRINE.md:45`) | the next run of an `at` job is its moment again: the catch-up runs it, and so does the first tick |

## 7. Proofs

`TaskOS_proofs`, `TaskLedger_proofs` and `TaskRunners_proofs` hold for every finite
set of handlers, every set of tasks of any kinds, and every value of the bounds. The only
assumptions are the named ones of the modules: the kinds of the tasks, `NoRow`
and `NoTask` outside their sets, `Handlers` finite, the bounds natural numbers.
`Outbox_proofs` and `ProcessLock_proofs` hold for every set of messages and of
processes and every value of the other constants; `Mailbox_proofs`,
`GoalLoop_proofs` and `Scheduler_proofs` for every value of theirs that the
assumptions of the module allow.

*Rows and copies.* `IndInv` is `TypeOK /\ CopiesAreSound`. `TypeOK` alone is not
inductive enough: that a terminal row survives a save is false for a copy with
status `rollback_pending`, which every terminal status may change to, so the
invariant must say that no copy anywhere, in a row or in memory, has a status
outside `FlowStatuses`. `SavedInUse` is the core: a merge of two copies in use is
a copy in use, and terminal when the row was. Each action is then a `SoundStep`
(rows, frames and log stay well formed; no row vanishes or reopens), from which
follow `TypeCorrect`, `CopiesStaySound`, `ApprovalAgrees` and `TerminalIsFinal`.

*Starts.* `LaunchesAreEarned` is not inductive: it does not know how many
handlers are about to start the executor. `Earned` counts them: starts made plus
handlers in `notifying` never exceed what approvals, or the absence of a hold,
allow. The first start needs that nobody else is at work on the task
(`Prepared`), which holds because its row still says `parsed`, a status that no
decision and no worker takes up. Most steps are `Quiet` (lemma `Steps`): they
start no handler on a task and leave its approvals and starts alone, which
preserves the accounting (`KeptAccounted`); each of the seven other actions has a
lemma of its own. Results: `ApprovalsStayAccounted`, `LaunchesStayEarned`.

*Running rows, sessions, sends.* The remaining safety properties of `TaskOS` need one
more invariant, `RunnersInv`, because each of them is about a row and about copies of
it that others will still write. `Fit` says what each frame and row may look like: a
`/run` or research copy never has a session, a frame that executes has a running
copy, what is not a research and waits for its delivery has a session. `SessionTied`
says that while a row is open with a session, whoever will write it open knows the
session too; without one, at most one handler is at work on it, none while it waits
for approval, and the poller is not. `RejectionTied` follows a `/run` task from its
hold to its rejection. `SendsCounted` says that every send but one is paid by a
failed send or a crash, and that one too as long as nobody has taken the answer or
closed the row: a claim starts with all sends paid, and the chat's acceptance is the
one that is not. A write is a `Puts`: the row takes the copy, or keeps its own status
and takes the session of the copy (`SavedMerges`, `TwiceMerges` for the two saves of
one segment). `HandlerKeeps`, `ResearchKeeps` and `JulesKeeps` say what a step of
each actor in its own task has to show; the lemmas after them show it, action by
action. Results: `RunningStaysAlive`, `RejectedNeverLaunched`, `CompletionWasSent`,
`DuplicatesArePaid`, `DeliveryStaysTracked`, `SessionsAreKept`.

*Refinement.* `ImplementsLedger` maps a row to its phase and the log to the
ledger's counters. A quiet step closes the tasks whose rows became terminal
(several at a boot), the others are `Open`, `Hold`, `Grant` and `Start`;
`SavedPhase` says that saving a copy that is not terminal neither opens nor
closes a row, which is what lets a stale `running` copy start a task whose row
was closed meanwhile without reopening it.

*Outbox.* The bounds on retries and acceptances are not inductive: the attempts are
in a file that may lag behind the sends. `Counted` says by how much (one lost
count per fault, and one more while a retry is under way), `Paid` which
acceptances have been paid for by a lost answer or a fault: a rejected message
that is at rest again has had a fault it has not used. Each of the four parts of
`OutboxInv` is one lemma, with one step per action; from it follow
`RetriesStayBounded`, `DuplicatesNeedFaults`, `RejectedHadItsTries` and
`QueuedStaysStored`. `ImplementsLedger` maps the places of a message to what its
caller can tell apart: with the sender, in the outbox, or closed. The guards of the
ledger are the accounts: `Retry` and `Accept` need `Counted` and `Paid` in the state
before, `Reject` needs them of a message whose copy is in `rejected` already, and
`Deliver` that a file is deleted only after an accepted send. A fault is one step of
the ledger, which tells any of the callers that wait and moves nothing that is
stored. `RejectedWasTried` is proved and no longer run: the guard of `Reject`
says it of the step that closes a message, and the theorem of every copy in `rejected`,
those of messages that came back after a fault included.

*Lock.* `LockExcludes` assumes `~Overlap` and nothing else. `ExclusionInv` adds to
`Exclusion` that the file names its owner and that what a process in `acquire`
has read stays true until it acts on it: the owner may go meanwhile, but no other
process can come. After a file was deleted from outside nothing is claimed.

*Mailbox.* `OneTaskPerMessage` counts rows, and says nothing of the claims that will
become rows. Its inductive form (`IndInv`, `TypeOK /\ Ties`) ties disk, memory and
rows together: a message of which a task was made is marked on disk, a file that is
being claimed belongs to a marked message of which no task was made yet, and the
scanner, the handlers and the answers in hand have tasks. A crash empties the
memory and the scanner and keeps disk and rows, and the ties survive it because
the marker is written before the rename and before the task. From them follow
`OneTaskForEver`, the refinement `ImplementsLedger` (a message is `new`, `claimed`
and then a task, by the marker and the rows), and, with the account of launches of
`ChatFlow`, `LaunchesStayEarned`. `LossesNeedFaults` needs a count: a message that
was seen and is neither a task nor in the hand of the scanner is lost, and a step
loses at most one, with a fault or a crash of its own.

*Goal loop.* `Exclusive` strengthens `OverlapNeedsCause`: without an excuse nothing is
stale, a queued task is in no hand, and two processes with a task in hand are one.
`AttemptsCounted` adds to the attempts made those that are `Left` without a new
decision: one for each claim in hand, one for a queued task, and one for a claim
that a dead process left behind, since another one may take it over. It needs
`StaleIsFree`: recovery requeues a task only when no claim of it is in hand, because
a lease does not run out between the claim and the attempt. `TurnsCounted` says of
a judge that has read the turns that its write stays in the budget, whatever was
written meanwhile. The steps are sorted once into kinds (`StepKinds`: a row is
closed, created, retried, expires, is claimed or started, or all stale rows are
recovered), and each part of the invariant is one lemma over the kinds.

*Scheduler.* `OneTimer` needs `TimerInv`: while the engine catches up it runs, has no
timer, and does so in one loop; otherwise a second start or the end of the catch-up
would overwrite a handle.

`SurplusNeedsCause` says what became of the runs of a job, and nothing of the ones
to come. `SchedInv` does: a job that is not excused and is owed a run (`Owed`: it is
due in the map or due in the file while nobody runs it, or a loop that will run it
has it in its list) still has a run to spare (`Entitled`). That is kept because
nobody else takes that run: two loops have a job in hand only if it is excused
(`OneHand`), and while one awaits its webhook the job is due in map and file without
being owed. What a loop writes when its webhook answers lies ahead, in memory and in the
file, since the schedule of a job that is not excused is an interval in both
(`Plain`), which a restart needs too: it takes objects and schedules from the file
alone (`loadFromDiskIs`). A process that is gone has no loops (`Down`), so nothing
is half done at a boot. The versions of a job (section 3, *Objects*) need a place
that no loop holds: `FreeVersion` finds one by the pigeonhole principle, because map,
file and loops have each job once (`Distinct`). `DeletedStaysGone` speaks of the map;
`Gone` says of the file and of every list that they do not have the job either,
while no write failed, and `Known` that a new job is not given its id.
`DeliveredKeepsSched` is the longest step: the object changes, a copy is saved, the list
shrinks and the next job begins, all at once. Results: `SurplusHasCause`,
`DeletedNeverReturns`, `SchedulerTypes`, `SchedInvHolds`.

*Filters.* The lists of the scheduler are what a filter leaves of the map, of
whatever length. `Filter` is a recursive function, and what it computes is proved by
induction in the form of sets: a set of numbers that is not empty has a least
element (`LeastElement`, from the library's theorem that strict inclusion of finite
sets is well founded), so what holds of 0 and passes on from each number to the next
holds up to the length of the list (`UpTo`). `FilterPicks` then says that the result is
exactly the members the filter asks for, each once and in the order of the list.

*Only model-checked:* the liveness properties (fairness and ENABLED are outside
the prover's reach). Every safety property of a passing run, the action properties
and the three refinements are theorems. `SchedInv` was checked with TLC on the instance
of `run_sched`, and with three loops on part of its states, before it was proved.

## 8. Not modelled

- *Rollback.* `undo` cannot be reached through the chat: the controller requires a
  module path that does not exist before its `try`
  (`TelegramExecutionController.ts:153`).
- Workflow resumption, the bridge branch of the chat flow, and the permission
  requests of external executors: branches of the same handlers that leave the
  task row to another component.
- The statuses `planned`, `validating`, `cancelled`, `reverted` and
  `rollback_pending` are in the tables of `TaskLifecycle`, but no modelled flow
  sets them.
- A save is one SQLite transaction per commit; a crash between the commits of
  one segment is not modelled.
- Of the outbox: the loop over several gateways, which shares nothing between
  them, and the e-mail plan, which answers ok without a send. Of the lock: a
  payload without a pid, which no code writes.
- Of the mailbox: the status files, the signature and the schema of a message (a
  file is accepted or not), `BridgeManager` polling for answers, the purge of old
  files. Of the goal loop: boards, the schedule plane of a tick, the JSON store
  without a database, the back-off after a failed tick, a database that throws. Of
  the scheduler: jobs without `nextRunAt`, `clearAll`, the run history, the lane
  time-out (the default executor never waits), the stagger offset.
- Permissions: planned, see 9. Transactional execution and the executors are, from
  the tasks, the executor of `ChatFlow`, which may return or throw anything the code
  tells apart. The CLI fork, mobile and desktop apps, gateway adapters, UI and SDKs,
  which are most of the repository's lines, hold no task state that these models
  would show.

## 9. Plan

1. `Permissions` (`PermissionService`, `PermissionRepository`) composed with
   `ChatFlow`: a decision racing expiry, and the resume of an execution gated by it.
2. The branches of the chat flow that leave the task to another component: the
   bridge executor with its answer polled by `BridgeManager`, which would close the
   loop with `Mailbox`, and named workflows.
3. Proofs about them in the manner of section 7.
