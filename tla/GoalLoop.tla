------------------------------ MODULE GoalLoop ------------------------------
(***************************************************************************)
(* The goal loop: GoalLoopService judges a goal and queues a continuation  *)
(* task, GoalLoopWorkerService claims it under a lease, runs an agent and  *)
(* judges again, GoalLoopDaemonService repeats that under a lock and       *)
(* requeues what a dead worker left behind.  Goal, tasks and lock are rows *)
(* of one SQLite file that several processes open: the host with its       *)
(* daemon, `goals daemon` and `goals worker` on the command line.          *)
(*                                                                         *)
(* A process is cut at its awaits and wherever a row is read by one        *)
(* statement and written by a later one, since no transaction spans both.  *)
(***************************************************************************)
EXTENDS Naturals, FiniteSets

CONSTANTS
    Daemons,       \* processes with a timer that ticks: the host
    Commands,      \* processes that run one command: `goals worker`, ...
    Holder,        \* the daemon id of each process, which holds the lock
    Nobody,        \* the holder of a lock that is free
    MaxTasks,      \* bound: continuation tasks ever created
    NoTask,        \* the task of a worker that has none
    MaxTurns,      \* goal.maxTurns
    MaxAttempts,   \* 3 in recoverStaleContinuations
    MaxItems,      \* the items each process drains at most
    MaxOperator,   \* bound: commands the operator gives
    MaxCrashes     \* bound: processes that die

Tasks == 1..MaxTasks
Workers == Daemons \cup Commands

ASSUME GoalLoopAssumption ==
    /\ IsFiniteSet(Daemons) /\ IsFiniteSet(Commands)
    /\ DOMAIN Holder = Workers /\ \A w \in Workers : Holder[w] # Nobody
    /\ MaxTasks \in Nat \ {0} /\ NoTask \notin Tasks
    /\ MaxTurns \in Nat \ {0, 1} /\ MaxAttempts \in Nat \ {0}
    /\ DOMAIN MaxItems = Workers /\ \A w \in Workers : MaxItems[w] \in Nat \ {0}
    /\ MaxOperator \in Nat /\ MaxCrashes \in Nat

VARIABLES
    goal,      \* the row of zavorth_goals
    task,      \* the rows of zavorth_tasks, in the order of created_at
    lock,      \* the holder in zavorth_locks; a lock past its end has none
    worker,    \* what each process is doing
    ops,       \* how many commands the operator gave
    crashes,   \* how many processes died
    history    \* for the properties: what excuses a second run of a task

bounds == <<ops, crashes>>
vars   == <<goal, task, lock, worker, bounds, history>>

\* No code tells a goal that is paused from one that is done or cancelled.
GoalStatuses == {"active", "stopped"}
Goals == [status: GoalStatuses, turns: Nat]

\* done: or waiting for approval, no retry; dropped: failed, blocked or
\* cancelled, which retryTask accepts.
TaskStatuses == {"absent", "queued", "claimed", "running", "done", "dropped"}
\* stale: is the lease of the claim past its end, or the row without a claim
\* past its age?
Rows == [status: TaskStatuses, attempts: Nat, stale: BOOLEAN]

Absent == [status |-> "absent", attempts |-> 0, stale |-> FALSE]
Queued == [Absent EXCEPT !.status = "queued"]

WorkerPC == {"idle",
             "locking",      \* has read the lock and may take it
             "looking",      \* is about to look for a candidate
             "claiming",     \* has read that the candidate can be claimed
             "claimed",      \* has written the claim
             "running",      \* awaits the agent
             "judging",      \* awaits the judge
             "counting"}     \* has read the turns of the goal

\* ticks: is this a tick, which has the lock to release?
\* read: the turns read; left: the items the drain may still process.
Frames == [pc: WorkerPC, ticks: BOOLEAN, task: Tasks \cup {NoTask}, read: Nat,
           left: Nat]

Idle == [pc |-> "idle", ticks |-> FALSE, task |-> NoTask, read |-> 0,
         left |-> 0]

\* expired: did a lease ever run out?; retried, resumed: by the operator;
\* raced: was a row claimed that was no longer as read?
Histories == [expired: BOOLEAN, retried: Nat, resumed: Nat, raced: BOOLEAN]

\* The operator has created the goal and run `goals loop` once.
Init ==
    /\ goal = [status |-> "active", turns |-> 1]
    /\ task = [t \in Tasks |-> IF t = 1 THEN Queued ELSE Absent]
    /\ lock = Nobody
    /\ worker = [w \in Workers |-> Idle]
    /\ ops = 0 /\ crashes = 0
    /\ history = [expired |-> FALSE, retried |-> 0, resumed |-> 0, raced |-> FALSE]

At(w, pc) == worker[w].pc = pc

Goto(w, pc) == worker' = [worker EXCEPT ![w].pc = pc]

Operates == ops < MaxOperator /\ ops' = ops + 1 /\ UNCHANGED crashes

SetStatus(t, status) == task' = [task EXCEPT ![t].status = status]

\* Mutant: the lock is deleted whoever holds it.
releaseLock_Any(w) == IF worker[w].ticks THEN Nobody ELSE lock

\* The lock after a tick of w, which deletes it only while w still holds it.
releaseLock(w) ==
    IF worker[w].ticks /\ lock = Holder[w] THEN Nobody ELSE lock

\* The drain of w is over, and with it the tick or the command.
Rest(w) ==
    /\ worker' = [worker EXCEPT ![w] = Idle]
    /\ lock' = releaseLock(w)

-----------------------------------------------------------------------------
(* The tick of a daemon: lock, recovery.                                   *)

\* The timer of a daemon fires, or the operator gives a command.
Begins(w) ==
    /\ At(w, "idle")
    /\ \/ w \in Daemons /\ UNCHANGED bounds
       \/ w \in Commands /\ Operates

\* The lock is free, ran out, or has the same holder; a busy lock ends the
\* tick without a change.
acquireLock(w) ==
    /\ Begins(w)
    /\ lock \in {Nobody, Holder[w]}
    /\ Goto(w, "locking")
    /\ UNCHANGED <<goal, task, lock, history>>

\* Mutant: only claims are recovered, not the runs.
IsStale_ClaimedOnly(t) == task[t].status = "claimed" /\ task[t].stale

\* A task whose worker is taken for dead.
IsStale(t) == task[t].status \in {"claimed", "running"} /\ task[t].stale

\* Mutant: a status that the table does not know.
NextStatus_Unknown(t) == "stale"

\* Mutant: a task is requeued however often it was tried.
NextStatus_Always(t) == "queued"

\* What recovery makes of a stale task.
NextStatus(t) == IF task[t].attempts >= MaxAttempts THEN "dropped" ELSE "queued"

\* The lock is written and the stale tasks are recovered: their claims stay
\* in the rows.
LockTaken(w) ==
    /\ At(w, "locking")
    /\ lock' = Holder[w]
    /\ task' = [t \in Tasks |-> IF IsStale(t)
                                THEN [task[t] EXCEPT !.status = NextStatus(t)]
                                ELSE task[t]]
    /\ worker' = [worker EXCEPT ![w] =
           [Idle EXCEPT !.pc = "looking", !.ticks = TRUE, !.left = MaxItems[w]]]
    /\ UNCHANGED <<goal, bounds, history>>

\* `goals worker` drains without a lock and without recovery.
WorkerStarts(w) ==
    /\ w \in Commands /\ At(w, "idle") /\ Operates
    /\ worker' = [worker EXCEPT ![w] =
           [Idle EXCEPT !.pc = "looking", !.left = MaxItems[w]]]
    /\ UNCHANGED <<goal, task, lock, history>>

-----------------------------------------------------------------------------
(* The worker: candidate, claim, agent.                                    *)

\* Mutant: a claim does not need to run out.
Claimable_Claimed(t) == task[t].status \in {"queued", "claimed"}

\* canClaim, and the filter of findCandidate.
Claimable(t) ==
    \/ task[t].status = "queued"
    \/ task[t].status = "claimed" /\ task[t].stale

\* Queued tasks before overtaken claims, and old ones before new ones.
Precedes(t, u) ==
    \/ task[t].status = "queued" /\ task[u].status # "queued"
    \/ task[t].status = task[u].status /\ t < u

findCandidate(t) ==
    Claimable(t) /\ \A u \in Tasks : Claimable(u) => u = t \/ Precedes(t, u)

\* claimTask reads the row of the candidate once more ...
Found(w, t) ==
    /\ At(w, "looking") /\ findCandidate(t)
    /\ worker' = [worker EXCEPT ![w].pc = "claiming", ![w].task = t]
    /\ UNCHANGED <<goal, task, lock, bounds, history>>

NothingFound(w) ==
    /\ At(w, "looking") /\ \A t \in Tasks : ~Claimable(t)
    /\ Rest(w)
    /\ UNCHANGED <<goal, task, bounds, history>>

\* ... and writes the claim in a statement that checks nothing.
claimTask(w) ==
    /\ At(w, "claiming")
    /\ LET t == worker[w].task
       IN /\ task' = [task EXCEPT ![t].status = "claimed", ![t].stale = FALSE]
          /\ history' = [history EXCEPT !.raced = @ \/ ~Claimable(t)]
    /\ Goto(w, "claimed")
    /\ UNCHANGED <<goal, lock, bounds>>

\* updateStatus to running counts the attempt; the agent is called.
Started(w) ==
    /\ At(w, "claimed")
    /\ task' = [task EXCEPT ![worker[w].task].status = "running",
                            ![worker[w].task].attempts = @ + 1]
    /\ Goto(w, "running")
    /\ UNCHANGED <<goal, lock, bounds, history>>

-----------------------------------------------------------------------------
(* The loop: judge the goal, then stop it or queue a continuation.         *)

IsSpent(force) == ~force /\ goal.turns >= MaxTurns

\* evaluate, up to its await: a goal that is stopped or spent is not judged.
evaluate(w, force) ==
    \/ /\ goal.status # "active"
       /\ Rest(w) /\ UNCHANGED goal
    \/ /\ goal.status = "active" /\ IsSpent(force)
       /\ goal' = [goal EXCEPT !.status = "stopped"]
       /\ Rest(w)
    \/ /\ goal.status = "active" /\ ~IsSpent(force)
       /\ Goto(w, "judging") /\ UNCHANGED <<goal, lock>>

\* The agent returns or throws: the task takes the status of the run, whoever
\* owns it by now, and the goal is judged again.
AgentReturns(w, status) ==
    /\ At(w, "running")
    /\ SetStatus(worker[w].task, status)
    /\ evaluate(w, FALSE)
    /\ UNCHANGED <<bounds, history>>

\* `goals loop`, with or without --force: the operator evaluates.
OperatorEvaluates(w, force) ==
    /\ w \in Commands /\ At(w, "idle") /\ Operates
    /\ evaluate(w, force)
    /\ UNCHANGED <<task, history>>

\* The verdict stops the goal: transition, whatever the goal is by now.
VerdictStops(w) ==
    /\ At(w, "judging")
    /\ goal' = [goal EXCEPT !.status = "stopped"]
    /\ Rest(w)
    /\ UNCHANGED <<task, bounds, history>>

\* Mutant: the goal is paused one turn late.
Spends_Late(turns) == turns > MaxTurns

\* Does the goal stop with this turn?
Spends(turns) == turns >= MaxTurns

\* Bound: the judge continues only while MaxTasks leaves a row to create.
HasRoom ==
    Cardinality({w \in Workers : At(w, "counting")})
        < Cardinality({t \in Tasks : task[t].status = "absent"})

\* createTask, and the drain goes on after a verdict to continue.
Continue(w) ==
    /\ \E t \in Tasks :
          /\ task[t].status = "absent"
          /\ \A u \in Tasks : u < t => task[u].status # "absent"
          /\ task' = [task EXCEPT ![t] = Queued]
    /\ IF worker[w].left > 1
       THEN /\ worker' = [worker EXCEPT ![w] =
                   [Idle EXCEPT !.pc = "looking", !.ticks = worker[w].ticks,
                                !.left = worker[w].left - 1]]
            /\ UNCHANGED lock
       ELSE Rest(w)

\* The verdict is to continue, and recordTurn finds the goal active.
VerdictContinues(w) ==
    /\ At(w, "judging") /\ goal.status = "active"
    /\ Spends(goal.turns + 1) \/ HasRoom
    /\ worker' = [worker EXCEPT ![w].pc = "counting", ![w].read = goal.turns]
    /\ UNCHANGED <<goal, task, lock, bounds, history>>

\* recordTurn finds it stopped and returns nothing: the goal as it was before
\* the judge stands in for it.
VerdictOutlived(w) ==
    /\ At(w, "judging") /\ goal.status # "active" /\ HasRoom
    /\ Continue(w)
    /\ UNCHANGED <<goal, bounds, history>>

\* The row of the goal is written from what was read of it.
TurnRecorded(w) ==
    /\ At(w, "counting")
    /\ LET turns == worker[w].read + 1
       IN IF Spends(turns)
          THEN /\ goal' = [status |-> "stopped", turns |-> turns]
               /\ Rest(w)
               /\ UNCHANGED task
          ELSE /\ goal' = [status |-> "active", turns |-> turns]
               /\ Continue(w)
    /\ UNCHANGED <<bounds, history>>

-----------------------------------------------------------------------------
(* The operator, the clock and the crash.                                  *)

\* goals pause, resume, done, cancel.
OperatorMoves(status) ==
    /\ Operates /\ goal.status # status
    /\ goal' = [goal EXCEPT !.status = status]
    /\ history' = [history EXCEPT !.resumed = IF status = "active" THEN @ + 1 ELSE @]
    /\ UNCHANGED <<task, lock, worker>>

\* goals tick.
OperatorTicks ==
    /\ Operates /\ goal.status = "active"
    /\ goal' = [status |-> IF Spends(goal.turns + 1) THEN "stopped" ELSE "active",
                turns  |-> goal.turns + 1]
    /\ UNCHANGED <<task, lock, worker, history>>

cancelTask(t) ==
    /\ Operates /\ task[t].status \notin {"absent", "dropped"}
    /\ SetStatus(t, "dropped")
    /\ UNCHANGED <<goal, lock, worker, history>>

retryTask(t) ==
    /\ Operates /\ task[t].status = "dropped"
    /\ task' = [task EXCEPT ![t].status = "queued", ![t].stale = FALSE]
    /\ history' = [history EXCEPT !.retried = @ + 1]
    /\ UNCHANGED <<goal, lock, worker>>

\* What runs without an await is shorter than a lease: the claim outlives the
\* statements up to the agent, and the lock those up to the first agent.
InFirstStretch(w) ==
    /\ worker[w].ticks /\ lock = Holder[w]
    /\ worker[w].left = MaxItems[w]
    /\ worker[w].pc \notin {"running", "judging", "counting"}

\* Nothing renews a lease, however long the agent takes; a running row whose
\* lease a retry removed goes stale by its age.
LeaseExpires(t) ==
    /\ task[t].status \in {"claimed", "running"} /\ ~task[t].stale
    /\ \A w \in Workers : worker[w].task = t => ~At(w, "claimed")
    /\ task' = [task EXCEPT ![t].stale = TRUE]
    /\ history' = [history EXCEPT !.expired = TRUE]
    /\ UNCHANGED <<goal, lock, worker, bounds>>

LockExpires ==
    /\ lock # Nobody
    /\ \A w \in Workers : ~InFirstStretch(w)
    /\ lock' = Nobody
    /\ UNCHANGED <<goal, task, worker, bounds, history>>

Crash(w) ==
    /\ ~At(w, "idle") /\ crashes < MaxCrashes
    /\ crashes' = crashes + 1
    /\ worker' = [worker EXCEPT ![w] = Idle]
    /\ UNCHANGED <<goal, task, lock, ops, history>>

\* What a worker does once its tick or its command has begun.
WorkerGoesOn(w) ==
    \/ LockTaken(w)
    \/ \E t \in Tasks : Found(w, t)
    \/ NothingFound(w) \/ claimTask(w) \/ Started(w)
    \/ \E status \in {"done", "dropped"} : AgentReturns(w, status)
    \/ VerdictStops(w)
    \/ VerdictContinues(w) \/ VerdictOutlived(w) \/ TurnRecorded(w)

ClockAdvances == LockExpires \/ \E t \in Tasks : LeaseExpires(t)

Next ==
    \/ \E w \in Workers :
          \/ acquireLock(w) \/ WorkerStarts(w) \/ WorkerGoesOn(w) \/ Crash(w)
          \/ \E force \in BOOLEAN : OperatorEvaluates(w, force)
    \/ \E status \in GoalStatuses : OperatorMoves(status)
    \/ OperatorTicks
    \/ \E t \in Tasks : cancelTask(t) \/ retryTask(t)
    \/ ClockAdvances

Spec == Init /\ [][Next]_vars

(***************************************************************************)
(* The timer of a daemon starts tick after tick, a tick or a command that  *)
(* began goes on (the agent and the judge answer or fail), and time        *)
(* passes.  The operator and new commands are not promised.                *)
(***************************************************************************)
Fairness ==
    /\ \A w \in Workers : WF_vars(WorkerGoesOn(w))
    /\ \A d \in Daemons : WF_vars(acquireLock(d))
    /\ \A t \in Tasks : WF_vars(LeaseExpires(t))
    /\ WF_vars(LockExpires)

FairSpec == Spec /\ Fairness

-----------------------------------------------------------------------------
(* Properties.                                                             *)

\* The rows and what the processes hold of them have the values the code
\* gives them.
TypeOK ==
    /\ goal \in Goals
    /\ task \in [Tasks -> Rows]
    /\ lock \in {Nobody} \cup {Holder[w] : w \in Workers}
    /\ worker \in [Workers -> Frames]
    /\ ops \in Nat /\ crashes \in Nat
    /\ history \in Histories

Runners(t) == {w \in Workers : At(w, "running") /\ worker[w].task = t}

\* Two agents work on one task at the same time only if its lease ran out,
\* the operator retried it, or two processes wrote its row at once.
OverlapNeedsCause ==
    \A t \in Tasks :
        Cardinality(Runners(t)) > 1 => history.expired \/ history.raced \/ history.retried > 0

\* A task is given to an agent MaxAttempts times at most, and once more for
\* each retry, unless two processes claimed a task at once.
RunsBounded ==
    \A t \in Tasks :
        task[t].attempts <= MaxAttempts + history.retried \/ history.raced

\* The goal uses its turn budget, and one turn more for each time the
\* operator resumes it, whoever judges at the same time.
BudgetKept == goal.turns <= MaxTurns + history.resumed

\* A lock that has not run out is lost only by a step of its holder, or to a
\* process that had read it while it was free.
LiveLockIsRespected ==
    [][lock # Nobody /\ lock' # lock =>
          \/ LockExpires
          \/ \E w \in Workers :
                /\ worker'[w] # worker[w]
                /\ Holder[w] = lock \/ At(w, "locking")]_vars

Unsettled == {"queued", "claimed", "running"}

\* A continuation does not stay queued, claimed or running, whatever process
\* dies with it.
ContinuationSettles ==
    \A t \in Tasks :
        task[t].status \in Unsettled ~> task[t].status \notin Unsettled

\* No continuation is queued for a goal that is not active.
StoppedGoalIsNotContinued ==
    [][\A t \in Tasks :
          task[t].status = "absent" /\ task'[t].status = "queued" =>
              goal.status = "active"]_vars
=============================================================================
