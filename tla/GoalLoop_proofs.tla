--------------------------- MODULE GoalLoop_proofs ---------------------------
(***************************************************************************)
(* Proofs about GoalLoop, for any daemons, commands, tasks, leases that    *)
(* run out, crashes and commands of the operator: type correctness, one    *)
(* agent at a time, the bound on attempts, the turn budget of the goal and *)
(* the lock of the daemon.                                                 *)
(***************************************************************************)
EXTENDS GoalLoop, FiniteSetTheorems, TLAPS

-----------------------------------------------------------------------------
(* The invariant.                                                          *)

\* What a process does with a task it was given.
Engaged == {"claiming", "claimed", "running"}

\* A process at rest holds nothing, not even the memory of a tick.
IdleIsIdle == \A w \in Workers : At(w, "idle") => worker[w] = Idle

\* A process works on a task that was created.
EngagedHaveTasks ==
    \A w \in Workers : worker[w].pc \in Engaged =>
        worker[w].task \in Tasks /\ task[worker[w].task].status # "absent"

\* A row that was not created yet is blank.
AbsentIsBlank == \A t \in Tasks : task[t].status = "absent" => task[t] = Absent

Base == TypeOK /\ IdleIsIdle /\ EngagedHaveTasks /\ AbsentIsBlank

\* The processes about to count an attempt at t, and those that also run it.
Hands(t)  == {w \in Workers : At(w, "claimed") /\ worker[w].task = t}
Active(t) == {w \in Workers : worker[w].pc \in {"claimed", "running"} /\ worker[w].task = t}

\* As long as no lease ran out, no row was written by two processes at once
\* and nothing was retried: one process at most has a task in hand, and none
\* while the task is queued.
Exclusive ==
    \/ history.expired \/ history.raced \/ history.retried > 0
    \/ \A t \in Tasks :
          /\ ~task[t].stale
          /\ task[t].status \in {"absent", "queued"} => Active(t) = {}
          /\ \A w, v \in Active(t) : w = v

\* A lease does not run out in the statements between claim and attempt.
StaleIsFree == \A t \in Tasks : task[t].stale => Hands(t) = {}

\* The attempts that may still be counted without a new decision on t: one
\* for each claim in hand, one for a task that is queued, and one for a claim
\* that a dead process left behind.
Left(t) ==
    IF task[t].status = "queued" THEN Cardinality(Hands(t)) + 1
    ELSE IF task[t].status = "claimed" /\ Hands(t) = {} THEN 1
    ELSE Cardinality(Hands(t))

AttemptsCounted ==
    \/ history.raced
    \/ \A t \in Tasks : task[t].attempts + Left(t) <= MaxAttempts + history.retried

\* The budget of turns, of the goal and of a process that has read it.
TurnsCounted ==
    /\ goal.turns <= MaxTurns + history.resumed
    /\ goal.status = "active" => goal.turns < MaxTurns + history.resumed
    /\ \A w \in Workers : At(w, "counting") => worker[w].read < MaxTurns + history.resumed

GoalInv == Base /\ Exclusive /\ StaleIsFree /\ AttemptsCounted /\ TurnsCounted
-----------------------------------------------------------------------------
(* What the actions do to one process and to one row.                      *)

\* Process w moves to pc, with this task and these turns read, and keeps
\* nothing of it when it is at rest.
Moves(w, pc, t, n) ==
    \E fr \in Frames :
        /\ worker' = [worker EXCEPT ![w] = fr]
        /\ fr.pc = pc /\ fr.task = t /\ fr.read = n
        /\ pc = "idle" => fr = Idle

\* Row t takes this status, count and age, and no other row changes.
Writes(t, status, attempts, stale) ==
    /\ task' \in [Tasks -> Rows]
    /\ task'[t].status = status /\ task'[t].attempts = attempts /\ task'[t].stale = stale
    /\ \A u \in Tasks : u # t => task'[u] = task[u]

\* A process at rest has a frame.
LEMMA IdleFrame == Idle \in Frames /\ Idle.pc = "idle" /\ Idle.task = NoTask /\ Idle.read = 0
BY DEF Idle, Frames, WorkerPC

\* A Goto moves the process to its pc, and its task and its turns stay.
LEMMA GotoMoves ==
    ASSUME TypeOK, NEW w \in Workers, NEW pc \in WorkerPC \ {"idle"}, Goto(w, pc)
    PROVE  Moves(w, pc, worker[w].task, worker[w].read)
<1> DEFINE fr == [worker[w] EXCEPT !.pc = pc]
<1>1. worker[w] \in Frames /\ worker \in [Workers -> Frames]
  BY DEF TypeOK
<1>2. fr \in Frames /\ fr.pc = pc /\ fr.task = worker[w].task /\ fr.read = worker[w].read
  BY <1>1 DEF Frames
<1>3. worker' = [worker EXCEPT ![w] = fr]
  BY <1>1 DEF Goto
<1> QED BY <1>2, <1>3 DEF Moves

\* A process whose drain is over is at rest.
LEMMA RestMoves ==
    ASSUME NEW w \in Workers, Rest(w)
    PROVE  Moves(w, "idle", NoTask, 0)
BY IdleFrame DEF Rest, Moves

\* A process that looks for a candidate holds no task.
LEMMA LooksMoves ==
    ASSUME NEW w \in Workers, NEW ticks \in BOOLEAN, NEW left \in Nat,
           worker' = [worker EXCEPT ![w] =
               [Idle EXCEPT !.pc = "looking", !.ticks = ticks, !.left = left]]
    PROVE  Moves(w, "looking", NoTask, 0)
<1> DEFINE fr == [Idle EXCEPT !.pc = "looking", !.ticks = ticks, !.left = left]
<1>1. fr \in Frames /\ fr.pc = "looking" /\ fr.task = NoTask /\ fr.read = 0
  BY DEF Idle, Frames, WorkerPC
<1> QED BY <1>1 DEF Moves

\* Where a step of process w takes it.
LEMMA StepMoves ==
    ASSUME TypeOK, NEW w \in Workers
    PROVE  /\ acquireLock(w) => Moves(w, "locking", worker[w].task, worker[w].read)
           /\ LockTaken(w) \/ WorkerStarts(w) => Moves(w, "looking", NoTask, 0)
           /\ \A t \in Tasks : Found(w, t) => Moves(w, "claiming", t, worker[w].read)
           /\ NothingFound(w) \/ VerdictStops(w) \/ Crash(w) => Moves(w, "idle", NoTask, 0)
           /\ claimTask(w) => Moves(w, "claimed", worker[w].task, worker[w].read)
           /\ Started(w) => Moves(w, "running", worker[w].task, worker[w].read)
           /\ VerdictContinues(w) => Moves(w, "counting", worker[w].task, goal.turns)
           /\ Continue(w) => Moves(w, "looking", NoTask, 0) \/ Moves(w, "idle", NoTask, 0)
           /\ \A force \in BOOLEAN : evaluate(w, force) =>
                 \/ Moves(w, "idle", NoTask, 0)
                 \/ Moves(w, "judging", worker[w].task, worker[w].read)
<1>0. /\ {"locking", "claimed", "running", "judging"} \subseteq WorkerPC \ {"idle"}
      /\ MaxItems[w] \in Nat /\ worker[w] \in Frames /\ worker \in [Workers -> Frames]
      /\ worker[w].left \in Nat /\ worker[w].ticks \in BOOLEAN /\ goal.turns \in Nat
  BY GoalLoopAssumption DEF WorkerPC, TypeOK, Frames, Goals
<1>1. acquireLock(w) => Moves(w, "locking", worker[w].task, worker[w].read)
  BY <1>0, GotoMoves DEF acquireLock
<1>2. LockTaken(w) => Moves(w, "looking", NoTask, 0)
  BY <1>0, LooksMoves DEF LockTaken
<1>3. WorkerStarts(w) => Moves(w, "looking", NoTask, 0)
  <2> SUFFICES ASSUME WorkerStarts(w) PROVE Moves(w, "looking", NoTask, 0)
    OBVIOUS
  <2>1. worker' = [worker EXCEPT ![w] = [Idle EXCEPT !.pc = "looking", !.left = MaxItems[w]]]
    BY DEF WorkerStarts
  <2> DEFINE fr == [Idle EXCEPT !.pc = "looking", !.left = MaxItems[w]]
  <2>2. fr \in Frames /\ fr.pc = "looking" /\ fr.task = NoTask /\ fr.read = 0
    BY <1>0 DEF Idle, Frames, WorkerPC
  <2> QED BY <2>1, <2>2 DEF Moves
<1>4. ASSUME NEW t \in Tasks, Found(w, t) PROVE Moves(w, "claiming", t, worker[w].read)
  <2> DEFINE fr == [worker[w] EXCEPT !.pc = "claiming", !.task = t]
  <2>1. fr \in Frames /\ fr.pc = "claiming" /\ fr.task = t /\ fr.read = worker[w].read
    BY <1>0 DEF Frames, WorkerPC
  <2>2. worker' = [worker EXCEPT ![w] = fr]
    BY <1>0, <1>4 DEF Found
  <2> QED BY <2>1, <2>2 DEF Moves
<1>5. NothingFound(w) \/ VerdictStops(w) \/ Crash(w) => Moves(w, "idle", NoTask, 0)
  BY RestMoves, IdleFrame DEF NothingFound, VerdictStops, Crash, Moves
<1>6. claimTask(w) => Moves(w, "claimed", worker[w].task, worker[w].read)
  BY <1>0, GotoMoves DEF claimTask
<1>7. Started(w) => Moves(w, "running", worker[w].task, worker[w].read)
  BY <1>0, GotoMoves DEF Started
<1>8. ASSUME VerdictContinues(w) PROVE Moves(w, "counting", worker[w].task, goal.turns)
  <2> DEFINE fr == [worker[w] EXCEPT !.pc = "counting", !.read = goal.turns]
  <2>1. fr \in Frames /\ fr.pc = "counting" /\ fr.task = worker[w].task
        /\ fr.read = goal.turns
    BY <1>0 DEF Frames, WorkerPC
  <2>2. worker' = [worker EXCEPT ![w] = fr]
    BY <1>0, <1>8 DEF VerdictContinues
  <2> QED BY <2>1, <2>2 DEF Moves
<1>9. ASSUME Continue(w)
      PROVE  Moves(w, "looking", NoTask, 0) \/ Moves(w, "idle", NoTask, 0)
  <2>1. CASE worker[w].left > 1
    <3>1. worker[w].left - 1 \in Nat
      BY <1>0, <2>1
    <3>2. worker' = [worker EXCEPT ![w] =
             [Idle EXCEPT !.pc = "looking", !.ticks = worker[w].ticks,
                          !.left = worker[w].left - 1]]
      BY <1>9, <2>1 DEF Continue
    <3> QED BY <1>0, <3>1, <3>2, LooksMoves
  <2>2. CASE ~(worker[w].left > 1)
    BY <1>9, <2>2, RestMoves DEF Continue
  <2> QED BY <2>1, <2>2
<1>10. ASSUME NEW force \in BOOLEAN, evaluate(w, force)
       PROVE  \/ Moves(w, "idle", NoTask, 0)
              \/ Moves(w, "judging", worker[w].task, worker[w].read)
  BY <1>0, <1>10, RestMoves, GotoMoves DEF evaluate
<1> QED
  BY <1>1, <1>2, <1>3, <1>4, <1>5, <1>6, <1>7, <1>8, <1>9, <1>10

\* What a step writes in the row of a task.
LEMMA StepWrites ==
    ASSUME TypeOK, NEW t \in Tasks
    PROVE  /\ \A w \in Workers : claimTask(w) /\ worker[w].task = t =>
                 Writes(t, "claimed", task[t].attempts, FALSE)
           /\ \A w \in Workers : Started(w) /\ worker[w].task = t =>
                 Writes(t, "running", task[t].attempts + 1, task[t].stale)
           /\ \A s \in TaskStatuses : SetStatus(t, s) =>
                 Writes(t, s, task[t].attempts, task[t].stale)
           /\ task' = [task EXCEPT ![t] = Queued] => Writes(t, "queued", 0, FALSE)
           /\ retryTask(t) => Writes(t, "queued", task[t].attempts, FALSE)
           /\ LeaseExpires(t) => Writes(t, task[t].status, task[t].attempts, TRUE)
<1>0. task \in [Tasks -> Rows] /\ task[t] \in Rows
  BY DEF TypeOK
<1>1. ASSUME NEW w \in Workers, claimTask(w), worker[w].task = t
      PROVE  Writes(t, "claimed", task[t].attempts, FALSE)
  <2> DEFINE x == [task[t] EXCEPT !.status = "claimed", !.stale = FALSE]
  <2>1. task' = [task EXCEPT ![t] = x]
    BY <1>0, <1>1 DEF claimTask
  <2>2. x \in Rows /\ x.status = "claimed" /\ x.attempts = task[t].attempts /\ x.stale = FALSE
    BY <1>0 DEF Rows, TaskStatuses
  <2> HIDE DEF x
  <2> QED BY <1>0, <2>1, <2>2 DEF Writes
<1>2. ASSUME NEW w \in Workers, Started(w), worker[w].task = t
      PROVE  Writes(t, "running", task[t].attempts + 1, task[t].stale)
  <2> DEFINE n == task[t].attempts + 1
             x == [task[t] EXCEPT !.status = "running", !.attempts = n]
  <2>1. task' = [task EXCEPT ![t] = x]
    BY <1>0, <1>2 DEF Started
  <2>2. n \in Nat
    BY <1>0 DEF Rows
  <2> HIDE DEF n
  <2>3. x \in Rows /\ x.status = "running" /\ x.attempts = n /\ x.stale = task[t].stale
    BY <1>0, <2>2 DEF Rows, TaskStatuses
  <2> HIDE DEF x
  <2>4. Writes(t, "running", n, task[t].stale)
    BY <1>0, <2>1, <2>3 DEF Writes
  <2> QED BY <2>4 DEF n
<1>3. ASSUME NEW s \in TaskStatuses, SetStatus(t, s)
      PROVE  Writes(t, s, task[t].attempts, task[t].stale)
  <2> DEFINE x == [task[t] EXCEPT !.status = s]
  <2>1. task' = [task EXCEPT ![t] = x]
    BY <1>0, <1>3 DEF SetStatus
  <2>2. x \in Rows /\ x.status = s /\ x.attempts = task[t].attempts /\ x.stale = task[t].stale
    BY <1>0 DEF Rows
  <2> HIDE DEF x
  <2> QED BY <1>0, <2>1, <2>2 DEF Writes
<1>4. ASSUME task' = [task EXCEPT ![t] = Queued] PROVE Writes(t, "queued", 0, FALSE)
  <2>1. Queued \in Rows /\ Queued.status = "queued" /\ Queued.attempts = 0 /\ Queued.stale = FALSE
    BY DEF Queued, Absent, Rows, TaskStatuses
  <2> QED BY <1>0, <1>4, <2>1 DEF Writes
<1>5. ASSUME retryTask(t) PROVE Writes(t, "queued", task[t].attempts, FALSE)
  <2> DEFINE x == [task[t] EXCEPT !.status = "queued", !.stale = FALSE]
  <2>1. task' = [task EXCEPT ![t] = x]
    BY <1>0, <1>5 DEF retryTask
  <2>2. x \in Rows
    BY <1>0 DEF Rows, TaskStatuses
  <2>3. x.status = "queued" /\ x.attempts = task[t].attempts /\ x.stale = FALSE
    BY <1>0 DEF Rows
  <2> HIDE DEF x
  <2> QED BY <1>0, <2>1, <2>2, <2>3 DEF Writes
<1>6. ASSUME LeaseExpires(t) PROVE Writes(t, task[t].status, task[t].attempts, TRUE)
  <2> DEFINE x == [task[t] EXCEPT !.stale = TRUE]
  <2>1. task' = [task EXCEPT ![t] = x]
    BY <1>0, <1>6 DEF LeaseExpires
  <2>2. x \in Rows /\ x.status = task[t].status /\ x.attempts = task[t].attempts /\ x.stale = TRUE
    BY <1>0 DEF Rows
  <2> HIDE DEF x
  <2> QED BY <1>0, <2>1, <2>2 DEF Writes
<1> QED BY <1>1, <1>2, <1>3, <1>4, <1>5, <1>6

-----------------------------------------------------------------------------
(* The kinds of steps.                                                     *)

\* No process comes to have a task in hand.
Withdraws ==
    \A w \in Workers : worker'[w].pc \in {"claimed", "running"} =>
        worker'[w].pc = worker[w].pc /\ worker'[w].task = worker[w].task

\* The part of the history that excuses a second run stays as it is.
SameExcuses ==
    /\ history'.expired = history.expired /\ history'.raced = history.raced
    /\ history'.retried = history.retried

\* Rows stay; a process may leave its task.
Calm == Withdraws /\ SameExcuses /\ task' = task

\* One task takes a status that is closed; processes may leave their tasks.
Closes(t) ==
    /\ Withdraws /\ SameExcuses
    /\ \E s \in {"done", "dropped"} : Writes(t, s, task[t].attempts, task[t].stale)

\* One task is created.
Creates(t) ==
    /\ Withdraws /\ SameExcuses
    /\ task[t].status = "absent" /\ Writes(t, "queued", 0, FALSE)

\* The stale tasks are requeued or dropped.
Recovers ==
    /\ Withdraws /\ SameExcuses
    /\ task' \in [Tasks -> Rows]
    /\ \A t \in Tasks :
          /\ task'[t].attempts = task[t].attempts /\ task'[t].stale = task[t].stale
          /\ ~task[t].stale => task'[t] = task[t]
          /\ \/ task'[t] = task[t]
             \/ task[t].status # "absent" /\ task'[t].status = "dropped"
             \/ /\ task[t].status # "absent" /\ task'[t].status = "queued"
                /\ task[t].attempts < MaxAttempts

\* A move that does not end with a claim in hand or an agent.
LEMMA MoveWithdraws ==
    ASSUME TypeOK, NEW w \in Workers, NEW pc, NEW t, NEW n, Moves(w, pc, t, n),
           pc \notin {"claimed", "running"}
    PROVE  Withdraws
BY DEF Moves, Withdraws, TypeOK

\* Every step is of one kind.
LEMMA StepKinds ==
    ASSUME TypeOK, EngagedHaveTasks, [Next]_vars
    PROVE  \/ Calm
           \/ \E t \in Tasks : Closes(t) \/ Creates(t) \/ retryTask(t) \/ LeaseExpires(t)
           \/ Recovers
           \/ \E w \in Workers : claimTask(w) \/ Started(w)
<1>0. UNCHANGED worker => Withdraws
  BY DEF Withdraws
<1>h. history' = history => SameExcuses
  BY DEF SameExcuses
<1>c. {"done", "dropped"} \subseteq TaskStatuses
  BY DEF TaskStatuses
<1>1. ASSUME NEW w \in Workers,
             acquireLock(w) \/ WorkerStarts(w) \/ NothingFound(w) \/ VerdictStops(w)
                \/ VerdictContinues(w) \/ Crash(w)
      PROVE  Calm
  <2>1. Withdraws
    BY <1>1, StepMoves, MoveWithdraws
  <2>2. task' = task /\ history' = history
    BY <1>1 DEF acquireLock, WorkerStarts, NothingFound, VerdictStops, VerdictContinues, Crash
  <2> QED BY <1>h, <2>1, <2>2 DEF Calm
<1>2. ASSUME NEW w \in Workers, NEW t \in Tasks, Found(w, t) PROVE Calm
  <2>1. Withdraws
    BY <1>2, StepMoves, MoveWithdraws
  <2> QED BY <1>2, <1>h, <2>1 DEF Calm, Found
<1>3. ASSUME NEW w \in Workers, LockTaken(w) PROVE Recovers
  <2>1. Withdraws
    BY <1>3, StepMoves, MoveWithdraws
  <2>2. /\ task' = [t \in Tasks |-> IF IsStale(t)
                                    THEN [task[t] EXCEPT !.status = NextStatus(t)]
                                    ELSE task[t]]
        /\ history' = history
    BY <1>3 DEF LockTaken
  <2>3. ASSUME NEW t \in Tasks, IsStale(t)
        PROVE  LET x == [task[t] EXCEPT !.status = NextStatus(t)]
               IN x \in Rows /\ x.attempts = task[t].attempts /\ x.stale = task[t].stale
                  /\ x.status = NextStatus(t)
    <3>1. task[t] \in Rows /\ NextStatus(t) \in TaskStatuses
      BY DEF TypeOK, NextStatus, TaskStatuses
    <3> QED BY <3>1 DEF Rows
  <2>4. ASSUME NEW t \in Tasks
        PROVE  /\ task'[t] \in Rows
               /\ task'[t].attempts = task[t].attempts /\ task'[t].stale = task[t].stale
               /\ ~task[t].stale => task'[t] = task[t]
               /\ \/ task'[t] = task[t]
                  \/ task[t].status # "absent" /\ task'[t].status = "dropped"
                  \/ /\ task[t].status # "absent" /\ task'[t].status = "queued"
                     /\ task[t].attempts < MaxAttempts
    <3>1. CASE IsStale(t)
      <4>1. task'[t] = [task[t] EXCEPT !.status = NextStatus(t)]
        BY <2>2, <3>1
      <4>2. /\ task'[t] \in Rows
            /\ task'[t].attempts = task[t].attempts /\ task'[t].stale = task[t].stale
            /\ task'[t].status = NextStatus(t)
        BY <2>3, <3>1, <4>1
      <4>3. task[t].status # "absent" /\ task[t].stale
        BY <3>1 DEF IsStale
      <4>4. task[t].attempts \in Nat /\ MaxAttempts \in Nat
        BY GoalLoopAssumption DEF TypeOK, Rows
      <4>5. NextStatus(t) = "dropped" \/ (NextStatus(t) = "queued" /\ task[t].attempts < MaxAttempts)
        BY <4>4 DEF NextStatus
      <4> QED BY <4>2, <4>3, <4>5
    <3>2. CASE ~IsStale(t)
      BY <2>2, <3>2 DEF TypeOK
    <3> QED BY <3>1, <3>2
  <2>5. task' \in [Tasks -> Rows]
    BY <2>2, <2>4
  <2> QED BY <1>h, <2>1, <2>2, <2>4, <2>5 DEF Recovers
<1>4. ASSUME NEW w \in Workers, NEW force \in BOOLEAN, OperatorEvaluates(w, force)
      PROVE  Calm
  <2>1. Withdraws
    BY <1>4, StepMoves, MoveWithdraws DEF OperatorEvaluates
  <2> QED BY <1>4, <1>h, <2>1 DEF Calm, OperatorEvaluates
<1>5. ASSUME NEW w \in Workers, NEW s \in {"done", "dropped"}, AgentReturns(w, s)
      PROVE  \E t \in Tasks : Closes(t)
  <2>0. evaluate(w, FALSE) /\ FALSE \in BOOLEAN
    BY <1>5 DEF AgentReturns
  <2>1. Withdraws
    BY <2>0, StepMoves, MoveWithdraws
  <2>2. PICK t \in Tasks : t = worker[w].task
    BY <1>5 DEF AgentReturns, At, EngagedHaveTasks, Engaged
  <2>3. SetStatus(t, s)
    BY <1>5, <2>2 DEF AgentReturns
  <2>4. Writes(t, s, task[t].attempts, task[t].stale)
    BY <1>c, <2>3, StepWrites
  <2> QED BY <1>5, <1>h, <2>1, <2>4 DEF Closes, AgentReturns
<1>6. ASSUME NEW w \in Workers, Continue(w), history' = history
      PROVE  \E t \in Tasks : Creates(t)
  <2>1. Withdraws
    BY <1>6, StepMoves, MoveWithdraws
  <2>2. PICK t \in Tasks : task[t].status = "absent" /\ task' = [task EXCEPT ![t] = Queued]
    BY <1>6 DEF Continue
  <2>3. Writes(t, "queued", 0, FALSE)
    BY <2>2, StepWrites
  <2> QED BY <1>6, <1>h, <2>1, <2>2, <2>3 DEF Creates
<1>7. ASSUME NEW w \in Workers, VerdictOutlived(w) PROVE \E t \in Tasks : Creates(t)
  BY <1>6, <1>7 DEF VerdictOutlived
<1>8. ASSUME NEW w \in Workers, TurnRecorded(w)
      PROVE  Calm \/ \E t \in Tasks : Creates(t)
  <2>1. CASE Spends(worker[w].read + 1)
    <3>1. Rest(w) /\ task' = task /\ history' = history
      BY <1>8, <2>1 DEF TurnRecorded
    <3>2. Withdraws
      BY <3>1, RestMoves, MoveWithdraws
    <3> QED BY <1>h, <3>1, <3>2 DEF Calm
  <2>2. CASE ~Spends(worker[w].read + 1)
    BY <1>6, <1>8, <2>2 DEF TurnRecorded
  <2> QED BY <2>1, <2>2
<1>9. ASSUME NEW s \in GoalStatuses, OperatorMoves(s) PROVE Calm
  <2>1. SameExcuses
    <3>1. history' = [history EXCEPT !.resumed = IF s = "active" THEN history.resumed + 1
                                                 ELSE history.resumed]
      BY <1>9 DEF OperatorMoves
    <3>2. history \in Histories
      BY DEF TypeOK
    <3> QED BY <3>1, <3>2 DEF SameExcuses, Histories
  <2> QED BY <1>0, <1>9, <2>1 DEF Calm, OperatorMoves
<1>10. CASE OperatorTicks \/ LockExpires \/ UNCHANGED vars
  BY <1>0, <1>h, <1>10 DEF OperatorTicks, LockExpires, vars, bounds, Calm
<1>11. ASSUME NEW t \in Tasks, cancelTask(t) PROVE Closes(t)
  <2>1. Writes(t, "dropped", task[t].attempts, task[t].stale)
    BY <1>c, <1>11, StepWrites DEF cancelTask
  <2> QED BY <1>0, <1>h, <1>11, <2>1 DEF cancelTask, Closes
<1> QED
  BY <1>1, <1>2, <1>3, <1>4, <1>5, <1>7, <1>8, <1>9, <1>10, <1>11
  DEF Next, WorkerGoesOn, ClockAdvances

-----------------------------------------------------------------------------
(* The base of the invariant.                                              *)

\* Where a step leaves a process: it moved, or stayed as it was.
LEMMA OneMoves ==
    ASSUME TypeOK, EngagedHaveTasks, [Next]_vars
    PROVE  \/ UNCHANGED worker
           \/ \E w \in Workers :
                 \/ \E pc \in WorkerPC \ (Engaged \cup {"counting"}), t \in Tasks \cup {NoTask},
                       n \in Nat : Moves(w, pc, t, n)
                 \/ VerdictContinues(w) /\ Moves(w, "counting", worker[w].task, goal.turns)
                 \/ \E t \in Tasks : Found(w, t) /\ Moves(w, "claiming", t, worker[w].read)
                 \/ /\ At(w, "claiming")
                    /\ Moves(w, "claimed", worker[w].task, worker[w].read)
                 \/ /\ At(w, "claimed")
                    /\ Moves(w, "running", worker[w].task, worker[w].read)
<1>0. /\ {"idle", "locking", "looking", "judging"} \subseteq WorkerPC \ (Engaged \cup {"counting"})
      /\ \A w \in Workers : worker[w].task \in Tasks \cup {NoTask} /\ worker[w].read \in Nat
  BY DEF WorkerPC, Engaged, TypeOK, Frames
<1>1. ASSUME NEW w \in Workers, NEW t \in Tasks \cup {NoTask}, NEW n \in Nat,
             \/ Moves(w, "idle", t, n) \/ Moves(w, "locking", t, n)
             \/ Moves(w, "looking", t, n) \/ Moves(w, "judging", t, n)
      PROVE  \E pc \in WorkerPC \ (Engaged \cup {"counting"}), u \in Tasks \cup {NoTask},
                k \in Nat : Moves(w, pc, u, k)
  BY <1>0, <1>1
<1>2. ASSUME NEW w \in Workers,
             acquireLock(w) \/ WorkerStarts(w) \/ LockTaken(w) \/ NothingFound(w)
                \/ VerdictStops(w) \/ Crash(w) \/ Continue(w) \/ Rest(w)
      PROVE  \E pc \in WorkerPC \ (Engaged \cup {"counting"}), u \in Tasks \cup {NoTask},
                k \in Nat : Moves(w, pc, u, k)
  BY <1>0, <1>1, <1>2, StepMoves, RestMoves
<1>3. ASSUME NEW w \in Workers, NEW force \in BOOLEAN, evaluate(w, force)
      PROVE  \E pc \in WorkerPC \ (Engaged \cup {"counting"}), u \in Tasks \cup {NoTask},
                k \in Nat : Moves(w, pc, u, k)
  BY <1>0, <1>1, <1>3, StepMoves
<1>4. ASSUME NEW w \in Workers, VerdictOutlived(w) \/ TurnRecorded(w)
      PROVE  Continue(w) \/ Rest(w)
  BY <1>4 DEF VerdictOutlived, TurnRecorded
<1>5. ASSUME NEW w \in Workers, NEW s, AgentReturns(w, s) PROVE evaluate(w, FALSE)
  BY <1>5 DEF AgentReturns
<1>6. ASSUME NEW w \in Workers, NEW force, OperatorEvaluates(w, force) PROVE evaluate(w, force)
  BY <1>6 DEF OperatorEvaluates
<1>7. FALSE \in BOOLEAN
  OBVIOUS
<1>8. ASSUME \/ \E s \in GoalStatuses : OperatorMoves(s)
             \/ OperatorTicks \/ LockExpires \/ UNCHANGED vars
             \/ \E t \in Tasks : cancelTask(t) \/ retryTask(t) \/ LeaseExpires(t)
      PROVE  UNCHANGED worker
  BY <1>8 DEF OperatorMoves, OperatorTicks, LockExpires, vars, cancelTask, retryTask,
     LeaseExpires
<1>9. ASSUME NEW w \in Workers, claimTask(w)
      PROVE  At(w, "claiming") /\ Moves(w, "claimed", worker[w].task, worker[w].read)
  BY <1>9, StepMoves DEF claimTask
<1>10. ASSUME NEW w \in Workers, Started(w)
       PROVE  At(w, "claimed") /\ Moves(w, "running", worker[w].task, worker[w].read)
  BY <1>10, StepMoves DEF Started
<1>11. ASSUME NEW w \in Workers, NEW t \in Tasks, Found(w, t)
       PROVE  Moves(w, "claiming", t, worker[w].read)
  BY <1>11, StepMoves
<1>12. ASSUME NEW w \in Workers, VerdictContinues(w)
       PROVE  Moves(w, "counting", worker[w].task, goal.turns)
  BY <1>12, StepMoves
<1>13. ASSUME NEW w \in Workers, WorkerGoesOn(w)
       PROVE  \/ LockTaken(w) \/ NothingFound(w) \/ VerdictStops(w) \/ Continue(w) \/ Rest(w)
              \/ \E t \in Tasks : Found(w, t)
              \/ claimTask(w) \/ Started(w) \/ VerdictContinues(w) \/ evaluate(w, FALSE)
  BY <1>4, <1>5, <1>13 DEF WorkerGoesOn
<1>14. ASSUME NEW w \in Workers, WorkerGoesOn(w)
       PROVE  \/ \E pc \in WorkerPC \ (Engaged \cup {"counting"}), t \in Tasks \cup {NoTask},
                    n \in Nat : Moves(w, pc, t, n)
              \/ VerdictContinues(w) /\ Moves(w, "counting", worker[w].task, goal.turns)
              \/ \E t \in Tasks : Found(w, t) /\ Moves(w, "claiming", t, worker[w].read)
              \/ At(w, "claiming") /\ Moves(w, "claimed", worker[w].task, worker[w].read)
              \/ At(w, "claimed") /\ Moves(w, "running", worker[w].task, worker[w].read)
  BY <1>2, <1>3, <1>7, <1>9, <1>10, <1>11, <1>12, <1>13, <1>14
<1> QED
  BY <1>2, <1>3, <1>6, <1>8, <1>14 DEF Next, ClockAdvances

\* A move gives a frame, which is Idle at rest.
LEMMA MovedFrame ==
    ASSUME TypeOK, NEW w \in Workers, NEW pc, NEW t, NEW n, Moves(w, pc, t, n)
    PROVE  /\ worker' \in [Workers -> Frames]
           /\ worker'[w].pc = pc /\ worker'[w].task = t /\ worker'[w].read = n
           /\ pc = "idle" => worker'[w] = Idle
           /\ \A v \in Workers : v # w => worker'[v] = worker[v]
BY DEF Moves, TypeOK

\* The rows stay rows, those that exist stay, and a row not created is blank.
LEMMA RowsKeep ==
    ASSUME TypeOK, EngagedHaveTasks, AbsentIsBlank, [Next]_vars
    PROVE  /\ task' \in [Tasks -> Rows] /\ AbsentIsBlank'
           /\ \A t \in Tasks : task[t].status # "absent" => task'[t].status # "absent"
<1>0. task \in [Tasks -> Rows]
  BY DEF TypeOK
<1>1. ASSUME NEW t \in Tasks, NEW s, NEW a, NEW z, Writes(t, s, a, z),
             s # "absent" \/ (s = task[t].status /\ t \notin {u \in Tasks : task[u].status = "absent"})
      PROVE  /\ task' \in [Tasks -> Rows] /\ AbsentIsBlank'
             /\ \A u \in Tasks : task[u].status # "absent" => task'[u].status # "absent"
  BY <1>1 DEF Writes, AbsentIsBlank
<1>2. CASE Calm
  BY <1>0, <1>2 DEF Calm, AbsentIsBlank
<1>3. ASSUME NEW t \in Tasks, Closes(t) \/ Creates(t)
      PROVE  /\ task' \in [Tasks -> Rows] /\ AbsentIsBlank'
             /\ \A u \in Tasks : task[u].status # "absent" => task'[u].status # "absent"
  BY <1>1, <1>3 DEF Closes, Creates
<1>4. ASSUME NEW t \in Tasks, retryTask(t)
      PROVE  /\ task' \in [Tasks -> Rows] /\ AbsentIsBlank'
             /\ \A u \in Tasks : task[u].status # "absent" => task'[u].status # "absent"
  BY <1>1, <1>4, StepWrites
<1>5. ASSUME NEW t \in Tasks, LeaseExpires(t)
      PROVE  /\ task' \in [Tasks -> Rows] /\ AbsentIsBlank'
             /\ \A u \in Tasks : task[u].status # "absent" => task'[u].status # "absent"
  <2>1. task[t].status # "absent"
    BY <1>5 DEF LeaseExpires
  <2>2. Writes(t, task[t].status, task[t].attempts, TRUE)
    BY <1>5, StepWrites
  <2> QED BY <1>1, <2>1, <2>2
<1>6. CASE Recovers
  <2>1. \A t \in Tasks : task'[t] = task[t]
                            \/ (task[t].status # "absent" /\ task'[t].status # "absent")
    BY <1>6 DEF Recovers
  <2> QED BY <1>6, <2>1 DEF Recovers, AbsentIsBlank
<1>7. ASSUME NEW w \in Workers, claimTask(w) \/ Started(w)
      PROVE  /\ task' \in [Tasks -> Rows] /\ AbsentIsBlank'
             /\ \A u \in Tasks : task[u].status # "absent" => task'[u].status # "absent"
  <2>1. PICK t \in Tasks : t = worker[w].task
    BY <1>7 DEF claimTask, Started, At, EngagedHaveTasks, Engaged
  <2>2. \/ Writes(t, "claimed", task[t].attempts, FALSE)
        \/ Writes(t, "running", task[t].attempts + 1, task[t].stale)
    BY <1>7, <2>1, StepWrites
  <2> QED BY <1>1, <2>2
<1> QED BY <1>2, <1>3, <1>4, <1>5, <1>6, <1>7, StepKinds

\* The history only grows, and a claim that overtakes another is noted.
LEMMA HistoryKeeps ==
    ASSUME TypeOK, [Next]_vars
    PROVE  /\ history' \in Histories
           /\ history.expired => history'.expired
           /\ history.raced => history'.raced
           /\ history'.retried >= history.retried
           /\ history'.resumed >= history.resumed
           /\ \A w \in Workers : claimTask(w) =>
                 /\ history'.raced = (history.raced \/ ~Claimable(worker[w].task))
                 /\ history'.expired = history.expired
                 /\ history'.retried = history.retried
           /\ \A t \in Tasks : retryTask(t) =>
                 /\ history'.retried = history.retried + 1
                 /\ history'.raced = history.raced
           /\ \A t \in Tasks : LeaseExpires(t) =>
                 /\ history'.expired
                 /\ history'.raced = history.raced
                 /\ history'.retried = history.retried
<1>0. /\ history \in Histories /\ history.retried \in Nat /\ history.resumed \in Nat
      /\ history.raced \in BOOLEAN /\ history.expired \in BOOLEAN
  BY DEF TypeOK, Histories
<1> DEFINE Grows == /\ history' \in Histories
                    /\ history.expired => history'.expired
                    /\ history.raced => history'.raced
                    /\ history'.retried >= history.retried
                    /\ history'.resumed >= history.resumed
<1>1. history' = history => Grows
  BY <1>0
<1>2. ASSUME NEW w \in Workers, claimTask(w)
      PROVE  /\ Grows
             /\ history'.raced = (history.raced \/ ~Claimable(worker[w].task))
             /\ history'.expired = history.expired
             /\ history'.retried = history.retried
  <2> DEFINE b == history.raced \/ ~Claimable(worker[w].task)
  <2>1. history' = [history EXCEPT !.raced = b]
    BY <1>2 DEF claimTask
  <2>2. b \in BOOLEAN /\ (history.raced => b)
    OBVIOUS
  <2>3. history'.raced = b
    <3> HIDE DEF b
    <3> QED BY <1>0, <2>1 DEF Histories
  <2>4. Grows /\ history'.expired = history.expired /\ history'.retried = history.retried
    <3>1. history.raced => history'.raced
      BY <2>2, <2>3
    <3> HIDE DEF b
    <3>2. /\ history' \in Histories /\ history'.expired = history.expired
          /\ history'.retried = history.retried /\ history'.resumed = history.resumed
      BY <1>0, <2>1, <2>2 DEF Histories
    <3>3. history'.retried >= history.retried /\ history'.resumed >= history.resumed
      BY <1>0, <3>2
    <3> QED BY <3>1, <3>2, <3>3
  <2> QED BY <2>3, <2>4
<1>3. ASSUME NEW t \in Tasks, retryTask(t)
      PROVE  /\ Grows /\ history'.retried = history.retried + 1
             /\ history'.raced = history.raced
  <2> DEFINE n == history.retried + 1
  <2>1. history' = [history EXCEPT !.retried = n] /\ n \in Nat /\ n >= history.retried
    BY <1>0, <1>3 DEF retryTask
  <2> HIDE DEF n
  <2>2. /\ history' \in Histories /\ history'.retried = n
        /\ history'.raced = history.raced /\ history'.expired = history.expired
        /\ history'.resumed = history.resumed
    BY <1>0, <2>1 DEF Histories
  <2>3. history'.resumed >= history.resumed /\ history'.retried >= history.retried
    BY <1>0, <2>1, <2>2
  <2> QED BY <2>2, <2>3 DEF n
<1>4. ASSUME NEW t \in Tasks, LeaseExpires(t)
      PROVE  /\ Grows /\ history'.expired /\ history'.raced = history.raced
             /\ history'.retried = history.retried
  <2>1. history' = [history EXCEPT !.expired = TRUE]
    BY <1>4 DEF LeaseExpires
  <2>2. /\ history' \in Histories /\ history'.expired = TRUE
        /\ history'.raced = history.raced
        /\ history'.retried = history.retried /\ history'.resumed = history.resumed
    BY <1>0, <2>1 DEF Histories
  <2>3. history'.resumed >= history.resumed /\ history'.retried >= history.retried
    BY <1>0, <2>2
  <2> QED BY <2>2, <2>3
<1>5. ASSUME NEW st \in GoalStatuses, OperatorMoves(st) PROVE Grows
  <2> DEFINE n == IF st = "active" THEN history.resumed + 1 ELSE history.resumed
  <2>1. history' = [history EXCEPT !.resumed = n] /\ n \in Nat /\ n >= history.resumed
    BY <1>0, <1>5 DEF OperatorMoves
  <2> HIDE DEF n
  <2>2. /\ history' \in Histories /\ history'.retried = history.retried
        /\ history'.raced = history.raced /\ history'.expired = history.expired
        /\ history'.resumed = n
    BY <1>0, <2>1 DEF Histories
  <2>3. history'.resumed >= history.resumed /\ history'.retried >= history.retried
    BY <1>0, <2>1, <2>2
  <2> QED BY <2>2, <2>3
<1>6. ASSUME NEW w \in Workers,
             \/ acquireLock(w) \/ WorkerStarts(w) \/ LockTaken(w) \/ NothingFound(w)
             \/ Started(w) \/ VerdictStops(w) \/ VerdictContinues(w) \/ VerdictOutlived(w)
             \/ TurnRecorded(w) \/ Crash(w)
             \/ \E t \in Tasks : Found(w, t)
             \/ \E st \in {"done", "dropped"} : AgentReturns(w, st)
             \/ \E force \in BOOLEAN : OperatorEvaluates(w, force)
      PROVE  Grows
  BY <1>1, <1>6 DEF acquireLock, WorkerStarts, LockTaken, NothingFound, Started,
     VerdictStops, VerdictContinues, VerdictOutlived, TurnRecorded, Crash, Found,
     AgentReturns, OperatorEvaluates
<1>7. ASSUME \/ OperatorTicks \/ LockExpires \/ UNCHANGED vars
             \/ \E t \in Tasks : cancelTask(t)
      PROVE  history' = history
  BY <1>7 DEF OperatorTicks, LockExpires, vars, cancelTask
<1> HIDE DEF Grows
<1>8. Grows
  BY <1>1, <1>2, <1>3, <1>4, <1>5, <1>6, <1>7 DEF Next, WorkerGoesOn, ClockAdvances
<1> QED BY <1>2, <1>3, <1>4, <1>8 DEF Grows

\* The goal and the counters keep their types.
LEMMA GoalKeeps ==
    ASSUME TypeOK, [Next]_vars
    PROVE  goal' \in Goals /\ ops' \in Nat /\ crashes' \in Nat
<1>0. goal \in Goals /\ ops \in Nat /\ crashes \in Nat
      /\ \A w \in Workers : worker[w].read \in Nat
  BY DEF TypeOK, Frames
<1>1. Operates => ops' \in Nat /\ crashes' \in Nat
  BY <1>0 DEF Operates
<1>2. UNCHANGED bounds => ops' \in Nat /\ crashes' \in Nat
  BY <1>0 DEF bounds
<1>3. ASSUME NEW st \in GoalStatuses, goal' = [goal EXCEPT !.status = st] PROVE goal' \in Goals
  BY <1>0, <1>3 DEF Goals
<1>4. ASSUME NEW st \in GoalStatuses, NEW n \in Nat, goal' = [status |-> st, turns |-> n]
      PROVE  goal' \in Goals
  BY <1>4 DEF Goals
<1>5. {"active", "stopped"} = GoalStatuses
  BY DEF GoalStatuses
<1>6. ASSUME NEW w \in Workers, NEW force, evaluate(w, force) PROVE goal' \in Goals
  BY <1>0, <1>3, <1>5, <1>6 DEF evaluate
<1>7. ASSUME NEW w \in Workers, TurnRecorded(w) PROVE goal' \in Goals
  <2>1. worker[w].read + 1 \in Nat
    BY <1>0
  <2> QED BY <1>4, <1>5, <1>7, <2>1 DEF TurnRecorded
<1>8. ASSUME OperatorTicks PROVE goal' \in Goals
  <2>1. goal.turns + 1 \in Nat
    BY <1>0 DEF Goals
  <2> DEFINE st == IF Spends(goal.turns + 1) THEN "stopped" ELSE "active"
  <2>2. goal' = [status |-> st, turns |-> goal.turns + 1] /\ st \in GoalStatuses
    BY <1>5, <1>8 DEF OperatorTicks
  <2> HIDE DEF st
  <2> QED BY <1>4, <2>1, <2>2
<1>9. ASSUME NEW w \in Workers,
             \/ acquireLock(w) \/ WorkerStarts(w) \/ WorkerGoesOn(w) \/ Crash(w)
             \/ \E force \in BOOLEAN : OperatorEvaluates(w, force)
      PROVE  goal' \in Goals /\ ops' \in Nat /\ crashes' \in Nat
  <2>1. acquireLock(w) \/ WorkerStarts(w) => goal' = goal /\ ops' \in Nat /\ crashes' \in Nat
    BY <1>1, <1>2 DEF acquireLock, Begins, WorkerStarts
  <2>2. Crash(w) => goal' = goal /\ ops' \in Nat /\ crashes' \in Nat
    BY <1>0 DEF Crash
  <2>3. ASSUME NEW force \in BOOLEAN, OperatorEvaluates(w, force)
        PROVE  goal' \in Goals /\ ops' \in Nat /\ crashes' \in Nat
    BY <1>1, <1>6, <2>3 DEF OperatorEvaluates
  <2>4. WorkerGoesOn(w) => UNCHANGED bounds
    BY DEF WorkerGoesOn, LockTaken, NothingFound, claimTask, Started, VerdictStops,
       VerdictContinues, VerdictOutlived, TurnRecorded, Found, AgentReturns
  <2>5. ASSUME WorkerGoesOn(w) PROVE goal' \in Goals
    <3>1. \/ goal' = goal \/ TurnRecorded(w) \/ evaluate(w, FALSE)
          \/ goal' = [goal EXCEPT !.status = "stopped"]
      BY <2>5 DEF WorkerGoesOn, LockTaken, NothingFound, claimTask, Started, VerdictStops,
         VerdictContinues, VerdictOutlived, Found, AgentReturns
    <3> QED BY <1>0, <1>3, <1>5, <1>6, <1>7, <3>1
  <2> QED BY <1>0, <1>2, <1>9, <2>1, <2>2, <2>3, <2>4, <2>5
<1>10. CASE UNCHANGED vars \/ LockExpires \/ \E t \in Tasks : LeaseExpires(t)
  BY <1>0, <1>2, <1>10 DEF vars, LockExpires, LeaseExpires
<1>11. CASE OperatorTicks
  BY <1>1, <1>8, <1>11 DEF OperatorTicks
<1>12. CASE \E t \in Tasks : cancelTask(t) \/ retryTask(t)
  BY <1>0, <1>1, <1>12 DEF cancelTask, retryTask
<1>13. CASE \E st \in GoalStatuses : OperatorMoves(st)
  BY <1>1, <1>3, <1>13 DEF OperatorMoves
<1> QED BY <1>9, <1>10, <1>11, <1>12, <1>13 DEF Next, ClockAdvances

\* What happens to the lock: it stays, or ...
LEMMA LockChanges ==
    ASSUME TypeOK, IdleIsIdle, [Next]_vars
    PROVE  \/ lock' = lock
           \/ LockExpires
           \/ \E w \in Workers : At(w, "locking") /\ LockTaken(w)
           \/ \E w \in Workers :
                 /\ lock' = Nobody /\ lock = Holder[w]
                 /\ worker[w] # Idle /\ worker'[w] = Idle
<1>1. ASSUME NEW w \in Workers, Rest(w), lock' # lock
      PROVE  /\ lock' = Nobody /\ lock = Holder[w]
             /\ worker[w] # Idle /\ worker'[w] = Idle
  <2>1. lock' = releaseLock(w) /\ worker' = [worker EXCEPT ![w] = Idle]
    BY <1>1 DEF Rest
  <2>2. worker[w].ticks /\ lock = Holder[w] /\ lock' = Nobody
    BY <1>1, <2>1 DEF releaseLock
  <2>3. worker[w] # Idle
    BY <2>2 DEF Idle
  <2> QED BY <2>1, <2>2, <2>3 DEF TypeOK
<1>2. ASSUME NEW w \in Workers,
             acquireLock(w) \/ WorkerStarts(w) \/ claimTask(w) \/ Started(w)
                \/ VerdictContinues(w) \/ Crash(w) \/ \E t \in Tasks : Found(w, t)
      PROVE  lock' = lock
  BY <1>2 DEF acquireLock, WorkerStarts, claimTask, Started, VerdictContinues, Crash, Found
<1>3. ASSUME NEW w \in Workers, NEW force, evaluate(w, force) PROVE lock' = lock \/ Rest(w)
  BY <1>3 DEF evaluate
<1>4. ASSUME NEW w \in Workers, Continue(w) PROVE lock' = lock \/ Rest(w)
  BY <1>4 DEF Continue
<1>5. ASSUME NEW w \in Workers,
             NothingFound(w) \/ VerdictStops(w) \/ VerdictOutlived(w) \/ TurnRecorded(w)
                \/ (\E st \in {"done", "dropped"} : AgentReturns(w, st))
                \/ \E force \in BOOLEAN : OperatorEvaluates(w, force)
      PROVE  lock' = lock \/ Rest(w)
  BY <1>3, <1>4, <1>5 DEF NothingFound, VerdictStops, VerdictOutlived, TurnRecorded,
     AgentReturns, OperatorEvaluates
<1>6. ASSUME NEW w \in Workers, LockTaken(w) PROVE At(w, "locking")
  BY <1>6 DEF LockTaken
<1>7. CASE \/ OperatorTicks \/ UNCHANGED vars
           \/ \E st \in GoalStatuses : OperatorMoves(st)
           \/ \E t \in Tasks : cancelTask(t) \/ retryTask(t) \/ LeaseExpires(t)
  BY <1>7 DEF OperatorTicks, vars, OperatorMoves, cancelTask, retryTask, LeaseExpires
<1> QED
  BY <1>1, <1>2, <1>5, <1>6, <1>7 DEF Next, WorkerGoesOn, ClockAdvances

\* Every step keeps the base.
LEMMA BaseKeeps ==
    ASSUME Base, [Next]_vars
    PROVE  Base'
<1>0. TypeOK /\ IdleIsIdle /\ EngagedHaveTasks /\ AbsentIsBlank
  BY DEF Base
<1>1. worker' \in [Workers -> Frames] /\ IdleIsIdle' /\ EngagedHaveTasks'
  <2>1. \A t \in Tasks : task[t].status # "absent" => task'[t].status # "absent"
    BY <1>0, RowsKeep
  <2>2. CASE UNCHANGED worker
    BY <1>0, <2>1, <2>2 DEF IdleIsIdle, EngagedHaveTasks, At, TypeOK
  <2>3. ASSUME NEW w \in Workers, NEW pc \in WorkerPC, NEW t, NEW n, Moves(w, pc, t, n),
               pc \in Engaged => t \in Tasks /\ task'[t].status # "absent"
        PROVE  worker' \in [Workers -> Frames] /\ IdleIsIdle' /\ EngagedHaveTasks'
    BY <1>0, <2>1, <2>3, MovedFrame DEF IdleIsIdle, EngagedHaveTasks, At
  <2>4. ASSUME NEW w \in Workers, NEW t \in Tasks, Found(w, t)
        PROVE  task[t].status # "absent"
    BY <2>4 DEF Found, findCandidate, Claimable
  <2>5. ASSUME NEW w \in Workers, At(w, "claiming") \/ At(w, "claimed")
        PROVE  worker[w].task \in Tasks /\ task[worker[w].task].status # "absent"
    BY <1>0, <2>5 DEF EngagedHaveTasks, Engaged, At
  <2>6. {"claiming", "claimed", "running", "counting"} \subseteq WorkerPC /\ "counting" \notin Engaged
    BY DEF WorkerPC, Engaged
  <2> QED BY <1>0, <2>1, <2>2, <2>3, <2>4, <2>5, <2>6, OneMoves
<1>2. lock' \in {Nobody} \cup {Holder[w] : w \in Workers}
  BY <1>0, LockChanges DEF TypeOK, LockExpires, LockTaken
<1>3. task' \in [Tasks -> Rows] /\ AbsentIsBlank'
  BY <1>0, RowsKeep
<1>4. history' \in Histories /\ goal' \in Goals /\ ops' \in Nat /\ crashes' \in Nat
  BY <1>0, HistoryKeeps, GoalKeeps
<1> QED BY <1>1, <1>2, <1>3, <1>4 DEF Base, TypeOK

-----------------------------------------------------------------------------
(* One agent at a time.                                                    *)

\* What the processes have in hand, when none of them comes to have a task.
LEMMA WithdrawsShrinks ==
    ASSUME Withdraws, NEW t
    PROVE  Hands(t)' \subseteq Hands(t) /\ Active(t)' \subseteq Active(t)
BY DEF Withdraws, Hands, Active, At

\* A claim comes into one hand, and an attempt leaves it.
LEMMA HandsMove ==
    ASSUME TypeOK, NEW w \in Workers, NEW t, worker[w].task = t
    PROVE  /\ claimTask(w) =>
                 /\ w \notin Hands(t) /\ w \notin Active(t)
                 /\ Hands(t)' = Hands(t) \cup {w} /\ Active(t)' = Active(t) \cup {w}
                 /\ \A u : u # t => Hands(u)' = Hands(u) /\ Active(u)' = Active(u)
           /\ Started(w) =>
                 /\ w \in Hands(t) /\ Hands(t)' = Hands(t) \ {w}
                 /\ Active(t)' = Active(t)
                 /\ \A u : u # t => Hands(u)' = Hands(u) /\ Active(u)' = Active(u)
<1>1. ASSUME claimTask(w)
      PROVE  /\ w \notin Hands(t) /\ w \notin Active(t)
             /\ Hands(t)' = Hands(t) \cup {w} /\ Active(t)' = Active(t) \cup {w}
             /\ \A u : u # t => Hands(u)' = Hands(u) /\ Active(u)' = Active(u)
  <2>1. /\ worker'[w].pc = "claimed" /\ worker'[w].task = t
        /\ \A v \in Workers : v # w => worker'[v] = worker[v]
    BY <1>1, StepMoves, MovedFrame
  <2>2. worker[w].pc = "claiming"
    BY <1>1 DEF claimTask, At
  <2> QED BY <2>1, <2>2 DEF Hands, Active, At
<1>2. ASSUME Started(w)
      PROVE  /\ w \in Hands(t) /\ Hands(t)' = Hands(t) \ {w}
             /\ Active(t)' = Active(t)
             /\ \A u : u # t => Hands(u)' = Hands(u) /\ Active(u)' = Active(u)
  <2>1. /\ worker'[w].pc = "running" /\ worker'[w].task = t
        /\ \A v \in Workers : v # w => worker'[v] = worker[v]
    BY <1>2, StepMoves, MovedFrame
  <2>2. worker[w].pc = "claimed"
    BY <1>2 DEF Started, At
  <2> QED BY <2>1, <2>2 DEF Hands, Active, At
<1> QED BY <1>1, <1>2

\* Hands are in use, and a lease that runs out has none.
LEMMA HandsActive == \A t : Hands(t) \subseteq Active(t)
BY DEF Hands, Active, At

\* Every step keeps the stale tasks out of every hand.
LEMMA StaleKeeps ==
    ASSUME Base, StaleIsFree, [Next]_vars
    PROVE  StaleIsFree'
<1>0. TypeOK /\ EngagedHaveTasks
  BY DEF Base
<1>1. ASSUME Withdraws, \A t \in Tasks : task'[t].stale => task[t].stale
      PROVE  StaleIsFree'
  BY <1>1, WithdrawsShrinks DEF StaleIsFree
<1>2. CASE Calm \/ Recovers
  BY <1>1, <1>2 DEF Calm, Recovers
<1>3. ASSUME NEW t \in Tasks, Closes(t) \/ Creates(t) PROVE StaleIsFree'
  <2>1. Withdraws /\ \A u \in Tasks : task'[u].stale => task[u].stale
    BY <1>3 DEF Closes, Creates, Writes
  <2> QED BY <1>1, <2>1
<1>4. ASSUME NEW t \in Tasks, retryTask(t) PROVE StaleIsFree'
  <2>1. Withdraws
    BY <1>4 DEF retryTask, Withdraws
  <2>2. Writes(t, "queued", task[t].attempts, FALSE)
    BY <1>0, <1>4, StepWrites
  <2> QED BY <1>1, <2>1, <2>2 DEF Writes
<1>5. ASSUME NEW t \in Tasks, LeaseExpires(t) PROVE StaleIsFree'
  <2>1. worker' = worker /\ Hands(t) = {}
    BY <1>5 DEF LeaseExpires, Hands
  <2>2. Writes(t, task[t].status, task[t].attempts, TRUE)
    BY <1>0, <1>5, StepWrites
  <2>3. \A u : Hands(u)' = Hands(u)
    BY <2>1 DEF Hands, At
  <2> QED BY <2>1, <2>2, <2>3 DEF Writes, StaleIsFree
<1>6. ASSUME NEW w \in Workers, claimTask(w) \/ Started(w) PROVE StaleIsFree'
  <2>1. PICK t \in Tasks : t = worker[w].task
    BY <1>0, <1>6 DEF claimTask, Started, At, EngagedHaveTasks, Engaged
  <2>2. CASE claimTask(w)
    <3>1. Writes(t, "claimed", task[t].attempts, FALSE)
      BY <1>0, <2>1, <2>2, StepWrites
    <3>2. \A u \in Tasks : u # t => Hands(u)' = Hands(u)
      BY <1>0, <2>1, <2>2, HandsMove
    <3> QED BY <3>1, <3>2 DEF Writes, StaleIsFree
  <2>3. CASE Started(w)
    <3>1. Writes(t, "running", task[t].attempts + 1, task[t].stale)
      BY <1>0, <2>1, <2>3, StepWrites
    <3>2. \A u \in Tasks : Hands(u)' \subseteq Hands(u)
      BY <1>0, <2>1, <2>3, HandsMove
    <3> QED BY <3>1, <3>2 DEF Writes, StaleIsFree
  <2> QED BY <1>6, <2>2, <2>3
<1> QED BY <1>0, <1>2, <1>3, <1>4, <1>5, <1>6, StepKinds

\* Every step keeps one process at a task, or has an excuse.
LEMMA ExclusiveKeeps ==
    ASSUME Base, Exclusive, [Next]_vars
    PROVE  Exclusive'
<1>0. TypeOK /\ EngagedHaveTasks /\ history.retried \in Nat /\ history'.retried \in Nat
      /\ task \in [Tasks -> Rows]
  BY HistoryKeeps DEF Base, TypeOK, Histories
<1>1. CASE history.expired \/ history.raced \/ history.retried > 0
  BY <1>0, <1>1, HistoryKeeps DEF Exclusive
<1>2. ASSUME ~(history.expired \/ history.raced \/ history.retried > 0)
      PROVE  Exclusive'
  <2>0. \A t \in Tasks :
           /\ ~task[t].stale
           /\ task[t].status \in {"absent", "queued"} => Active(t) = {}
           /\ \A w, v \in Active(t) : w = v
    BY <1>2 DEF Exclusive
  <2>1. ASSUME Withdraws, \A t \in Tasks :
                 /\ ~task'[t].stale
                 /\ task'[t].status \in {"absent", "queued"} =>
                       task[t].status \in {"absent", "queued"}
        PROVE  Exclusive'
    BY <2>0, <2>1, WithdrawsShrinks DEF Exclusive
  <2>2. CASE Calm \/ Recovers
    BY <2>0, <2>1, <2>2 DEF Calm, Recovers
  <2>3. ASSUME NEW t \in Tasks, Closes(t) \/ Creates(t) PROVE Exclusive'
    <3>1. Withdraws /\ \A u \in Tasks :
              /\ ~task'[u].stale
              /\ task'[u].status \in {"absent", "queued"} =>
                    task[u].status \in {"absent", "queued"}
      BY <2>0, <2>3 DEF Closes, Creates, Writes
    <3> QED BY <2>1, <3>1
  <2>4. ASSUME NEW t \in Tasks, retryTask(t) \/ LeaseExpires(t) PROVE Exclusive'
    BY <1>0, <2>4, HistoryKeeps DEF Exclusive
  <2>5. ASSUME NEW w \in Workers, claimTask(w) PROVE Exclusive'
    <3>1. PICK t \in Tasks : t = worker[w].task
      BY <1>0, <2>5 DEF claimTask, At, EngagedHaveTasks, Engaged
    <3>2. CASE ~Claimable(t)
      BY <1>0, <2>5, <3>1, <3>2, HistoryKeeps DEF Exclusive
    <3>3. CASE Claimable(t)
      <4>1. task[t].status = "queued" /\ Active(t) = {}
        BY <2>0, <3>3 DEF Claimable
      <4>2. Writes(t, "claimed", task[t].attempts, FALSE)
        BY <1>0, <2>5, <3>1, StepWrites
      <4>3. Active(t)' = Active(t) \cup {w} /\ \A u \in Tasks : u # t => Active(u)' = Active(u)
        BY <1>0, <2>5, <3>1, HandsMove
      <4> QED BY <2>0, <4>1, <4>2, <4>3 DEF Writes, Exclusive
    <3> QED BY <3>2, <3>3
  <2>6. ASSUME NEW w \in Workers, Started(w) PROVE Exclusive'
    <3>1. PICK t \in Tasks : t = worker[w].task
      BY <1>0, <2>6 DEF Started, At, EngagedHaveTasks, Engaged
    <3>2. Writes(t, "running", task[t].attempts + 1, task[t].stale)
      BY <1>0, <2>6, <3>1, StepWrites
    <3>3. \A u \in Tasks : Active(u)' = Active(u)
      BY <1>0, <2>6, <3>1, HandsMove
    <3> QED BY <2>0, <3>2, <3>3 DEF Writes, Exclusive
  <2> QED BY <1>0, <2>2, <2>3, <2>4, <2>5, <2>6, StepKinds
<1> QED BY <1>1, <1>2

-----------------------------------------------------------------------------
(* The attempts.                                                           *)

\* The processes with a claim in hand are finitely many, before and after.
LEMMA HandsFinite ==
    ASSUME NEW t
    PROVE  /\ IsFiniteSet(Hands(t)) /\ Cardinality(Hands(t)) \in Nat
           /\ Cardinality(Hands(t)) = 0 <=> Hands(t) = {}
           /\ IsFiniteSet(Hands(t)') /\ Cardinality(Hands(t)') \in Nat
           /\ Cardinality(Hands(t)') = 0 <=> Hands(t)' = {}
<1>1. IsFiniteSet(Workers)
  BY GoalLoopAssumption, FS_Union DEF Workers
<1>2. Hands(t) \subseteq Workers /\ Hands(t)' \subseteq Workers
  BY DEF Hands
<1>3. IsFiniteSet(Hands(t)) /\ IsFiniteSet(Hands(t)')
  BY <1>1, <1>2, FS_Subset
<1> QED BY <1>3, FS_CardinalityType, FS_EmptySet

\* Left, from the status of a row and the number of hands.
LeftOf(status, n) ==
    IF status = "queued" THEN n + 1
    ELSE IF status = "claimed" /\ n = 0 THEN 1 ELSE n

\* Left is LeftOf, before and after a step.
LEMMA LeftIs ==
    ASSUME NEW t
    PROVE  /\ Left(t) = LeftOf(task[t].status, Cardinality(Hands(t)))
           /\ Left(t)' = LeftOf(task'[t].status, Cardinality(Hands(t)'))
BY HandsFinite DEF Left, LeftOf

\* How LeftOf grows with the number of hands.
LEMMA LeftArithmetic ==
    /\ \A s : \A n \in Nat : LeftOf(s, n) \in Nat /\ n <= LeftOf(s, n) /\ LeftOf(s, n) <= n + 1
    /\ \A s : \A n, k \in Nat : k <= n => LeftOf(s, k) <= LeftOf(s, n)
    /\ \A n \in Nat :
          /\ LeftOf("done", n) = n /\ LeftOf("dropped", n) = n /\ LeftOf("running", n) = n
          /\ LeftOf("queued", n) = n + 1 /\ LeftOf("claimed", n + 1) = n + 1
    /\ LeftOf("claimed", 0) = 1
BY DEF LeftOf

\* A task keeps to its attempts.
Kept(t) == task[t].attempts + Left(t) <= MaxAttempts + history.retried

\* What keeps it to them: neither count grows beyond what was left, but for a
\* retry.
LEMMA KeptStep ==
    ASSUME NEW t \in Tasks, Kept(t),
           NEW a \in Nat, NEW b \in Nat, NEW l \in Nat, NEW k \in Nat,
           NEW r \in Nat, NEW q \in Nat,
           task[t].attempts = a, task'[t].attempts = b, Left(t) = l, Left(t)' = k,
           history.retried = r, history'.retried = q,
           b + k <= a + l + (q - r)
    PROVE  Kept(t)'
<1>1. a + l <= MaxAttempts + r /\ MaxAttempts \in Nat
  BY GoalLoopAssumption DEF Kept
<1>2. b + k <= MaxAttempts + q
  BY <1>1
<1> QED BY <1>2 DEF Kept

\* The same for a step without a retry.
LEMMA KeptSame ==
    ASSUME TypeOK, NEW t \in Tasks, Kept(t),
           task'[t].attempts = task[t].attempts, Left(t)' <= Left(t),
           history'.retried \in Nat, history'.retried >= history.retried
    PROVE  Kept(t)'
<1>1. Left(t) \in Nat /\ Left(t)' \in Nat
  BY LeftIs, HandsFinite, LeftArithmetic
<1>2. task[t].attempts \in Nat /\ history.retried \in Nat
  BY DEF TypeOK, Rows, Histories
<1>3. PICK a \in Nat, l \in Nat, k \in Nat, r \in Nat, q \in Nat :
         /\ task[t].attempts = a /\ Left(t) = l /\ Left(t)' = k
         /\ history.retried = r /\ history'.retried = q
  BY <1>1, <1>2
<1>4. k <= l /\ r <= q
  BY <1>3
<1>5. a + k <= a + l + (q - r)
  BY <1>4
<1> QED BY <1>3, <1>5, KeptStep

\* Fewer hands and the same status, or a closed one, leave no more.
LEMMA LeftShrinks ==
    ASSUME NEW t, Hands(t)' \subseteq Hands(t),
           task'[t].status \in {task[t].status, "done", "dropped"}
    PROVE  Left(t)' <= Left(t)
<1>1. Cardinality(Hands(t)') <= Cardinality(Hands(t))
  BY HandsFinite, FS_Subset
<1>2. PICK n \in Nat, k \in Nat : n = Cardinality(Hands(t)) /\ k = Cardinality(Hands(t)')
  BY HandsFinite
<1>3. k <= n
  BY <1>1, <1>2
<1>4. \A s : LeftOf(s, k) \in Nat /\ LeftOf(s, n) \in Nat
  BY LeftArithmetic
<1>5. LeftOf(task[t].status, k) <= LeftOf(task[t].status, n)
  BY <1>3, LeftArithmetic
<1>6. LeftOf("done", k) <= LeftOf(task[t].status, n)
      /\ LeftOf("dropped", k) <= LeftOf(task[t].status, n)
  BY <1>3, <1>4, LeftArithmetic
<1>7. LeftOf(task'[t].status, k) <= LeftOf(task[t].status, n)
  BY <1>5, <1>6
<1> QED BY <1>2, <1>7, LeftIs

\* Every step keeps the account of attempts.
LEMMA AttemptsKeep ==
    ASSUME Base, StaleIsFree, AttemptsCounted, [Next]_vars
    PROVE  AttemptsCounted'
<1>0. TypeOK /\ EngagedHaveTasks /\ task \in [Tasks -> Rows]
      /\ history.retried \in Nat /\ history'.retried \in Nat
      /\ history'.retried >= history.retried
  BY HistoryKeeps DEF Base, TypeOK, Histories
<1>n. \A t \in Tasks : task[t].attempts \in Nat
  BY <1>0 DEF Rows
<1>1. CASE history.raced
  BY <1>1, HistoryKeeps, <1>0 DEF AttemptsCounted
<1>2. ASSUME ~history.raced PROVE AttemptsCounted'
  <2>0. \A t \in Tasks : Kept(t)
    BY <1>2 DEF AttemptsCounted, Kept
  <2>1. ASSUME \A t \in Tasks : Kept(t)' PROVE AttemptsCounted'
    BY <2>1 DEF AttemptsCounted, Kept
  <2>2. ASSUME NEW t \in Tasks, Hands(t)' \subseteq Hands(t), task'[t] = task[t]
        PROVE  Kept(t)'
    <3>1. Left(t)' <= Left(t)
      BY <2>2, LeftShrinks
    <3> QED BY <1>0, <2>0, <2>2, <3>1, KeptSame
  <2>3. ASSUME NEW t \in Tasks, Hands(t)' \subseteq Hands(t),
               task'[t].attempts = task[t].attempts, task'[t].status \in {"done", "dropped"}
        PROVE  Kept(t)'
    <3>1. Left(t)' <= Left(t)
      BY <2>3, LeftShrinks
    <3> QED BY <1>0, <2>0, <2>3, <3>1, KeptSame
  <2>4. CASE Calm
    BY <2>1, <2>2, <2>4, WithdrawsShrinks DEF Calm
  <2>5. ASSUME NEW t \in Tasks, Closes(t) PROVE AttemptsCounted'
    <3>1. Withdraws /\ task'[t].attempts = task[t].attempts
          /\ task'[t].status \in {"done", "dropped"}
          /\ \A u \in Tasks : u # t => task'[u] = task[u]
      BY <2>5 DEF Closes, Writes
    <3> QED BY <2>1, <2>2, <2>3, <3>1, WithdrawsShrinks
  <2>6. ASSUME NEW t \in Tasks, Creates(t) PROVE AttemptsCounted'
    <3>1. Withdraws /\ task[t].status = "absent"
          /\ task'[t].status = "queued" /\ task'[t].attempts = 0
          /\ \A u \in Tasks : u # t => task'[u] = task[u]
      BY <2>6 DEF Creates, Writes
    <3>2. Hands(t) = {}
      BY <1>0, <3>1 DEF Hands, At, EngagedHaveTasks, Engaged
    <3>3. Hands(t)' = {}
      BY <3>1, <3>2, WithdrawsShrinks
    <3>4. Left(t)' = 1
      BY <3>1, <3>3, LeftIs, HandsFinite, LeftArithmetic
    <3>5. Kept(t)'
      <4>1. MaxAttempts \in Nat \ {0}
        BY GoalLoopAssumption
      <4>2. PICK q \in Nat : q = history'.retried
        BY <1>0
      <4>3. 0 + 1 <= MaxAttempts + q
        BY <4>1, <4>2
      <4> QED BY <3>1, <3>4, <4>2, <4>3 DEF Kept
    <3> QED BY <2>1, <2>2, <3>1, <3>5, WithdrawsShrinks
  <2>7. ASSUME NEW t \in Tasks, retryTask(t) PROVE AttemptsCounted'
    <3>1. UNCHANGED worker /\ history'.retried = history.retried + 1
      BY <2>7, HistoryKeeps, <1>0 DEF retryTask
    <3>2. \A u : Hands(u)' = Hands(u)
      BY <3>1 DEF Hands, At
    <3>3. task'[t].status = "queued" /\ task'[t].attempts = task[t].attempts
          /\ \A u \in Tasks : u # t => task'[u] = task[u]
      BY <1>0, <2>7, StepWrites DEF Writes
    <3>4. PICK n \in Nat : n = Cardinality(Hands(t))
      BY HandsFinite
    <3>5. Left(t)' = n + 1 /\ Left(t) \in Nat /\ Left(t) >= n
      BY <3>2, <3>3, <3>4, LeftIs, LeftArithmetic
    <3>6. PICK l \in Nat, k \in Nat, r \in Nat, q \in Nat, a \in Nat :
             /\ Left(t) = l /\ k = n + 1 /\ history.retried = r /\ q = r + 1
             /\ task[t].attempts = a
      <4>1. Left(t) \in Nat /\ history.retried \in Nat /\ task[t].attempts \in Nat
        BY <1>0, <1>n, <3>5
      <4>2. PICK l \in Nat, r \in Nat, a \in Nat :
               Left(t) = l /\ history.retried = r /\ task[t].attempts = a
        BY <4>1
      <4>3. n + 1 \in Nat /\ r + 1 \in Nat
        OBVIOUS
      <4> QED BY <4>2, <4>3
    <3>7. Left(t)' = k /\ history'.retried = q /\ task'[t].attempts = a
      BY <3>1, <3>3, <3>5, <3>6
    <3>8. l >= n
      BY <3>5, <3>6
    <3>9. a + k <= a + l + (q - r)
      BY <3>6, <3>8
    <3>10. Kept(t)
      BY <2>0
    <3>11. Kept(t)'
      BY <3>6, <3>7, <3>9, <3>10, KeptStep
    <3> QED BY <2>1, <2>2, <3>2, <3>3, <3>11
  <2>8. ASSUME NEW t \in Tasks, LeaseExpires(t) PROVE AttemptsCounted'
    <3>1. UNCHANGED worker
      BY <2>8 DEF LeaseExpires
    <3>2. \A u : Hands(u)' = Hands(u)
      BY <3>1 DEF Hands, At
    <3>3. task'[t].status = task[t].status /\ task'[t].attempts = task[t].attempts
          /\ \A u \in Tasks : u # t => task'[u] = task[u]
      BY <1>0, <2>8, StepWrites DEF Writes
    <3>4. Left(t)' <= Left(t)
      BY <3>2, <3>3, LeftShrinks
    <3>5. Kept(t)'
      BY <1>0, <2>0, <3>3, <3>4, KeptSame
    <3> QED BY <2>1, <2>2, <3>2, <3>3, <3>5
  <2>9. CASE Recovers
    <3>1. ASSUME NEW t \in Tasks PROVE Kept(t)'
      <4>1. Hands(t)' \subseteq Hands(t) /\ task'[t].attempts = task[t].attempts
        BY <2>9, WithdrawsShrinks DEF Recovers
      <4>2. CASE task'[t] = task[t]
        BY <2>2, <4>1, <4>2
      <4>3. CASE task'[t].status = "dropped"
        BY <2>3, <4>1, <4>3
      <4>4. CASE task'[t] # task[t] /\ task'[t].status = "queued" /\ task[t].attempts < MaxAttempts
        <5>1. task[t].stale
          BY <2>9, <4>4 DEF Recovers
        <5>2. Hands(t)' = {}
          BY <4>1, <5>1 DEF StaleIsFree
        <5>3. Left(t)' = 1
          BY <4>4, <5>2, LeftIs, HandsFinite, LeftArithmetic
        <5>4. PICK a \in Nat, q \in Nat : a = task[t].attempts /\ q = history'.retried
          BY <1>0, <1>n
        <5>5. a + 1 <= MaxAttempts + q
          BY <4>4, <5>4, GoalLoopAssumption
        <5> QED BY <4>1, <5>3, <5>4, <5>5 DEF Kept
      <4> QED BY <2>9, <4>2, <4>3, <4>4 DEF Recovers
    <3> QED BY <2>1, <3>1
  <2>10. ASSUME NEW w \in Workers, claimTask(w) PROVE AttemptsCounted'
    <3>1. PICK t \in Tasks : t = worker[w].task
      BY <1>0, <2>10 DEF claimTask, At, EngagedHaveTasks, Engaged
    <3>2. CASE ~Claimable(t)
      BY <1>0, <2>10, <3>1, <3>2, HistoryKeeps DEF AttemptsCounted
    <3>3. CASE Claimable(t)
      <4>1. /\ w \notin Hands(t) /\ Hands(t)' = Hands(t) \cup {w}
            /\ \A u \in Tasks : u # t => Hands(u)' = Hands(u)
        BY <1>0, <2>10, <3>1, HandsMove
      <4>2. task'[t].status = "claimed" /\ task'[t].attempts = task[t].attempts
            /\ \A u \in Tasks : u # t => task'[u] = task[u]
        BY <1>0, <2>10, <3>1, StepWrites DEF Writes
      <4>3. PICK n \in Nat : n = Cardinality(Hands(t)) /\ Cardinality(Hands(t)') = n + 1
        <5>1. IsFiniteSet(Hands(t)) /\ Cardinality(Hands(t)) \in Nat
          BY HandsFinite
        <5>2. Cardinality(Hands(t) \cup {w}) = Cardinality(Hands(t)) + 1
          BY <4>1, <5>1, FS_AddElement
        <5>3. Cardinality(Hands(t)') = Cardinality(Hands(t)) + 1
          BY <4>1, <5>2
        <5> QED BY <5>1, <5>3
      <4>4. Left(t)' = n + 1
        BY <4>2, <4>3, LeftIs, LeftArithmetic
      <4>5. Left(t) = n + 1
        <5>1. CASE task[t].status = "queued"
          BY <4>3, <5>1, LeftIs, LeftArithmetic
        <5>2. CASE task[t].status = "claimed" /\ task[t].stale
          <6>1. Hands(t) = {}
            BY <5>2 DEF StaleIsFree
          <6>2. n = 0
            BY <4>3, <6>1, HandsFinite
          <6>3. Left(t) = LeftOf("claimed", 0)
            BY <4>3, <5>2, <6>2, LeftIs
          <6>4. Left(t) = 1
            BY <6>3, LeftArithmetic
          <6> QED BY <6>2, <6>4
        <5> QED BY <3>3, <5>1, <5>2 DEF Claimable
      <4>6. Left(t)' <= Left(t)
        BY <4>4, <4>5
      <4>7. Kept(t)'
        BY <1>0, <2>0, <4>2, <4>6, KeptSame
      <4> QED BY <2>1, <2>2, <4>1, <4>2, <4>7
    <3> QED BY <3>2, <3>3
  <2>11. ASSUME NEW w \in Workers, Started(w) PROVE AttemptsCounted'
    <3>1. PICK t \in Tasks : t = worker[w].task
      BY <1>0, <2>11 DEF Started, At, EngagedHaveTasks, Engaged
    <3>2. /\ w \in Hands(t) /\ Hands(t)' = Hands(t) \ {w}
          /\ \A u \in Tasks : u # t => Hands(u)' = Hands(u)
      BY <1>0, <2>11, <3>1, HandsMove
    <3>3. task'[t].status = "running" /\ task'[t].attempts = task[t].attempts + 1
          /\ \A u \in Tasks : u # t => task'[u] = task[u]
      BY <1>0, <2>11, <3>1, StepWrites DEF Writes
    <3>4. PICK n \in Nat, k \in Nat :
             /\ n = Cardinality(Hands(t)) /\ k = Cardinality(Hands(t)') /\ k + 1 = n
      <4>1. IsFiniteSet(Hands(t)) /\ Cardinality(Hands(t)) \in Nat
            /\ Cardinality(Hands(t)') \in Nat
        BY HandsFinite
      <4>2. Cardinality(Hands(t) \ {w}) = Cardinality(Hands(t)) - 1
        BY <3>2, <4>1, FS_RemoveElement
      <4>3. Cardinality(Hands(t)') = Cardinality(Hands(t)) - 1
        BY <3>2, <4>2
      <4>4. Cardinality(Hands(t)') + 1 = Cardinality(Hands(t))
        BY <4>1, <4>3
      <4> QED BY <4>1, <4>4
    <3>5. Left(t)' = k /\ Left(t) \in Nat /\ Left(t) >= n
      <4>1. Left(t) = LeftOf(task[t].status, n) /\ Left(t)' = LeftOf("running", k)
        BY <3>3, <3>4, LeftIs
      <4> QED BY <4>1, LeftArithmetic
    <3>6. PICK l \in Nat, r \in Nat, q \in Nat, a \in Nat, b \in Nat :
             /\ Left(t) = l /\ history.retried = r /\ history'.retried = q
             /\ task[t].attempts = a /\ b = a + 1
      BY <1>0, <1>n, <3>5
    <3>7. b + k <= a + l + (q - r)
      <4>1. l >= n /\ q >= r
        BY <1>0, <3>5, <3>6
      <4> QED BY <3>4, <3>6, <4>1
    <3>8. Kept(t) /\ task'[t].attempts = b /\ Left(t)' = k
      BY <2>0, <3>3, <3>5, <3>6
    <3>9. Kept(t)'
      BY <3>4, <3>6, <3>7, <3>8, KeptStep
    <3> QED BY <2>1, <2>2, <3>2, <3>3, <3>9
  <2> QED
    BY <1>0, <2>4, <2>5, <2>6, <2>7, <2>8, <2>9, <2>10, <2>11, StepKinds
<1> QED BY <1>1, <1>2
-----------------------------------------------------------------------------
(* The turns.                                                              *)

\* The numbers that the account of turns is about, before and after a step.
Bound == MaxTurns + history.resumed

\* Every step keeps the account of turns.
LEMMA TurnsKeep ==
    ASSUME Base, TurnsCounted, [Next]_vars
    PROVE  TurnsCounted'
<1>0. /\ TypeOK /\ EngagedHaveTasks
      /\ history.resumed \in Nat /\ history'.resumed \in Nat
      /\ history'.resumed >= history.resumed
  BY HistoryKeeps DEF Base, TypeOK, Histories
<1>b. Bound \in Nat /\ Bound' \in Nat /\ Bound <= Bound'
  <2>1. MaxTurns \in Nat
    BY GoalLoopAssumption
  <2>2. PICK r \in Nat, q \in Nat : history.resumed = r /\ history'.resumed = q /\ q >= r
    BY <1>0
  <2>3. Bound = MaxTurns + r /\ Bound' = MaxTurns + q
    BY <2>2 DEF Bound
  <2> QED BY <2>1, <2>2, <2>3
<1>t. goal \in Goals /\ goal.turns \in Nat /\ \A w \in Workers : worker[w].read \in Nat
  BY <1>0 DEF TypeOK, Goals, Frames
<1>c. /\ goal.turns <= Bound
      /\ goal.status = "active" => goal.turns < Bound
      /\ \A w \in Workers : At(w, "counting") => worker[w].read < Bound
  BY DEF TurnsCounted, Bound
<1>w. \A w \in Workers : worker'[w].pc = "counting" =>
         \/ At(w, "counting") /\ worker'[w].read = worker[w].read
         \/ goal.status = "active" /\ worker'[w].read = goal.turns
  <2>1. CASE UNCHANGED worker
    BY <2>1 DEF At
  <2>2. ASSUME NEW w \in Workers, NEW pc, NEW t, NEW n, Moves(w, pc, t, n),
               pc = "counting" => goal.status = "active" /\ n = goal.turns
        PROVE  \A v \in Workers : worker'[v].pc = "counting" =>
                  \/ At(v, "counting") /\ worker'[v].read = worker[v].read
                  \/ goal.status = "active" /\ worker'[v].read = goal.turns
    BY <1>0, <2>2, MovedFrame DEF At
  <2>3. ASSUME NEW w \in Workers, VerdictContinues(w) PROVE goal.status = "active"
    BY <2>3 DEF VerdictContinues
  <2> QED BY <1>0, <2>1, <2>2, <2>3, OneMoves
<1>r. \A w \in Workers : At(w, "counting")' => worker'[w].read < Bound'
  <2> SUFFICES ASSUME NEW w \in Workers, worker'[w].pc = "counting"
               PROVE  worker'[w].read < Bound'
    BY DEF At
  <2>1. PICK n \in Nat : worker'[w].read = n /\ n < Bound
    BY <1>c, <1>t, <1>w
  <2>2. n < Bound'
    BY <1>b, <2>1
  <2> QED BY <2>1, <2>2
<1>g. goal'.turns <= Bound' /\ (goal'.status = "active" => goal'.turns < Bound')
  <2>1. CASE goal' = goal
    BY <1>b, <1>c, <1>t, <2>1
  <2>2. CASE goal' = [goal EXCEPT !.status = "stopped"]
    <3>1. goal'.turns = goal.turns /\ goal'.status = "stopped"
      BY <1>t, <2>2 DEF Goals
    <3> QED BY <1>b, <1>c, <1>t, <3>1
  <2>3. ASSUME NEW n \in Nat, goal'.turns = n + 1, n < Bound,
               goal'.status = "active" => n + 1 < MaxTurns
        PROVE  goal'.turns <= Bound' /\ (goal'.status = "active" => goal'.turns < Bound')
    <3>1. MaxTurns \in Nat /\ MaxTurns <= Bound
      BY <1>0, GoalLoopAssumption DEF Bound
    <3>2. n + 1 <= Bound'
      BY <1>b, <2>3
    <3>3. n + 1 < MaxTurns => n + 1 < Bound'
      BY <1>b, <3>1
    <3> QED BY <2>3, <3>2, <3>3
  <2>s. \A n \in Nat : ~Spends(n + 1) => n + 1 < MaxTurns
    BY GoalLoopAssumption DEF Spends
  <2>4. ASSUME NEW w \in Workers, TurnRecorded(w)
        PROVE  goal'.turns <= Bound' /\ (goal'.status = "active" => goal'.turns < Bound')
    <3>1. PICK n \in Nat : n = worker[w].read /\ n < Bound
      BY <1>c, <1>t, <2>4 DEF TurnRecorded
    <3>2. goal'.turns = n + 1 /\ (goal'.status = "active" => ~Spends(n + 1))
      BY <2>4, <3>1 DEF TurnRecorded
    <3> QED BY <2>3, <2>s, <3>1, <3>2
  <2>5. CASE OperatorTicks
    <3>1. PICK n \in Nat : n = goal.turns /\ n < Bound
      BY <1>c, <1>t, <2>5 DEF OperatorTicks
    <3>2. goal'.turns = n + 1 /\ (goal'.status = "active" => ~Spends(n + 1))
      BY <2>5, <3>1 DEF OperatorTicks
    <3> QED BY <2>3, <2>s, <3>1, <3>2
  <2>6. ASSUME NEW st \in GoalStatuses, OperatorMoves(st)
        PROVE  goal'.turns <= Bound' /\ (goal'.status = "active" => goal'.turns < Bound')
    <3>1. goal'.turns = goal.turns /\ goal'.status = st
      BY <1>t, <2>6 DEF OperatorMoves, Goals
    <3>2. st = "active" => history'.resumed = history.resumed + 1
      BY <1>0, <2>6 DEF OperatorMoves, TypeOK, Histories
    <3>3. st = "active" => Bound' = Bound + 1
      <4> SUFFICES ASSUME st = "active" PROVE Bound' = Bound + 1
        OBVIOUS
      <4>1. PICK r \in Nat : history.resumed = r /\ history'.resumed = r + 1
        BY <1>0, <3>2
      <4>2. Bound = MaxTurns + r /\ Bound' = MaxTurns + (r + 1)
        BY <4>1 DEF Bound
      <4> QED BY <4>2, GoalLoopAssumption
    <3>4. goal.turns <= Bound'
      BY <1>b, <1>c, <1>t
    <3>5. st = "active" => goal.turns < Bound'
      BY <1>b, <1>c, <1>t, <3>3
    <3> QED BY <3>1, <3>4, <3>5
  <2>7. ASSUME NEW w \in Workers, NEW force, evaluate(w, force)
        PROVE  goal' = goal \/ goal' = [goal EXCEPT !.status = "stopped"]
    BY <2>7 DEF evaluate
  <2>8. ASSUME NEW w \in Workers,
               \/ acquireLock(w) \/ WorkerStarts(w) \/ LockTaken(w) \/ NothingFound(w)
               \/ claimTask(w) \/ Started(w) \/ VerdictContinues(w) \/ VerdictOutlived(w)
               \/ Crash(w) \/ \E t \in Tasks : Found(w, t)
        PROVE  goal' = goal
    BY <2>8 DEF acquireLock, WorkerStarts, LockTaken, NothingFound, claimTask, Started,
       VerdictContinues, VerdictOutlived, Crash, Found
  <2>9. ASSUME NEW w \in Workers,
               \/ VerdictStops(w) \/ \E st \in {"done", "dropped"} : AgentReturns(w, st)
               \/ \E force \in BOOLEAN : OperatorEvaluates(w, force)
        PROVE  goal' = goal \/ goal' = [goal EXCEPT !.status = "stopped"]
    BY <2>7, <2>9 DEF VerdictStops, AgentReturns, OperatorEvaluates
  <2>10. ASSUME \/ LockExpires \/ UNCHANGED vars
                \/ \E t \in Tasks : cancelTask(t) \/ retryTask(t) \/ LeaseExpires(t)
         PROVE  goal' = goal
    BY <2>10 DEF LockExpires, vars, cancelTask, retryTask, LeaseExpires
  <2> QED
    BY <2>1, <2>2, <2>4, <2>5, <2>6, <2>8, <2>9, <2>10 DEF Next, WorkerGoesOn, ClockAdvances
<1> QED BY <1>r, <1>g DEF TurnsCounted, Bound

-----------------------------------------------------------------------------
(* The theorems.                                                           *)

\* The invariant holds at the start.
LEMMA InitInv == ASSUME Init PROVE GoalInv
<1>1. Queued \in Rows /\ Absent \in Rows /\ Absent.stale = FALSE /\ Queued.stale = FALSE
      /\ Queued.status = "queued" /\ Queued.attempts = 0
      /\ Absent.status = "absent" /\ Absent.attempts = 0
  BY DEF Queued, Absent, Rows, TaskStatuses
<1>2. /\ \A w \in Workers : worker[w] = Idle
      /\ \A t \in Tasks : task[t] \in {Queued, Absent}
  BY DEF Init
<1>3. TypeOK
  <2>1. goal \in Goals /\ ops \in Nat /\ crashes \in Nat
    BY DEF Init, Goals, GoalStatuses
  <2>2. task \in [Tasks -> Rows] /\ worker \in [Workers -> Frames]
    BY <1>1, IdleFrame DEF Init
  <2>3. history \in Histories /\ lock = Nobody
    BY DEF Init, Histories
  <2> QED BY <2>1, <2>2, <2>3 DEF TypeOK
<1>4. IdleIsIdle /\ EngagedHaveTasks
  BY <1>2, IdleFrame DEF IdleIsIdle, EngagedHaveTasks, Engaged
<1>5. AbsentIsBlank
  BY <1>1, <1>2 DEF AbsentIsBlank
<1>6. \A t : Hands(t) = {} /\ Active(t) = {}
  BY <1>2, IdleFrame DEF Hands, Active, At
<1>7. Exclusive /\ StaleIsFree
  BY <1>1, <1>2, <1>6 DEF Exclusive, StaleIsFree
<1>8. AttemptsCounted
  <2>1. history.retried = 0 /\ MaxAttempts \in Nat \ {0}
    BY GoalLoopAssumption DEF Init
  <2>2. ASSUME NEW t \in Tasks
        PROVE  task[t].attempts + Left(t) <= MaxAttempts + history.retried
    <3>1. task[t].attempts = 0 /\ task[t].status \in {"queued", "absent"}
      BY <1>1, <1>2
    <3>2. Cardinality(Hands(t)) = 0
      BY <1>6, FS_EmptySet
    <3>3. Left(t) = LeftOf(task[t].status, 0)
      BY <3>2, LeftIs
    <3>4. Left(t) \in {0, 1}
      BY <3>1, <3>3 DEF LeftOf
    <3> QED BY <2>1, <3>1, <3>4
  <2> QED BY <2>2 DEF AttemptsCounted
<1>9. TurnsCounted
  <2>1. goal.turns = 1 /\ history.resumed = 0 /\ MaxTurns \in Nat \ {0, 1}
    BY GoalLoopAssumption DEF Init
  <2>2. \A w \in Workers : ~At(w, "counting")
    BY <1>2, IdleFrame DEF At
  <2>3. 1 < MaxTurns + 0
    BY <2>1
  <2> QED BY <2>1, <2>2, <2>3 DEF TurnsCounted
<1> QED BY <1>3, <1>4, <1>5, <1>7, <1>8, <1>9 DEF GoalInv, Base

\* The invariant is inductive: what a goal loop is about holds from its first
\* state on.
THEOREM Inductive == Spec => []GoalInv
<1>1. Init => GoalInv
  BY InitInv
<1>2. GoalInv /\ [Next]_vars => GoalInv'
  BY BaseKeeps, ExclusiveKeeps, StaleKeeps, AttemptsKeep, TurnsKeep DEF GoalInv
<1> QED BY <1>1, <1>2, PTL DEF Spec

\* The rows and the processes keep their types.
THEOREM TypeCorrect == Spec => []TypeOK
<1>1. GoalInv => TypeOK
  BY DEF GoalInv, Base
<1> QED BY <1>1, Inductive, PTL

\* Two agents work on one task only after a lease ran out, a retry or a claim
\* of a row that two processes wrote.
THEOREM OneAgentAtATime == Spec => []OverlapNeedsCause
<1>1. ASSUME GoalInv PROVE OverlapNeedsCause
  <2> SUFFICES ASSUME NEW t \in Tasks, Cardinality(Runners(t)) > 1,
                      ~(history.expired \/ history.raced \/ history.retried > 0)
               PROVE  FALSE
    BY DEF OverlapNeedsCause
  <2>1. Runners(t) \subseteq Active(t)
    BY DEF Runners, Active, At
  <2>2. \A w, v \in Runners(t) : w = v
    BY <1>1, <2>1 DEF GoalInv, Exclusive
  <2>3. Runners(t) = {} \/ \E w : Runners(t) = {w}
    BY <2>2
  <2>4. Cardinality(Runners(t)) \in {0, 1}
    BY <2>3, FS_EmptySet, FS_Singleton
  <2> QED BY <2>4
<1> QED BY <1>1, Inductive, PTL

\* A task is not given to an agent more often than recovery and retries allow.
THEOREM AttemptsStayBounded == Spec => []RunsBounded
<1>1. ASSUME GoalInv PROVE RunsBounded
  <2> SUFFICES ASSUME NEW t \in Tasks, ~history.raced
               PROVE  task[t].attempts <= MaxAttempts + history.retried
    BY DEF RunsBounded
  <2>1. Left(t) \in Nat
    BY LeftIs, HandsFinite, LeftArithmetic
  <2>2. task[t].attempts \in Nat /\ history.retried \in Nat
    BY <1>1 DEF GoalInv, Base, TypeOK, Rows, Histories
  <2>3. task[t].attempts + Left(t) <= MaxAttempts + history.retried
    BY <1>1 DEF GoalInv, AttemptsCounted
  <2> QED BY <2>1, <2>2, <2>3, GoalLoopAssumption
<1> QED BY <1>1, Inductive, PTL

\* The goal keeps to its turns, and one more for each resumption.
THEOREM BudgetStaysKept == Spec => []BudgetKept
<1>1. GoalInv => BudgetKept
  BY DEF GoalInv, TurnsCounted, BudgetKept
<1> QED BY <1>1, Inductive, PTL

\* A lock that has not run out is lost only by a step of its holder, or to a
\* process that read it while it was free.
THEOREM LiveLockStaysRespected == Spec => LiveLockIsRespected
<1>1. ASSUME GoalInv, [Next]_vars
      PROVE  [lock # Nobody /\ lock' # lock =>
                 \/ LockExpires
                 \/ \E w \in Workers :
                       /\ worker'[w] # worker[w]
                       /\ Holder[w] = lock \/ At(w, "locking")]_vars
  <2> SUFFICES ASSUME lock # Nobody, lock' # lock, ~LockExpires
               PROVE  \E w \in Workers :
                         /\ worker'[w] # worker[w]
                         /\ Holder[w] = lock \/ At(w, "locking")
    OBVIOUS
  <2>0. TypeOK /\ IdleIsIdle
    BY <1>1 DEF GoalInv, Base
  <2>1. ASSUME NEW w \in Workers, At(w, "locking"), LockTaken(w)
        PROVE  worker'[w] # worker[w]
    <3>1. worker'[w].pc = "looking" /\ worker[w].pc = "locking"
      BY <2>0, <2>1, StepMoves, MovedFrame DEF At
    <3> QED BY <3>1
  <2> QED BY <1>1, <2>0, <2>1, LockChanges
<1> QED BY <1>1, Inductive, PTL DEF Spec, LiveLockIsRespected
=============================================================================
