------------------------------ MODULE TaskStore ------------------------------
(***************************************************************************)
(* What the handlers and the queue workers of one Zavorth process share:   *)
(* the table system_tasks (row), whether the process runs (up), and, for   *)
(* the properties only, a log of what happened to each task.               *)
(*                                                                         *)
(* Node runs the code between two awaits without interruption and the      *)
(* database is synchronous, so a segment of a handler is one step, and     *)
(* everything else may happen while the handler awaits.                    *)
(***************************************************************************)
EXTENDS TaskLifecycle

CONSTANTS
    Tasks,      \* the tasks that may be created
    Kind,       \* what each one is: "run", "research" or "jules"
    NoRow,      \* the value of row[t] before the task is created
    NoTask,     \* what an idle handler or worker works on
    MaxFaults   \* bound: how many sends may fail

ASSUME StoreAssumption ==
    /\ Kind \in [Tasks -> {"run", "research", "jules"}]
    /\ NoRow \notin Copies
    /\ NoTask \notin Tasks
    /\ MaxFaults \in Nat

VARIABLES row, up, log

(***************************************************************************)
(* The log of a task: the approvals the operator gave, whether it was held *)
(* for approval and whether it was rejected, the executions started, the   *)
(* answers that reached the chat, whether the chat was told the end, and   *)
(* the sends that failed.                                                  *)
(***************************************************************************)
Logs == [approvals: Nat, held: BOOLEAN, rejected: BOOLEAN, launches: Nat,
         sent: Nat, told: BOOLEAN, faults: Nat]

EmptyLog == [approvals |-> 0, held |-> FALSE, rejected |-> FALSE,
             launches |-> 0, sent |-> 0, told |-> FALSE, faults |-> 0]

Exists(t) == row[t] # NoRow
HasStatus(t, S) == Exists(t) /\ row[t].status \in S

\* createPendingTask: the copy the first row is written from.
Pending == [status |-> "pending", approval |-> "not_required",
            result |-> FALSE, session |-> FALSE, lock |-> "free"]

\* TaskRepository.save of a copy of t, the first write included.
Saved(old, copy) == IF old = NoRow THEN copy ELSE mergeTaskForPersistence(old, copy)

Save(t, copy) == row' = [row EXCEPT ![t] = Saved(@, copy)]

\* Two writes of one copy in the same segment, the second one after the
\* copy changed: the merge is made twice.
SaveTwice(t, first, second) ==
    row' = [row EXCEPT ![t] = Saved(Saved(@, first), second)]

\* claimNextTaskByCommands: the row is free, and the copy and the row lock it.
Claimable(t, kind, S) == Kind[t] = kind /\ HasStatus(t, S) /\ row[t].lock = "free"
Claimed(t) == [row[t] EXCEPT !.lock = "held"]

\* A lock older than asyncQueueLockTimeoutMs does not count any more.
LockExpires(t) ==
    /\ up /\ Exists(t) /\ row[t].lock = "held"
    /\ row' = [row EXCEPT ![t].lock = "free"]
    /\ UNCHANGED <<up, log>>

Log(t, entry) == log' = [log EXCEPT ![t] = entry]

SendFailed(t) ==
    /\ log[t].faults < MaxFaults
    /\ Log(t, [log[t] EXCEPT !.faults = @ + 1])

StoreInit ==
    /\ row = [t \in Tasks |-> NoRow]
    /\ up  = TRUE
    /\ log = [t \in Tasks |-> EmptyLog]
=============================================================================
