------------------------------- MODULE Mailbox -------------------------------
(***************************************************************************)
(* The bridge mailbox: MailboxWatcher.ts.  Other programs drop message     *)
(* files into the inbox directory; one scanner takes them one by one,      *)
(* makes each message a task, plans it, runs a plan of low risk through    *)
(* the execution gateway, and writes an answer file.  A risky plan waits   *)
(* for the operator, whose decision goes through the handlers of ChatFlow. *)
(*                                                                         *)
(* A task of TaskStore stands for a message file and for the task made     *)
(* from it; two files may carry the same message id.  The scanner is cut   *)
(* at its awaits, and the process may die in each of them.  Files survive; *)
(* what the scanner holds in memory does not.                              *)
(***************************************************************************)
EXTENDS ChatFlow

CONSTANTS
    MessageId,     \* the message id of each file
    Invalid,       \* files that no parse accepts: unsigned, unreadable
    NoAnswer,      \* the value of answer[f] while there is none
    MaxCrashes     \* bound: how often the process dies

ASSUME MailboxAssumption ==
    /\ DOMAIN MessageId = Tasks
    /\ Invalid \subseteq Tasks
    /\ MaxCrashes \in Nat
    /\ NoAnswer \notin {"COMPLETED", "FAILED"}

VARIABLES
    dir,        \* the directory each file is in; "outside" before its deposit
    seen,       \* the ids that have a .seen marker on disk
    processed,  \* processedMessageIds, the ids the process remembers
    watch,      \* is fs.watch on, and is an event of it to be delivered?
    scanner,    \* the one loop of processInbox
    answer,     \* the status in the answer file of each task
    faults,     \* how many awaited calls failed
    crashes,    \* how often the process died
    missed      \* for the properties: files the last listing came too early for

disk   == <<dir, seen, answer>>
memory == <<processed, watch, scanner>>
counts == <<faults, crashes, missed>>
store  == <<row, up, log, chat>>
vars   == <<store, disk, memory, counts>>

Messages == {MessageId[f] : f \in Tasks}

ScannerPC == {"idle",
              "reading",      \* awaits readdir and stat of the inbox
              "next",         \* has a listing, goes on with its files
              "noting",       \* awaits the status file of a rejected message
              "claiming",     \* awaits the rename into processed
              "announcing",   \* awaits the status file and the broadcast
              "planning",     \* awaits the planner
              "presenting",   \* awaits the broadcast of the plan and its tools
              "asking",       \* awaits the broadcast that asks for approval
              "executing",    \* awaits the execution gateway
              "reporting",    \* awaits the broadcast of the result
              "answering",    \* awaits the write of the answer file
              "apologising"}  \* awaits the broadcast of the failure

Plans == {"risky", "shell", "nothing"}

\* todo: the rest of the listing; file: the one in work; copy: its task;
\* verdict: the status of the answer being written.
Scanners == [pc: ScannerPC, todo: SUBSET Tasks, file: Tasks \cup {NoTask},
             plan: Plans, copy: Copies, verdict: {"COMPLETED", "FAILED"}]

Asleep == [pc |-> "idle", todo |-> {}, file |-> NoTask, plan |-> "nothing",
           copy |-> Pending, verdict |-> "FAILED"]

Scan == [Asleep EXCEPT !.pc = "reading"]

Inbox == {f \in Tasks : dir[f] = "inbox"}

ScannerAt(pc) == up /\ scanner.pc = pc

\* Mutant: the listing is not repeated once its files are done.
GoOn_Once ==
    scanner' = IF scanner.todo = {} THEN Asleep
               ELSE [Asleep EXCEPT !.pc = "next", !.todo = scanner.todo]

\* The scanner goes on with the rest of its listing, or lists again.
GoOn ==
    scanner' = IF scanner.todo = {} THEN Scan
               ELSE [Asleep EXCEPT !.pc = "next", !.todo = scanner.todo]

\* fs.watch reports every entry that comes to the inbox or leaves it.
Notify == watch' = IF watch = "off" THEN "off" ELSE "event"

\* A scan that ends, the first one of the process or one an event started.
Rest ==
    /\ scanner' = Asleep
    /\ watch' = IF watch = "off" THEN "on" ELSE watch
    /\ missed' = IF watch = "event" THEN missed ELSE missed \cup Inbox

\* An awaited call fails.
Fault == faults < MaxFaults /\ faults' = faults + 1

\* What is thrown out of processMessageFile ends the scan.
ScanThrows == Fault /\ Rest

\* Mutant: only what this process remembers counts as seen.
hasProcessedMessageId_InMemory(m) == m \in processed

\* Remembered by this process, or marked on disk by it or an earlier one.
hasProcessedMessageId(m) == m \in processed \cup seen

MailboxInit ==
    /\ StoreInit /\ ChatInit
    /\ dir = [f \in Tasks |-> "outside"]
    /\ seen = {} /\ processed = {}
    /\ watch = "off" /\ scanner = Scan
    /\ answer = [f \in Tasks |-> NoAnswer]
    /\ faults = 0 /\ crashes = 0 /\ missed = {}

-----------------------------------------------------------------------------
(* The inbox and the scan.                                                 *)

\* depositRequest, dispatchToIDE or another program: written elsewhere and
\* renamed into the inbox, while the process runs or not.
Deposit(f) ==
    /\ dir[f] = "outside"
    /\ dir' = [dir EXCEPT ![f] = "inbox"]
    /\ Notify
    /\ UNCHANGED <<store, seen, answer, processed, scanner, counts>>

\* The callback of fs.watch starts a scan unless one is running: then the
\* event is dropped.
WatchEvent ==
    /\ up /\ watch = "event"
    /\ watch' = "on"
    /\ scanner' = IF scanner.pc = "idle" THEN Scan ELSE scanner
    /\ missed' = IF scanner.pc = "next" /\ scanner.todo = {}
                 THEN missed \cup Inbox ELSE missed
    /\ UNCHANGED <<store, disk, processed, faults, crashes>>

\* The listing is taken; the loop sees it one turn of the event loop later.
Listing ==
    /\ ScannerAt("reading")
    /\ scanner' = [scanner EXCEPT !.pc = "next", !.todo = Inbox]
    /\ UNCHANGED <<store, disk, processed, watch, counts>>

ScanEnds ==
    /\ ScannerAt("next") /\ scanner.todo = {}
    /\ Rest
    /\ UNCHANGED <<store, disk, processed, faults, crashes>>

\* readFile, readdir or stat fails.
ReadThrows ==
    /\ up /\ \/ scanner.pc = "reading"
             \/ scanner.pc = "next" /\ scanner.todo # {}
    /\ ScanThrows
    /\ UNCHANGED <<store, disk, processed, crashes>>

Take(f) == ScannerAt("next") /\ f \in scanner.todo

\* Not signed, not readable, past its time to live, or known already.
RejectFile(f) ==
    /\ Take(f)
    /\ scanner' = [scanner EXCEPT !.pc = "noting", !.todo = @ \ {f}, !.file = f]
    /\ dir' = [dir EXCEPT ![f] = "rejected"]
    /\ Notify
    /\ UNCHANGED <<store, seen, answer, processed, counts>>

RejectUnaccepted(f) == f \in Invalid /\ RejectFile(f)
RejectLate(f) == f \notin Invalid /\ RejectFile(f)
RejectReplay(f) ==
    f \notin Invalid /\ hasProcessedMessageId(MessageId[f]) /\ RejectFile(f)

Noted ==
    /\ ScannerAt("noting") /\ GoOn
    /\ UNCHANGED <<store, disk, processed, watch, counts>>

\* Mutant: the id is remembered before it is looked up.
Claim_ThenLooksUp(f) ==
    /\ f \notin Invalid /\ ~hasProcessedMessageId(MessageId[f])
    /\ Take(f)
    /\ processed' = processed \cup {MessageId[f]}
    /\ seen' = seen \cup {MessageId[f]}
    /\ scanner' = [scanner EXCEPT !.pc = "noting", !.todo = @ \ {f}, !.file = f]
    /\ dir' = [dir EXCEPT ![f] = "rejected"]
    /\ Notify
    /\ UNCHANGED <<store, answer, counts>>

\* rememberProcessedMessageId: the set first, then the marker on disk, and
\* only then the rename is awaited.
Claim(f) ==
    /\ Take(f) /\ f \notin Invalid /\ ~hasProcessedMessageId(MessageId[f])
    /\ processed' = processed \cup {MessageId[f]}
    /\ seen' = seen \cup {MessageId[f]}
    /\ scanner' = [scanner EXCEPT !.pc = "claiming", !.todo = @ \ {f}, !.file = f]
    /\ UNCHANGED <<store, dir, answer, watch, counts>>

\* The marker cannot be written: the id is remembered in memory only.
MarkerThrows(f) ==
    /\ Take(f) /\ f \notin Invalid /\ ~hasProcessedMessageId(MessageId[f])
    /\ processed' = processed \cup {MessageId[f]}
    /\ ScanThrows
    /\ UNCHANGED <<store, disk, crashes>>

Moved ==
    /\ ScannerAt("claiming")
    /\ dir' = [dir EXCEPT ![scanner.file] = "processed"]
    /\ scanner' = [scanner EXCEPT !.pc = "announcing"]
    /\ Notify
    /\ UNCHANGED <<store, seen, answer, processed, counts>>

\* A rename, a status file or the first broadcast fails.
BookkeepingThrows ==
    /\ up /\ scanner.pc \in {"noting", "claiming", "announcing"}
    /\ ScanThrows
    /\ UNCHANGED <<store, disk, processed, crashes>>

-----------------------------------------------------------------------------
(* The task of a message.                                                  *)

\* What a segment leaves alone that only works on the task.
OnlyTask == UNCHANGED <<up, chat, disk, processed, watch, counts>>

\* createPendingTask, then parsed, then planned, without an await.
TaskCreated ==
    /\ ScannerAt("announcing")
    /\ LET parsed  == advanceState(Pending, "parsed")
           planned == advanceState(parsed, "planned")
       IN /\ row' = [row EXCEPT ![scanner.file] = Saved(Saved(Pending, parsed), planned)]
          /\ scanner' = [scanner EXCEPT !.pc = "planning", !.copy = planned]
    /\ UNCHANGED log /\ OnlyTask

PlanMade(plan) ==
    /\ ScannerAt("planning")
    /\ Save(scanner.file, scanner.copy)
    /\ scanner' = [scanner EXCEPT !.pc = "presenting", !.plan = plan]
    /\ UNCHANGED log /\ OnlyTask

\* Mutant: the return after the request for approval is missing.
HoldPlan_FallsThrough ==
    /\ ScannerAt("presenting") /\ scanner.plan = "risky"
    /\ LET held == advanceState(scanner.copy, "waiting_approval")
           copy == advanceState(held, "running")
       IN /\ SaveTwice(scanner.file, held, copy)
          /\ scanner' = [scanner EXCEPT !.pc = "executing", !.copy = copy]
    /\ Log(scanner.file, [log[scanner.file] EXCEPT !.held = TRUE])
    /\ OnlyTask

\* Risk 2 or more.
HoldPlan ==
    /\ ScannerAt("presenting") /\ scanner.plan = "risky"
    /\ LET copy == advanceState(scanner.copy, "waiting_approval")
       IN /\ Save(scanner.file, copy)
          /\ scanner' = [scanner EXCEPT !.pc = "asking", !.copy = copy]
    /\ Log(scanner.file, [log[scanner.file] EXCEPT !.held = TRUE])
    /\ OnlyTask

\* The operator was asked: processMessageFile returns without an answer.
Asked ==
    /\ ScannerAt("asking") /\ GoOn
    /\ UNCHANGED <<store, disk, processed, watch, counts>>

\* executePlanThroughGateway.
RunPlan ==
    /\ ScannerAt("presenting") /\ scanner.plan = "shell"
    /\ LET copy == advanceState(scanner.copy, "running")
       IN /\ Save(scanner.file, copy)
          /\ scanner' = [scanner EXCEPT !.pc = "executing", !.copy = copy]
    /\ UNCHANGED log /\ OnlyTask

GatewayStatus(outcome) ==
    CASE outcome = "confirm" -> "waiting_approval"
      [] outcome = "success" -> "completed"
      [] OTHER               -> "failed"

\* The gateway wants a confirmation, does not allow the plan, or ran it.
GatewayDecides(outcome) ==
    /\ ScannerAt("executing")
    /\ LET f    == scanner.file
           done == [scanner.copy EXCEPT !.result = (outcome = "success")]
           copy == advanceState(done, GatewayStatus(outcome))
       IN /\ Save(f, copy)
          /\ scanner' = [scanner EXCEPT !.pc = "reporting", !.copy = copy]
          /\ Log(f, [log[f] EXCEPT !.held = @ \/ outcome = "confirm",
                         !.launches = IF outcome \in {"confirm", "blocked"}
                                      THEN @ ELSE @ + 1])
    /\ OnlyTask

\* executePlanThroughGateway returns: the answer says COMPLETED.
Reported ==
    /\ ScannerAt("reporting")
    /\ scanner' = [scanner EXCEPT !.pc = "answering", !.verdict = "COMPLETED"]
    /\ UNCHANGED <<row, log>> /\ OnlyTask

\* Mutant: the catch fails the copy and does not answer.
CaughtFails_Silent ==
    /\ canTransition(scanner.copy.status, "failed")
    /\ Save(scanner.file, advanceState(scanner.copy, "failed"))
    /\ GoOn
    /\ UNCHANGED <<watch, missed>>

\* The catch of processMessageFile fails the copy and answers FAILED.
CaughtFails ==
    /\ canTransition(scanner.copy.status, "failed")
    /\ LET copy == advanceState(scanner.copy, "failed")
       IN /\ Save(scanner.file, copy)
          /\ scanner' = [scanner EXCEPT !.pc = "answering", !.copy = copy,
                                        !.verdict = "FAILED"]
    /\ UNCHANGED <<watch, missed>>

\* A completed copy cannot be failed: the catch throws in its turn.
CaughtThrows ==
    /\ ~canTransition(scanner.copy.status, "failed")
    /\ Rest
    /\ UNCHANGED row

\* The planner, a tool, the gateway or a broadcast throws.
StepThrows ==
    /\ up /\ scanner.pc \in {"planning", "presenting", "asking", "executing",
                             "reporting"}
    /\ Fault
    /\ CaughtFails \/ CaughtThrows
    /\ UNCHANGED <<up, log, chat, disk, processed, crashes>>

\* A plan without shell steps, its tools called or not, is completed from
\* planned, which the state machine refuses.
CannotComplete ==
    /\ ScannerAt("presenting") /\ scanner.plan = "nothing"
    /\ CaughtFails
    /\ UNCHANGED <<up, log, chat, disk, processed, faults, crashes>>

\* What follows the answer file, written or not.
AfterAnswer ==
    IF scanner.verdict = "FAILED"
    THEN scanner' = [scanner EXCEPT !.pc = "apologising"]
    ELSE GoOn

Answered ==
    /\ ScannerAt("answering")
    /\ answer' = [answer EXCEPT ![scanner.file] = scanner.verdict]
    /\ AfterAnswer
    /\ UNCHANGED <<store, dir, seen, processed, watch, counts>>

\* writeBridgeResponse logs what it catches.
AnswerThrows ==
    /\ ScannerAt("answering")
    /\ Fault /\ AfterAnswer
    /\ UNCHANGED <<store, disk, processed, watch, crashes, missed>>

Apologised ==
    /\ ScannerAt("apologising") /\ GoOn
    /\ UNCHANGED <<store, disk, processed, watch, counts>>

ApologyFails ==
    /\ ScannerAt("apologising")
    /\ ScanThrows
    /\ UNCHANGED <<store, disk, processed, crashes>>

-----------------------------------------------------------------------------
(* The operator, the crash and the boot.                                   *)

\* The decision on a held task and the execution it starts, as in ChatFlow.
Operator(h) ==
    \/ \E f \in Tasks : Approve(h, f) \/ ApproveRefused(h, f) \/ Reject(h, f)
    \/ ResumeApproved(h) \/ NotifyThrows(h)
    \/ \E outcome \in {"success", "failure", "blocked"} : ExecutorReturns(h, outcome)
    \/ ExecutorThrows(h) \/ ReplyDone(h) \/ ReplyThrows(h)

OperatorActs ==
    /\ \E h \in Handlers : Operator(h)
    /\ UNCHANGED <<disk, memory, counts>>

Crash ==
    /\ up /\ crashes < MaxCrashes
    /\ up' = FALSE /\ crashes' = crashes + 1
    /\ chat' = [h \in Handlers |-> IdleFrame]
    /\ scanner' = Asleep /\ watch' = "off" /\ processed' = {}
    /\ UNCHANGED <<row, log, disk, faults, missed>>

\* Mutant: the watcher starts without the first scan.
Boot_NoScan ==
    /\ ~up
    /\ up' = TRUE /\ watch' = "on"
    /\ UNCHANGED <<row, log, chat, disk, processed, scanner, counts>>

\* The boot fails the rows that were running and starts the first scan.
Boot ==
    /\ ~up
    /\ up' = TRUE /\ scanner' = Scan
    /\ row' = [f \in Tasks |-> IF HasStatus(f, {"running"})
                               THEN Saved(row[f], advanceState(row[f], "failed"))
                               ELSE row[f]]
    /\ UNCHANGED <<log, chat, disk, processed, watch, counts>>

ScannerStep ==
    \/ Listing \/ ScanEnds \/ ReadThrows
    \/ \E f \in Tasks : \/ RejectUnaccepted(f) \/ RejectLate(f) \/ RejectReplay(f)
                        \/ Claim(f) \/ MarkerThrows(f)
    \/ Noted \/ Moved \/ BookkeepingThrows \/ TaskCreated
    \/ \E plan \in Plans : PlanMade(plan)
    \/ HoldPlan \/ Asked \/ RunPlan
    \/ \E outcome \in {"confirm", "blocked", "failure", "success"} :
          GatewayDecides(outcome)
    \/ Reported \/ StepThrows \/ CannotComplete
    \/ Answered \/ AnswerThrows \/ Apologised \/ ApologyFails

Next ==
    \/ \E f \in Tasks : Deposit(f)
    \/ WatchEvent \/ ScannerStep \/ OperatorActs \/ Crash \/ Boot

Spec == MailboxInit /\ [][Next]_vars

(***************************************************************************)
(* A supervisor boots the process, an awaited call returns or throws, and  *)
(* an event of the directory is delivered.  Deposits and decisions of the  *)
(* operator are not promised.                                              *)
(***************************************************************************)
Fairness == WF_vars(Boot) /\ WF_vars(ScannerStep) /\ WF_vars(WatchEvent)

FairSpec == Spec /\ Fairness

-----------------------------------------------------------------------------
(* Safety.                                                                 *)

\* The files, the memory of the scanner and the task rows have the values
\* the code gives them.
TypeOK ==
    /\ row \in [Tasks -> Copies \cup {NoRow}]
    /\ up \in BOOLEAN
    /\ log \in [Tasks -> Logs]
    /\ chat \in [Handlers -> Frames]
    /\ dir \in [Tasks -> {"outside", "inbox", "processed", "rejected"}]
    /\ seen \subseteq Messages /\ processed \subseteq Messages
    /\ watch \in {"off", "on", "event"}
    /\ scanner \in Scanners
    /\ answer \in [Tasks -> {NoAnswer, "COMPLETED", "FAILED"}]
    /\ faults \in Nat /\ crashes \in Nat
    /\ missed \subseteq Tasks

\* A message becomes one task at most, however often it is deposited and
\* whenever the process dies (the replay guard and its markers on disk).
OneTaskPerMessage ==
    \A f, g \in Tasks :
        Exists(f) /\ Exists(g) /\ MessageId[f] = MessageId[g] => f = g

\* The task of a message is there, or the scanner is about to create it.
InHand(m) ==
    \E f \in Tasks :
        /\ MessageId[f] = m
        /\ \/ Exists(f)
           \/ scanner.file = f /\ scanner.pc \in {"claiming", "announcing"}

Lost == {m \in seen \cup processed : ~InHand(m)}

\* A message that was claimed and never became a task was lost to a crash or
\* to a failed call, one message to each (claim first, task later).
LossNeedsFault == Cardinality(Lost) <= faults + crashes

\* The executor of the gateway and of the chat ran a plan once if nobody had
\* to approve it, and otherwise once for each approval.
LaunchesAreEarned ==
    \A f \in Tasks :
        log[f].launches <= log[f].approvals + (IF log[f].held THEN 0 ELSE 1)

\* A file stays in the inbox of a watcher at rest only if it came after the
\* last listing and its event was dropped, or if its scan was broken off.
StuckNeedsMissedEvent ==
    up /\ watch = "on" /\ scanner.pc = "idle" => Inbox \subseteq missed

-----------------------------------------------------------------------------
(* Refinement and progress.                                                *)

TasksOf(m) == {f \in Tasks : MessageId[f] = m /\ Exists(f)}

Phase(m) ==
    CASE \E f \in TasksOf(m) : answer[f] # NoAnswer -> "answered"
      [] TasksOf(m) # {} /\ (\A f \in TasksOf(m) : answer[f] = NoAnswer) -> "open"
      [] TasksOf(m) = {} /\ m \in seen -> "claimed"
      [] OTHER -> "new"

Ledger == INSTANCE MailboxLedger
             WITH phase <- [m \in Messages |-> Phase(m)],
                  tasks <- [m \in Messages |-> TasksOf(m)]

\* Every message goes through the phases of MailboxLedger once, and never
\* back, across crashes, replays and failed calls.
LedgerSpec == Ledger!Spec

\* A boot takes every file that was left in the inbox while the process was
\* down, unless a call fails and breaks off its first scan.
BootDrainsInbox ==
    \A f \in Tasks : (~up /\ dir[f] = "inbox") ~> (dir[f] # "inbox" \/ faults > 0)

\* A message that became a task is answered, or waits for the operator,
\* unless a call fails or the process dies.
TaskIsAnswered ==
    \A f \in Tasks :
        Exists(f) ~> \/ answer[f] # NoAnswer \/ log[f].held
                     \/ faults > 0 \/ crashes > 0

-----------------------------------------------------------------------------
(* What the answer says.                                                   *)

\* An answer that says COMPLETED is about a task that is completed.
CompletedAnswerIsTrue ==
    \A f \in Tasks :
        answer[f] = "COMPLETED" => row[f].status = "completed"
=============================================================================
