------------------------------ MODULE Scheduler ------------------------------
(***************************************************************************)
(* The job scheduler: the engine with its timer and its catch-up, the      *)
(* store with its file jobs.json, and the tool that creates, changes,      *)
(* deletes and runs jobs.                                                  *)
(*                                                                         *)
(* The store hands out the objects of its map, saveJob replaces an object  *)
(* by a copy, and the schedule is shared by all copies: so a job is a      *)
(* number of versions, and what a loop holds may no longer be the version  *)
(* in the map.  A loop is cut where it awaits the webhook of a job; jobs   *)
(* without a webhook never wait, and are the case of an answer at once.    *)
(***************************************************************************)
EXTENDS Naturals, Sequences, SequencesExt, FiniteSetsExt

CONSTANTS
    MaxJobs,       \* bound: jobs ever created
    MaxLoops,      \* bound: loops that are under way at the same time
    MaxCalls,      \* bound: calls of the tool and of start and stop
    MaxDue,        \* bound: moments at which a job comes due
    MaxFaults,     \* bound: writes of jobs.json that fail
    MaxCrashes     \* bound: how often the process dies

ASSUME SchedulerAssumption ==
    /\ {MaxJobs, MaxLoops} \subseteq Nat \ {0}
    /\ {MaxCalls, MaxDue, MaxFaults, MaxCrashes} \subseteq Nat

Jobs   == 1 .. MaxJobs
Fibers == 1 .. MaxLoops

VARIABLES
    up,        \* does the process run?
    jobs,      \* the map of the store, in insertion order
    version,   \* the versions of each job that anybody refers to
    schedule,  \* the schedule of each job, shared by its versions
    disk,      \* jobs.json
    fiber,     \* the loops: what each one still has to do
    engine,    \* isRunning and the timer
    created,   \* how many jobs were created: their ids are new ones
    count,     \* calls, moments, failed writes, crashes so far
    seen       \* for the properties

vars == <<up, jobs, version, schedule, disk, fiber, engine, created, count, seen>>

\* One version more than loops: each holds one, and the map another.
Versions == 1 .. MaxLoops + 1

\* ahead, past: an "at" schedule before and after its moment; bad: one from
\* which no date can be computed.
Schedules == {"every", "ahead", "past", "bad"}

Objects == [enabled: BOOLEAN, next: {"future", "due"}]
Blank == [enabled |-> FALSE, next |-> "due"]

Ref(j, v) == [id |-> j, v |-> v]
Refs == [id: Jobs, v: Versions]

\* list: the jobs ahead of the loop; it awaits the webhook of the first one.
Kinds == {"tick", "catchup", "run_now"}
Idle == [kind |-> "tick", list |-> <<>>]

\* leaked: a timer whose handle was overwritten.
Stopped == [running |-> FALSE, timer |-> FALSE, leaked |-> FALSE]

\* spare: runs a job is entitled to; surplus: jobs that ran without one;
\* excused: jobs for which that may happen; deleted, listed: jobs that were
\* deleted, and those a loop had in hand just then; early: was the engine
\* stopped in a catch-up?; broken: did a start throw?
Init ==
    /\ up = TRUE
    /\ jobs = <<>> /\ disk = <<>>
    /\ version = [j \in Jobs |-> [v \in Versions |-> Blank]]
    /\ schedule = [j \in Jobs |-> "every"]
    /\ fiber = [f \in Fibers |-> Idle]
    /\ engine = Stopped
    /\ created = 0
    /\ count = [calls |-> 0, due |-> 0, faults |-> 0, crashes |-> 0]
    /\ seen = [spare |-> [j \in Jobs |-> 0], surplus |-> {}, excused |-> {},
               deleted |-> {}, listed |-> {}, early |-> FALSE, broken |-> FALSE]

Object(ref) == version[ref.id][ref.v]

Position(j) == {i \in DOMAIN jobs : jobs[i].id = j}
InMap(j) == Position(j) # {}
getJob(j) == jobs[CHOOSE i \in Position(j) : TRUE]

\* What a filter leaves of a list, in its order: the members that are in a set.
Filter(list, keep) ==
    LET kept[n \in 0 .. Len(list)] ==
            IF n = 0 THEN <<>>
            ELSE IF list[n] \in keep THEN Append(kept[n - 1], list[n])
            ELSE kept[n - 1]
    IN  kept[Len(list)]

IsIdle(f) == fiber[f].list = <<>>

\* A new loop takes the first place that is free.
IsNext(f) == IsIdle(f) /\ \A g \in Fibers : g < f => ~IsIdle(g)
IdsOf(list) == {list[i].id : i \in DOMAIN list}
HeldBy(frame, j) == {v \in Versions : \E i \in DOMAIN frame.list : frame.list[i] = Ref(j, v)}

MayCall == up /\ count.calls < MaxCalls
Called == [count EXCEPT !.calls = @ + 1]
Call == MayCall /\ count' = Called

-----------------------------------------------------------------------------
(* The store.                                                              *)

\* What persistJobsToDisk writes.
Image(map, objects, plan) ==
    [i \in DOMAIN map |-> [id       |-> map[i].id,
                           object   |-> objects[map[i].id][map[i].v],
                           schedule |-> plan[map[i].id]]]

\* The map is written as a whole, after a change of job j; what the write
\* throws is logged and forgotten.
persistJobsToDisk(j, c, s) ==
    \/ /\ disk' = Image(jobs', version', schedule')
       /\ count' = c /\ seen' = s
    \/ /\ c.faults < MaxFaults
       /\ UNCHANGED disk
       /\ count' = [c EXCEPT !.faults = @ + 1]
       /\ seen' = [s EXCEPT !.excused = @ \cup {j}]

\* A copy of object becomes the version in the map; a job that is not there
\* comes in at the end.  The versions no loop holds any more are forgotten.
saveJob(j, object, objects, c, s) ==
    LET held == UNION {HeldBy(fiber'[f], j) : f \in Fibers}
        new  == Min(Versions \ held)
    IN /\ jobs' = IF InMap(j)
                  THEN [jobs EXCEPT ![Min(Position(j))].v = new]
                  ELSE Append(jobs, Ref(j, new))
       /\ version' = [objects EXCEPT ![j] = [v \in Versions |->
             IF v = new THEN object ELSE IF v \in held THEN @[v] ELSE Blank]]
       /\ persistJobsToDisk(j, c, s)

\* A process reads jobs.json; its engine does not run yet.
loadFromDisk ==
    /\ jobs' = [i \in DOMAIN disk |-> Ref(disk[i].id, 1)]
    /\ version' = [j \in Jobs |-> [v \in Versions |->
          IF v = 1 /\ \E i \in DOMAIN disk : disk[i].id = j
          THEN (CHOOSE r \in Range(disk) : r.id = j).object
          ELSE Blank]]
    /\ schedule' = [j \in Jobs |-> IF \E i \in DOMAIN disk : disk[i].id = j
                                   THEN (CHOOSE r \in Range(disk) : r.id = j).schedule
                                   ELSE "every"]

-----------------------------------------------------------------------------
(* The engine.                                                             *)

\* Mutant: an interval that was missed counts at once.
calculateNextRun_FromLast(plan) == IF plan = "ahead" THEN "future" ELSE "due"

\* The next run of an interval lies ahead, that of an "at" job is its moment
\* again.
calculateNextRun(plan) == IF plan = "past" THEN "due" ELSE "future"

\* Mutant: a job that is not due ends the loop.
Ahead_Breaks(kind, list, objects) ==
    IF kind # "tick" \/ list = <<>> THEN list
    ELSE IF objects[Head(list).id][Head(list).v].next = "due" THEN list ELSE <<>>

\* The rest of a loop from the next job it dispatches: a tick looks at
\* nextRunAt again, a catch-up does not.
Ahead(kind, list, objects) ==
    IF kind # "tick" THEN list
    ELSE LET due == {i \in DOMAIN list : objects[list[i].id][list[i].v].next = "due"}
         IN IF due = {} THEN <<>> ELSE SubSeq(list, Min(due), Len(list))

\* Loop f, if a job is ahead of it now, runs that job: the prompt is executed
\* at once, the webhook is awaited.
Begins(f, s) ==
    IF fiber'[f].list = <<>> THEN s
    ELSE LET j      == Head(fiber'[f].list).id
             others == UNION {IdsOf(fiber'[g].list) : g \in Fibers \ {f}}
         IN [s EXCEPT !.spare[j] = IF @ = 0 THEN 0 ELSE @ - 1,
                      !.surplus  = IF s.spare[j] = 0 THEN @ \cup {j} ELSE @,
                      !.excused  = @ \cup (IdsOf(fiber'[f].list) \cap others)]

StartLoop(f, kind, list) ==
    /\ IsNext(f)
    /\ fiber' = [fiber EXCEPT ![f] = IF list = <<>> THEN Idle
                                     ELSE [kind |-> kind, list |-> list]]

\* The timer is set; the handle of one that is set already is overwritten.
SetTimer(e) == [e EXCEPT !.timer = TRUE, !.leaked = @ \/ e.timer]

Overdue == {ref \in Refs : Object(ref).enabled /\ Object(ref).next = "due"}

\* Mutant: the engine says that it runs only once its catch-up is over.
start_Late(f) ==
    /\ Call /\ ~engine.running
    /\ StartLoop(f, "catchup", Filter(jobs, Overdue))
    /\ engine' = IF fiber'[f] = Idle
                 THEN [SetTimer(engine) EXCEPT !.running = TRUE] ELSE engine
    /\ seen' = Begins(f, seen)
    /\ UNCHANGED <<up, jobs, version, schedule, disk, created>>

\* start: the jobs that are overdue are run one by one, then the timer is set.
start(f) ==
    /\ Call /\ ~engine.running
    /\ StartLoop(f, "catchup", Filter(jobs, Overdue))
    /\ LET e == [engine EXCEPT !.running = TRUE]
       IN engine' = IF fiber'[f] = Idle THEN SetTimer(e) ELSE e
    /\ seen' = Begins(f, seen)
    /\ UNCHANGED <<up, jobs, version, schedule, disk, created>>

\* stop clears the timer it knows of, and no loop.
stop ==
    /\ Call /\ engine.running
    /\ engine' = [engine EXCEPT !.running = FALSE, !.timer = FALSE]
    /\ seen' = [seen EXCEPT !.early =
                   @ \/ \E f \in Fibers : fiber[f].kind = "catchup" /\ ~IsIdle(f)]
    /\ UNCHANGED <<up, jobs, version, schedule, disk, fiber, created>>

EnabledRefs == {ref \in Refs : Object(ref).enabled}

\* The timer does not wait for the tick before.
tick(f) ==
    /\ up /\ (engine.timer \/ engine.leaked)
    /\ StartLoop(f, "tick", Ahead("tick", Filter(jobs, EnabledRefs), version))
    /\ fiber'[f] # Idle
    /\ seen' = Begins(f, seen)
    /\ UNCHANGED <<up, jobs, version, schedule, disk, engine, created, count>>

\* The webhook has answered or failed: nextRunAt is set in the object the
\* loop holds, a copy of that object is saved, and the loop goes on.
Delivered(f) ==
    LET ref     == Head(fiber[f].list)
        object  == [Object(ref) EXCEPT !.next = calculateNextRun(schedule[ref.id])]
        objects == [version EXCEPT ![ref.id][ref.v] = object]
        rest    == Ahead(fiber[f].kind, Tail(fiber[f].list), objects)
    IN /\ up /\ ~IsIdle(f) /\ schedule[ref.id] # "bad"
       /\ fiber' = [fiber EXCEPT ![f] = IF rest = <<>> THEN Idle ELSE [@ EXCEPT !.list = rest]]
       /\ engine' = IF fiber[f].kind = "catchup" /\ fiber'[f] = Idle
                    THEN SetTimer(engine) ELSE engine
       /\ UNCHANGED <<up, schedule, created>>
       /\ saveJob(ref.id, object, objects, count, Begins(f, seen))

\* The state of a process that is gone.
Dies ==
    /\ up' = FALSE
    /\ fiber' = [f \in Fibers |-> Idle]
    /\ engine' = Stopped
    /\ seen' = [seen EXCEPT !.excused =
          @ \cup {Head(fiber[f].list).id : f \in {g \in Fibers : ~IsIdle(g)}}]
    /\ UNCHANGED <<jobs, version, schedule, disk, created>>

\* No next date can be computed, and the job stays due.  run_now reports the
\* error; start throws and leaves isRunning behind; nobody awaits a tick, so
\* its rejection ends the process.
NoNextRun(f) ==
    /\ up /\ ~IsIdle(f) /\ schedule[Head(fiber[f].list).id] = "bad"
    /\ \/ fiber[f].kind = "tick" /\ Dies
       \/ /\ fiber[f].kind # "tick"
          /\ fiber' = [fiber EXCEPT ![f] = Idle]
          /\ seen' = [seen EXCEPT !.broken = @ \/ fiber[f].kind = "catchup"]
          /\ UNCHANGED <<up, jobs, version, schedule, disk, engine, created>>
    /\ UNCHANGED count

-----------------------------------------------------------------------------
(* The tool.                                                               *)

\* Entitled once if it is due at once; an "at" job stays due.
Scheduled(j, plan, s) ==
    [s EXCEPT !.spare[j] = IF plan = "past" THEN @ + 1 ELSE @,
              !.excused  = IF plan = "every" THEN @ ELSE @ \cup {j}]

\* A schedule without a date makes create throw before it saves anything.
create(j, plan, enabled) ==
    /\ MayCall /\ j = created + 1 /\ plan # "bad"
    /\ created' = j
    /\ schedule' = [schedule EXCEPT ![j] = plan]
    /\ UNCHANGED <<up, fiber, engine>>
    /\ saveJob(j, [enabled |-> enabled, next |-> calculateNextRun(plan)], version,
               Called, Scheduled(j, plan, seen))

\* update changes the object of the map in place and saves a copy of it.
Change(j, object, s) ==
    saveJob(j, object, [version EXCEPT ![j][getJob(j).v] = object], Called, s)

updateEnabled(j, enabled) ==
    /\ MayCall /\ InMap(j)
    /\ UNCHANGED <<up, schedule, fiber, engine, created>>
    /\ Change(j, [Object(getJob(j)) EXCEPT !.enabled = enabled], seen)

updateSchedule(j, plan) ==
    /\ MayCall /\ InMap(j) /\ plan # "bad"
    /\ schedule' = [schedule EXCEPT ![j] = plan]
    /\ UNCHANGED <<up, fiber, engine, created>>
    /\ Change(j, [Object(getJob(j)) EXCEPT !.next = calculateNextRun(plan)],
              Scheduled(j, plan, seen))

\* No date can be computed from the new schedule: update throws, with the
\* schedule changed in place and nothing saved.
updateThrows(j) ==
    /\ Call /\ InMap(j)
    /\ schedule' = [schedule EXCEPT ![j] = "bad"]
    /\ seen' = [seen EXCEPT !.excused = @ \cup {j}]
    /\ UNCHANGED <<up, jobs, version, disk, fiber, engine, created>>

\* Mutant: the job is deleted from the map and stays in the file.
delete_InMemory(j) ==
    /\ Call /\ InMap(j)
    /\ jobs' = Filter(jobs, {ref \in Refs : ref.id # j})
    /\ seen' = [seen EXCEPT !.deleted = @ \cup {j},
          !.listed = IF \E f \in Fibers : j \in IdsOf(fiber[f].list)
                     THEN @ \cup {j} ELSE @]
    /\ UNCHANGED <<up, version, schedule, disk, fiber, engine, created>>

\* The loops that hold the job are not told.
delete(j) ==
    /\ MayCall /\ InMap(j)
    /\ jobs' = Filter(jobs, {ref \in Refs : ref.id # j})
    /\ UNCHANGED <<up, version, schedule, fiber, engine, created>>
    /\ persistJobsToDisk(j, Called, [seen EXCEPT
          !.deleted = @ \cup {j},
          !.listed  = IF \E f \in Fibers : j \in IdsOf(fiber[f].list)
                      THEN @ \cup {j} ELSE @])

run_now(f, j) ==
    /\ Call /\ InMap(j)
    /\ StartLoop(f, "run_now", <<getJob(j)>>)
    /\ seen' = Begins(f, [seen EXCEPT !.spare[j] = @ + 1])
    /\ UNCHANGED <<up, jobs, version, schedule, disk, engine, created>>

-----------------------------------------------------------------------------
(* Time, crash, boot.                                                      *)

\* The next run of j comes due, in memory and in the file.
TimePasses(j) ==
    /\ count.due < MaxDue
    /\ IF up THEN InMap(j) /\ Object(getJob(j)).next = "future"
             ELSE \E r \in Range(disk) : r.id = j /\ r.object.next = "future"
    /\ version' = [version EXCEPT ![j] = [v \in Versions |-> [@[v] EXCEPT !.next = "due"]]]
    /\ schedule' = [schedule EXCEPT ![j] = IF @ = "ahead" THEN "past" ELSE @]
    /\ disk' = [i \in DOMAIN disk |->
          IF disk[i].id # j THEN disk[i]
          ELSE [disk[i] EXCEPT !.object.next = "due",
                               !.schedule = IF @ = "ahead" THEN "past" ELSE @]]
    /\ count' = [count EXCEPT !.due = @ + 1]
    /\ seen' = [seen EXCEPT !.spare[j] = @ + 1]
    /\ UNCHANGED <<up, jobs, fiber, engine, created>>

Crash ==
    /\ up /\ count.crashes < MaxCrashes
    /\ count' = [count EXCEPT !.crashes = @ + 1]
    /\ Dies

Boot ==
    /\ ~up
    /\ up' = TRUE
    /\ loadFromDisk
    /\ UNCHANGED <<disk, fiber, engine, created, count, seen>>

LoopStep(f) == tick(f) \/ Delivered(f) \/ NoNextRun(f)

Tool(j) ==
    \/ \E plan \in Schedules, enabled \in BOOLEAN : create(j, plan, enabled)
    \/ \E enabled \in BOOLEAN : updateEnabled(j, enabled)
    \/ \E plan \in Schedules : updateSchedule(j, plan)
    \/ updateThrows(j) \/ delete(j)
    \/ \E f \in Fibers : run_now(f, j)

Next ==
    \/ stop \/ Crash \/ Boot
    \/ \E f \in Fibers : start(f) \/ LoopStep(f)
    \/ \E j \in Jobs : Tool(j) \/ TimePasses(j)

Spec == Init /\ [][Next]_vars

(***************************************************************************)
(* The timer fires while it is set, and a webhook is answered or its fetch *)
(* fails.  Nobody promises to call the tool, or to start the engine.       *)
(***************************************************************************)
Fairness == \A f \in Fibers : WF_vars(LoopStep(f))

FairSpec == Spec /\ Fairness

-----------------------------------------------------------------------------
(* Properties.                                                             *)

\* A job on an interval runs more often than it came due or was asked for only
\* if two loops had it in hand at once, a crash cut its run, jobs.json could
\* not be written, or its schedule was ever another one.
SurplusNeedsCause == seen.surplus \subseteq seen.excused

\* A deleted job comes back, in this process or after a restart, only if a
\* loop had it in hand when it was deleted, or a write failed.
DeletedStaysGone ==
    \A j \in seen.deleted : InMap(j) => j \in seen.listed \/ count.faults > 0

\* One timer ticks at most, and none once the engine is stopped, unless it
\* was stopped in a catch-up.
OneTimer == engine.leaked \/ (engine.timer /\ ~engine.running) => seen.early

IsDue(j) == InMap(j) /\ Object(getJob(j)) = [enabled |-> TRUE, next |-> "due"]

Running(j) == \E f \in Fibers : ~IsIdle(f) /\ Head(fiber[f].list).id = j

\* While the engine runs, a job that is due is run, whatever other jobs the
\* loops have in hand, unless there is a schedule without a date.
DueIsRun ==
    \A j \in Jobs :
        engine.running /\ IsDue(j) ~>
            \/ Running(j) \/ ~IsDue(j) \/ ~engine.running
            \/ seen.broken \/ \E k \in Jobs : schedule[k] = "bad"

\* The catch-up has an "at-most-one" policy (catchup.ts:4) "to prevent
\* duplicate triggers after system sleep/reboot" (docs/ARCHITECTURE_DOCTRINE.md:45):
\* a job runs once for each time it comes due or is asked for.
OneRunPerDueTime == seen.surplus = {}
=============================================================================
