-------------------------- MODULE Scheduler_proofs --------------------------
(***************************************************************************)
(* Proofs about Scheduler, for any jobs, loops, calls of the tool, failed  *)
(* writes and crashes.  The first part: the engine has one timer at most,  *)
(* and none once it is stopped, unless somebody stopped it while its       *)
(* catch-up awaited a webhook.  The second part: a job runs more often     *)
(* than it came due or was asked for only for one of four reasons, and a   *)
(* deleted job comes back only for one of two.                             *)
(***************************************************************************)
EXTENDS Scheduler, FiniteSetTheorems, TLAPS

\* A loop that the start of the engine began and that is not over.
CatchingUp(f) == fiber[f].kind = "catchup" /\ ~IsIdle(f)

\* The part of the types that the argument needs.
Shape ==
    /\ DOMAIN fiber = Fibers
    /\ \A f \in Fibers : DOMAIN fiber[f] = {"kind", "list"}
    /\ engine \in [running: BOOLEAN, timer: BOOLEAN, leaked: BOOLEAN]
    /\ "early" \in DOMAIN seen /\ seen.early \in BOOLEAN

\* The engine has no timer that it does not know of and none while it is
\* stopped; while it catches up it runs, has no timer yet, and does so once.
Tidy ==
    /\ ~engine.leaked
    /\ engine.timer => engine.running
    /\ \A f \in Fibers : CatchingUp(f) => engine.running /\ ~engine.timer
    /\ \A f, g \in Fibers : CatchingUp(f) /\ CatchingUp(g) => f = g

\* Stopping it in a catch-up is what spoils that: the catch-up goes on.
TimerInv == Shape /\ (seen.early \/ Tidy)

-----------------------------------------------------------------------------
(* The operators.                                                          *)

\* The step of a loop leaves the memory of early stops alone.
LEMMA BeginsKeeps ==
    ASSUME NEW f \in Fibers, NEW s, "early" \in DOMAIN s
    PROVE  "early" \in DOMAIN Begins(f, s) /\ Begins(f, s).early = s.early
<1>1. CASE fiber'[f].list = <<>>
  BY <1>1 DEF Begins
<1>2. CASE fiber'[f].list # <<>>
  BY <1>2 DEF Begins
<1> QED BY <1>1, <1>2

\* So does a write of the map.
LEMMA SaveKeeps ==
    ASSUME NEW j, NEW object, NEW objects, NEW c, NEW s, "early" \in DOMAIN s,
           saveJob(j, object, objects, c, s)
    PROVE  "early" \in DOMAIN seen' /\ seen'.early = s.early
BY DEF saveJob, persistJobsToDisk

\* The entitlement to a run has nothing to do with it either.
LEMMA ScheduledKeeps ==
    ASSUME NEW j, NEW plan, NEW s, "early" \in DOMAIN s
    PROVE  "early" \in DOMAIN Scheduled(j, plan, s) /\ Scheduled(j, plan, s).early = s.early
BY DEF Scheduled

\* The timer that is set is the one the engine knows, unless there was one.
LEMMA SetTimerIs ==
    ASSUME NEW e \in [running: BOOLEAN, timer: BOOLEAN, leaked: BOOLEAN]
    PROVE  /\ SetTimer(e) \in [running: BOOLEAN, timer: BOOLEAN, leaked: BOOLEAN]
           /\ SetTimer(e).running = e.running /\ SetTimer(e).timer = TRUE
           /\ SetTimer(e).leaked = (e.leaked \/ e.timer)
BY DEF SetTimer

\* A new loop takes a place that was free, and the others go on.
LEMMA StartLoopIs ==
    ASSUME Shape, NEW f \in Fibers, NEW kind, NEW list, StartLoop(f, kind, list)
    PROVE  /\ DOMAIN fiber' = Fibers /\ \A g \in Fibers : DOMAIN fiber'[g] = {"kind", "list"}
           /\ ~CatchingUp(f)
           /\ CatchingUp(f)' => kind = "catchup" /\ fiber'[f] # Idle
           /\ \A g \in Fibers : g # f => fiber'[g] = fiber[g] /\ CatchingUp(g)' = CatchingUp(g)
<1> DEFINE fr == IF list = <<>> THEN Idle ELSE [kind |-> kind, list |-> list]
<1>1. fiber' = [fiber EXCEPT ![f] = fr] /\ IsIdle(f)
  BY DEF StartLoop, IsNext
<1>2. DOMAIN fr = {"kind", "list"} /\ (fr.list # <<>> => fr.kind = kind /\ fr # Idle)
  BY DEF Idle
<1> HIDE DEF fr
<1>3. fiber'[f] = fr /\ DOMAIN fiber' = Fibers
      /\ \A g \in Fibers : g # f => fiber'[g] = fiber[g]
  BY <1>1 DEF Shape
<1>4. ~CatchingUp(f)
  BY <1>1 DEF CatchingUp
<1>5. CatchingUp(f)' => kind = "catchup" /\ fiber'[f] # Idle
  BY <1>2, <1>3 DEF CatchingUp, IsIdle
<1>6. \A g \in Fibers : g # f => CatchingUp(g)' = CatchingUp(g)
  BY <1>3 DEF CatchingUp, IsIdle
<1> QED BY <1>2, <1>3, <1>4, <1>5, <1>6 DEF Shape

-----------------------------------------------------------------------------
(* The steps.                                                              *)

\* What leaves the engine alone, forgets no early stop and begins no catch-up
\* keeps the invariant.
LEMMA QuietKeeps ==
    ASSUME TimerInv, engine' = engine,
           "early" \in DOMAIN seen', seen'.early = seen.early,
           DOMAIN fiber' = Fibers, \A g \in Fibers : DOMAIN fiber'[g] = {"kind", "list"},
           \A g \in Fibers : CatchingUp(g)' => CatchingUp(g)
    PROVE  TimerInv'
BY DEF TimerInv, Shape, Tidy

\* The same where no loop changes at all.
LEMMA StillKeeps ==
    ASSUME TimerInv, engine' = engine, fiber' = fiber,
           "early" \in DOMAIN seen', seen'.early = seen.early
    PROVE  TimerInv'
BY QuietKeeps DEF CatchingUp, IsIdle, TimerInv, Shape

\* A process that is gone has neither loops nor timers.
LEMMA DiesKeeps ==
    ASSUME TimerInv, Dies
    PROVE  TimerInv'
<1>1. fiber' = [f \in Fibers |-> Idle] /\ engine' = Stopped
      /\ "early" \in DOMAIN seen' /\ seen'.early = seen.early
  BY DEF Dies, TimerInv, Shape
<1>2. \A f \in Fibers : ~CatchingUp(f)'
  BY <1>1 DEF CatchingUp, IsIdle, Idle
<1>3. Shape'
  BY <1>1 DEF Shape, Stopped, Idle, TimerInv
<1>4. Tidy'
  BY <1>1, <1>2 DEF Tidy, Stopped
<1> QED BY <1>3, <1>4 DEF TimerInv

\* A start begins one catch-up, or sets the timer at once: the engine did not
\* run, so there was neither a timer nor a catch-up.
LEMMA StartKeeps ==
    ASSUME TimerInv, NEW f \in Fibers, start(f)
    PROVE  TimerInv'
<1> DEFINE e == [engine EXCEPT !.running = TRUE]
<1>0. Shape /\ (seen.early \/ Tidy)
  BY DEF TimerInv
<1>1. /\ ~engine.running
      /\ engine' = IF fiber'[f] = Idle THEN SetTimer(e) ELSE e
      /\ seen' = Begins(f, seen)
      /\ \E list : StartLoop(f, "catchup", list)
  BY DEF start
<1>2. e \in [running: BOOLEAN, timer: BOOLEAN, leaked: BOOLEAN]
      /\ e.running = TRUE /\ e.timer = engine.timer /\ e.leaked = engine.leaked
  BY <1>0 DEF Shape
<1> HIDE DEF e
<1>3. /\ engine' \in [running: BOOLEAN, timer: BOOLEAN, leaked: BOOLEAN]
      /\ engine'.running
      /\ fiber'[f] # Idle => engine'.timer = engine.timer
      /\ engine'.leaked = (engine.leaked \/ (fiber'[f] = Idle /\ engine.timer))
  BY <1>1, <1>2, SetTimerIs
<1>4. "early" \in DOMAIN seen' /\ seen'.early = seen.early
  BY <1>0, <1>1, BeginsKeeps DEF Shape
<1>5. /\ DOMAIN fiber' = Fibers /\ \A g \in Fibers : DOMAIN fiber'[g] = {"kind", "list"}
      /\ CatchingUp(f)' => fiber'[f] # Idle
      /\ \A g \in Fibers : g # f => (CatchingUp(g)' = CatchingUp(g))
  BY <1>0, <1>1, StartLoopIs
<1>6. Shape'
  BY <1>0, <1>3, <1>4, <1>5 DEF Shape
<1>7. ASSUME Tidy PROVE Tidy'
  <2>1. ~engine.timer /\ ~engine.leaked /\ \A g \in Fibers : ~CatchingUp(g)
    BY <1>1, <1>7 DEF Tidy
  <2>2. ~engine'.leaked /\ engine'.running
    BY <1>3, <2>1
  <2>3. \A g \in Fibers : CatchingUp(g)' => g = f /\ ~engine'.timer
    BY <1>3, <1>5, <2>1
  <2> QED BY <2>2, <2>3 DEF Tidy
<1> QED BY <1>0, <1>4, <1>6, <1>7 DEF TimerInv

\* A stop in a catch-up is remembered; any other leaves no timer behind.
LEMMA StopKeeps ==
    ASSUME TimerInv, stop
    PROVE  TimerInv'
<1>0. Shape /\ (seen.early \/ Tidy)
  BY DEF TimerInv
<1>1. fiber' = fiber /\ engine.running
      /\ engine' = [engine EXCEPT !.running = FALSE, !.timer = FALSE]
  BY DEF stop
<1>2. engine' \in [running: BOOLEAN, timer: BOOLEAN, leaked: BOOLEAN]
      /\ ~engine'.running /\ ~engine'.timer /\ engine'.leaked = engine.leaked
  BY <1>0, <1>1 DEF Shape
<1>3. "early" \in DOMAIN seen'
      /\ seen'.early = (seen.early \/ \E f \in Fibers : CatchingUp(f))
  BY <1>0 DEF stop, Shape, CatchingUp
<1>4. Shape'
  BY <1>0, <1>1, <1>2, <1>3 DEF Shape
<1>5. ASSUME ~seen'.early PROVE Tidy'
  <2>1. Tidy /\ \A f \in Fibers : ~CatchingUp(f)
    BY <1>0, <1>3, <1>5
  <2>2. \A f \in Fibers : ~CatchingUp(f)'
    BY <1>1, <2>1 DEF CatchingUp, IsIdle
  <2> QED BY <1>2, <2>1, <2>2 DEF Tidy
<1> QED BY <1>4, <1>5 DEF TimerInv

\* A catch-up that ends sets the timer, which was not set while it went on.
LEMMA DeliveredKeeps ==
    ASSUME TimerInv, NEW f \in Fibers, Delivered(f)
    PROVE  TimerInv'
<1>0. Shape /\ (seen.early \/ Tidy)
  BY DEF TimerInv
<1>1. PICK rest :
         /\ ~IsIdle(f)
         /\ fiber' = [fiber EXCEPT ![f] = IF rest = <<>> THEN Idle
                                          ELSE [fiber[f] EXCEPT !.list = rest]]
         /\ engine' = IF fiber[f].kind = "catchup" /\ fiber'[f] = Idle
                      THEN SetTimer(engine) ELSE engine
         /\ \E j, object, objects : saveJob(j, object, objects, count, Begins(f, seen))
  BY DEF Delivered
<1>2. "early" \in DOMAIN seen' /\ seen'.early = seen.early
  <2>1. "early" \in DOMAIN Begins(f, seen) /\ Begins(f, seen).early = seen.early
    BY <1>0, BeginsKeeps DEF Shape
  <2> QED BY <1>1, <2>1, SaveKeeps
<1> DEFINE fr == IF rest = <<>> THEN Idle ELSE [fiber[f] EXCEPT !.list = rest]
<1>3. DOMAIN fr = {"kind", "list"} /\ (rest # <<>> => fr.kind = fiber[f].kind)
      /\ (rest = <<>> => fr = Idle)
  BY <1>0 DEF Idle, Shape
<1>4. fiber' = [fiber EXCEPT ![f] = fr]
  BY <1>1
<1> HIDE DEF fr
<1>5. fiber'[f] = fr /\ DOMAIN fiber' = Fibers
      /\ \A g \in Fibers : g # f => fiber'[g] = fiber[g]
  BY <1>0, <1>4 DEF Shape
<1>6. \A g \in Fibers : DOMAIN fiber'[g] = {"kind", "list"}
  BY <1>0, <1>3, <1>5 DEF Shape
<1>7. /\ CatchingUp(f) <=> fiber[f].kind = "catchup"
      /\ CatchingUp(f)' => CatchingUp(f) /\ fiber'[f] # Idle
      /\ \A g \in Fibers : g # f => (CatchingUp(g)' <=> CatchingUp(g))
  <2>1. Idle.list = <<>>
    BY DEF Idle
  <2> QED BY <1>1, <1>3, <1>5, <2>1 DEF CatchingUp, IsIdle
<1>8. CASE engine' = engine
  <2>1. \A g \in Fibers : CatchingUp(g)' => CatchingUp(g)
    BY <1>7
  <2> QED BY <1>2, <1>5, <1>6, <1>8, <2>1, QuietKeeps
<1>9. CASE CatchingUp(f) /\ fiber'[f] = Idle /\ engine' = SetTimer(engine)
  <2>1. /\ engine' \in [running: BOOLEAN, timer: BOOLEAN, leaked: BOOLEAN]
        /\ engine'.running = engine.running /\ engine'.timer
        /\ engine'.leaked = (engine.leaked \/ engine.timer)
    BY <1>0, <1>9, SetTimerIs DEF Shape
  <2>2. Shape'
    BY <1>0, <1>2, <1>5, <1>6, <2>1 DEF Shape
  <2>3. ASSUME Tidy PROVE Tidy'
    <3>1. engine.running /\ ~engine.timer /\ ~engine.leaked
      BY <1>9, <2>3 DEF Tidy
    <3>2. \A g \in Fibers : ~CatchingUp(g)'
      BY <1>7, <1>9, <2>3 DEF Tidy
    <3> QED BY <2>1, <3>1, <3>2 DEF Tidy
  <2> QED BY <1>0, <1>2, <2>2, <2>3 DEF TimerInv
<1> QED BY <1>1, <1>7, <1>8, <1>9

\* A loop that cannot compute a next run is over, with or without its process.
LEMMA NoNextRunKeeps ==
    ASSUME TimerInv, NEW f \in Fibers, NoNextRun(f)
    PROVE  TimerInv'
<1>0. Shape
  BY DEF TimerInv
<1>1. CASE Dies
  BY <1>1, DiesKeeps
<1>2. CASE ~Dies
  <2>1. fiber' = [fiber EXCEPT ![f] = Idle] /\ engine' = engine
        /\ "early" \in DOMAIN seen' /\ seen'.early = seen.early
    BY <1>0, <1>2 DEF NoNextRun, Shape
  <2>2. DOMAIN fiber' = Fibers /\ \A g \in Fibers : fiber'[g] \in {Idle, fiber[g]}
    BY <1>0, <2>1 DEF Shape
  <2>3. \A g \in Fibers : DOMAIN fiber'[g] = {"kind", "list"}
    BY <1>0, <2>2 DEF Shape, Idle
  <2>4. \A g \in Fibers : CatchingUp(g)' => CatchingUp(g)
    BY <2>2 DEF CatchingUp, IsIdle, Idle
  <2> QED BY <2>1, <2>2, <2>3, <2>4, QuietKeeps
<1> QED BY <1>1, <1>2

\* A tick and run_now begin a loop that is no catch-up.
LEMMA LoopKeeps ==
    ASSUME TimerInv, NEW f \in Fibers, tick(f) \/ \E j \in Jobs : run_now(f, j)
    PROVE  TimerInv'
<1>0. Shape
  BY DEF TimerInv
<1>1. engine' = engine
      /\ \E kind, list : kind # "catchup" /\ StartLoop(f, kind, list)
  BY DEF tick, run_now
<1>2. \E s : seen' = Begins(f, s) /\ "early" \in DOMAIN s /\ s.early = seen.early
  <2>1. CASE tick(f)
    <3>1. seen' = Begins(f, seen)
      BY <2>1 DEF tick
    <3> QED BY <1>0, <3>1 DEF Shape
  <2>2. ASSUME NEW j \in Jobs, run_now(f, j)
        PROVE  \E s : seen' = Begins(f, s) /\ "early" \in DOMAIN s /\ s.early = seen.early
    <3> DEFINE s == [seen EXCEPT !.spare[j] = @ + 1]
    <3>1. seen' = Begins(f, s)
      BY <2>2 DEF run_now
    <3>2. "early" \in DOMAIN s /\ s.early = seen.early
      BY <1>0 DEF Shape
    <3> HIDE DEF s
    <3> QED BY <3>1, <3>2
  <2> QED BY <2>1, <2>2
<1>3. "early" \in DOMAIN seen' /\ seen'.early = seen.early
  BY <1>2, BeginsKeeps
<1>4. /\ DOMAIN fiber' = Fibers /\ \A g \in Fibers : DOMAIN fiber'[g] = {"kind", "list"}
      /\ \A g \in Fibers : CatchingUp(g)' => CatchingUp(g)
  BY <1>0, <1>1, StartLoopIs
<1> QED BY <1>1, <1>3, <1>4, QuietKeeps

\* The tool, the clock and the boot touch neither loops nor engine.
LEMMA StillSteps ==
    ASSUME TimerInv,
           \/ \E j \in Jobs :
                 \/ \E plan \in Schedules, enabled \in BOOLEAN : create(j, plan, enabled)
                 \/ \E enabled \in BOOLEAN : updateEnabled(j, enabled)
                 \/ \E plan \in Schedules : updateSchedule(j, plan)
                 \/ updateThrows(j) \/ delete(j) \/ TimePasses(j)
           \/ Boot \/ UNCHANGED vars
    PROVE  TimerInv'
<1>0. "early" \in DOMAIN seen
  BY DEF TimerInv, Shape
<1>1. ASSUME NEW j, NEW plan, NEW enabled, create(j, plan, enabled) PROVE TimerInv'
  <2>1. engine' = engine /\ fiber' = fiber
        /\ \E object, objects, c : saveJob(j, object, objects, c, Scheduled(j, plan, seen))
    BY <1>1 DEF create
  <2> QED BY <1>0, <2>1, SaveKeeps, ScheduledKeeps, StillKeeps
<1>2. ASSUME NEW j, NEW enabled, updateEnabled(j, enabled) PROVE TimerInv'
  <2>1. engine' = engine /\ fiber' = fiber
        /\ \E object, objects, c : saveJob(j, object, objects, c, seen)
    BY <1>2 DEF updateEnabled, Change
  <2> QED BY <1>0, <2>1, SaveKeeps, StillKeeps
<1>3. ASSUME NEW j, NEW plan, updateSchedule(j, plan) PROVE TimerInv'
  <2>1. engine' = engine /\ fiber' = fiber
        /\ \E object, objects, c : saveJob(j, object, objects, c, Scheduled(j, plan, seen))
    BY <1>3 DEF updateSchedule, Change
  <2> QED BY <1>0, <2>1, SaveKeeps, ScheduledKeeps, StillKeeps
<1>4. ASSUME NEW j, updateThrows(j) \/ TimePasses(j) PROVE TimerInv'
  <2>1. engine' = engine /\ fiber' = fiber
        /\ "early" \in DOMAIN seen' /\ seen'.early = seen.early
    BY <1>0, <1>4 DEF updateThrows, TimePasses
  <2> QED BY <2>1, StillKeeps
<1>5. ASSUME NEW j, delete(j) PROVE TimerInv'
  <2>1. engine' = engine /\ fiber' = fiber
        /\ "early" \in DOMAIN seen' /\ seen'.early = seen.early
    BY <1>0, <1>5 DEF delete, persistJobsToDisk
  <2> QED BY <2>1, StillKeeps
<1>6. CASE Boot \/ UNCHANGED vars
  BY <1>0, <1>6, StillKeeps DEF Boot, vars
<1> QED BY <1>1, <1>2, <1>3, <1>4, <1>5, <1>6

-----------------------------------------------------------------------------
(* The theorem.                                                            *)

\* The invariant is inductive.
LEMMA TimerInductive == Spec => []TimerInv
<1>1. ASSUME Init PROVE TimerInv
  <2>1. fiber = [f \in Fibers |-> Idle] /\ engine = Stopped
        /\ "early" \in DOMAIN seen /\ seen.early = FALSE
    BY <1>1 DEF Init
  <2>2. \A f \in Fibers : ~CatchingUp(f)
    BY <2>1 DEF CatchingUp, IsIdle, Idle
  <2>3. Shape /\ Tidy
    BY <2>1, <2>2 DEF Shape, Tidy, Stopped, Idle
  <2> QED BY <2>3 DEF TimerInv
<1>2. ASSUME TimerInv, [Next]_vars PROVE TimerInv'
  <2>1. CASE stop \/ Crash
    BY <1>2, <2>1, StopKeeps, DiesKeeps DEF Crash
  <2>2. ASSUME NEW f \in Fibers, start(f) \/ LoopStep(f) PROVE TimerInv'
    BY <1>2, <2>2, StartKeeps, LoopKeeps, DeliveredKeeps, NoNextRunKeeps DEF LoopStep
  <2>3. ASSUME NEW j \in Jobs, NEW f \in Fibers, run_now(f, j) PROVE TimerInv'
    BY <1>2, <2>3, LoopKeeps
  <2> QED BY <1>2, <2>1, <2>2, <2>3, StillSteps DEF Next, Tool
<1> QED BY <1>1, <1>2, PTL DEF Spec

\* One timer ticks at most, and none once the engine is stopped, unless it was
\* stopped while its catch-up awaited a webhook.
THEOREM OneTimerForEver == Spec => []OneTimer
<1>1. TimerInv => OneTimer
  BY DEF TimerInv, Tidy, OneTimer
<1> QED BY <1>1, TimerInductive, PTL

-----------------------------------------------------------------------------
(* Entitlements and deletions: the invariant.                              *)

\* The types of the state.
Rows == [id: Jobs, object: Objects, schedule: Schedules]

Frames == [kind: Kinds, list: Seq(Refs)]

Memories == [spare: [Jobs -> Nat], surplus: SUBSET Jobs, excused: SUBSET Jobs,
             deleted: SUBSET Jobs, listed: SUBSET Jobs, early: BOOLEAN, broken: BOOLEAN]

Counts == [calls: Nat, due: Nat, faults: Nat, crashes: Nat]

\* Type correctness.
TypeOK ==
    /\ up \in BOOLEAN
    /\ jobs \in Seq(Refs)
    /\ version \in [Jobs -> [Versions -> Objects]]
    /\ schedule \in [Jobs -> Schedules]
    /\ disk \in Seq(Rows)
    /\ fiber \in [Fibers -> Frames]
    /\ engine \in [running: BOOLEAN, timer: BOOLEAN, leaked: BOOLEAN]
    /\ created \in 0 .. MaxJobs
    /\ count \in Counts
    /\ seen \in Memories

\* A list has a job once.
OnceIn(list) == \A i, k \in DOMAIN list : list[i].id = list[k].id => i = k

\* The jobs a loop holds, and all ids that are in use.
Listed(f) == IdsOf(fiber[f].list)
Anywhere == IdsOf(jobs) \cup IdsOf(disk) \cup UNION {Listed(f) : f \in Fibers}

\* The ids in the map, in the file and in every loop are distinct.
Distinct == OnceIn(jobs) /\ OnceIn(disk) /\ \A f \in Fibers : OnceIn(fiber[f].list)

\* An id is in use only when it was given out.
Known == Anywhere \cup seen.deleted \subseteq 1 .. created

\* What was deleted while no loop had it in hand is nowhere any more.
Gone ==
    count.faults = 0 =>
        \A j \in seen.deleted \ seen.listed : j \notin Anywhere

\* Two loops have a job in hand only if it is excused.
OneHand ==
    \A f, g \in Fibers : f # g => Listed(f) \cap Listed(g) \subseteq seen.excused

\* A process that is gone has no loops.
Down == ~up => \A f \in Fibers : IsIdle(f)

\* A job that is not excused is on an interval, in memory and in the file.
Plain ==
    \A j \in Jobs \ seen.excused :
        /\ schedule[j] = "every"
        /\ \A i \in DOMAIN disk : disk[i].id = j => disk[i].schedule = "every"

\* A job is due in the map, due in the file, or in hand of a loop that will run it.
DueInMap(j) == \E i \in DOMAIN jobs : jobs[i].id = j /\ version[j][jobs[i].v].next = "due"
DueOnDisk(j) == \E i \in DOMAIN disk : disk[i].id = j /\ disk[i].object.next = "due"

\* The first of a loop runs already; a tick skips what is no longer due.
Awaits(f, j) ==
    \E i \in DOMAIN fiber[f].list :
        /\ i # 1 /\ fiber[f].list[i].id = j
        /\ fiber[f].kind = "tick" => version[j][fiber[f].list[i].v].next = "due"

\* A run of j may begin without that anybody asks for it.
Owed(j) ==
    \/ (DueInMap(j) \/ DueOnDisk(j)) /\ ~Running(j)
    \/ \E f \in Fibers : Awaits(f, j)

\* Such a job, unless it is excused, has a run that nobody took yet.
Entitled ==
    \A j \in Jobs \ seen.excused :
        Owed(j) => seen.spare[j] > 0

\* The invariant.
SchedInv ==
    /\ TypeOK /\ Distinct /\ Known /\ Gone
    /\ OneHand /\ Down /\ Plain /\ Entitled /\ SurplusNeedsCause

-----------------------------------------------------------------------------
(* Numbers, and what a filter returns.                                     *)

\* A set of numbers that is not empty has a least element: the intervals 0 .. n
\* of its members have a least one, strict inclusion of finite sets being well
\* founded.
LEMMA LeastElement ==
    ASSUME NEW T \in SUBSET Nat, T # {}
    PROVE  \E n \in T : \A m \in T : n <= m
<1> DEFINE R == StrictSubsetOrdering(Nat)
           U == {0 .. n : n \in T}
<1>1. IsWellFoundedOn(R, FiniteSubsetsOf(Nat))
  BY FS_StrictSubsetOrderingWellFounded
<1>2. U \subseteq FiniteSubsetsOf(Nat) /\ U # {}
  <2>1. ASSUME NEW n \in T PROVE 0 .. n \in FiniteSubsetsOf(Nat)
    <3>1. IsFiniteSet(0 .. n)
      BY FS_Interval
    <3>2. 0 .. n \in SUBSET Nat
      OBVIOUS
    <3> QED BY <3>1, <3>2 DEF FiniteSubsetsOf
  <2> QED BY <2>1
<1> HIDE DEF R
<1>3. PICK u \in U : \A w \in U : <<w, u>> \notin R
  <2> HIDE DEF U
  <2> QED BY <1>1, <1>2, WFMin
<1>4. PICK n \in T : u = 0 .. n
  BY DEF U
<1>5. ASSUME NEW m \in T, m < n PROVE FALSE
  <2>1. 0 .. m \in U /\ 0 .. m \subseteq 0 .. n /\ 0 .. m # 0 .. n
    BY <1>5
  <2>2. <<0 .. m, u>> \in R
    BY <1>2, <1>4, <2>1 DEF R, StrictSubsetOrdering
  <2> QED BY <1>3, <2>1, <2>2
<1> QED BY <1>5

\* The minimum that the model takes is that element.
LEMMA MinIs ==
    ASSUME NEW T \in SUBSET Nat, T # {}
    PROVE  Min(T) \in T /\ \A m \in T : Min(T) <= m
BY LeastElement DEF Min

\* What holds of 0 and passes from a number to the next one holds up to n.
LEMMA UpTo ==
    ASSUME NEW n \in Nat, NEW S, 0 \in S, \A k \in 0 .. n : k \in S /\ k # n => k + 1 \in S
    PROVE  \A k \in 0 .. n : k \in S
<1> DEFINE T == (0 .. n) \ S
<1> SUFFICES ASSUME T # {} PROVE FALSE
  OBVIOUS
<1>1. PICK k \in T : \A m \in T : k <= m
  <2>1. T \in SUBSET Nat
    OBVIOUS
  <2> HIDE DEF T
  <2> QED BY <2>1, LeastElement
<1>2. k # 0 /\ k - 1 \in 0 .. n /\ k - 1 \notin T /\ k - 1 # n
  BY <1>1
<1>3. (k - 1) + 1 = k /\ k - 1 \in S
  BY <1>2
<1>4. k \in S
  <2> DEFINE m == k - 1
  <2>1. m \in 0 .. n /\ m \in S /\ m # n /\ m + 1 = k
    BY <1>1, <1>2, <1>3
  <2> HIDE DEF m
  <2> QED BY <2>1
<1> QED BY <1>1, <1>4

\* The recursion that defines a filter has a solution on every list.
LEMMA FilterIs ==
    ASSUME NEW R, NEW list \in Seq(R), NEW keep
    PROVE  \E kept : /\ Filter(list, keep) = kept[Len(list)]
                     /\ kept[0] = <<>>
                     /\ \A n \in 1 .. Len(list) :
                           kept[n] = IF list[n] \in keep THEN Append(kept[n - 1], list[n])
                                     ELSE kept[n - 1]
<1> DEFINE Body(f, k) == IF k = 0 THEN <<>>
                         ELSE IF list[k] \in keep THEN Append(f[k - 1], list[k])
                         ELSE f[k - 1]
           S == {n \in Nat : \E f : f = [k \in 0 .. n |-> Body(f, k)]}
           kept == CHOOSE f : f = [k \in 0 .. Len(list) |-> Body(f, k)]
<1>1. 0 \in S
  <2>1. [k \in 0 .. 0 |-> <<>>] = [k \in 0 .. 0 |-> Body([j \in 0 .. 0 |-> <<>>], k)]
    OBVIOUS
  <2> QED BY <2>1
<1>2. ASSUME NEW n \in S PROVE n + 1 \in S
  <2>1. PICK f : f = [k \in 0 .. n |-> Body(f, k)]
    BY <1>2
  <2> DEFINE g == [k \in 0 .. n + 1 |-> IF k = n + 1 THEN Body(f, k) ELSE f[k]]
  <2>2. ASSUME NEW k \in 0 .. n + 1 PROVE g[k] = Body(g, k)
    <3>1. k # 0 => g[k - 1] = f[k - 1]
      OBVIOUS
    <3>2. Body(g, k) = Body(f, k)
      BY <3>1
    <3>3. k # n + 1 => f[k] = Body(f, k)
      <4>1. k # n + 1 => k \in 0 .. n
        OBVIOUS
      <4> HIDE DEF Body
      <4> QED BY <2>1, <4>1
    <3>4. k = n + 1 => g[k] = Body(f, k)
      OBVIOUS
    <3>5. k # n + 1 => g[k] = f[k]
      OBVIOUS
    <3> HIDE DEF Body, g
    <3> QED BY <3>2, <3>3, <3>4, <3>5
  <2>3. DOMAIN g = 0 .. n + 1 /\ g = [k \in DOMAIN g |-> g[k]]
    OBVIOUS
  <2>4. g = [k \in 0 .. n + 1 |-> Body(g, k)]
    <3> HIDE DEF Body, g
    <3> QED BY <2>2, <2>3
  <2>5. n + 1 \in Nat
    OBVIOUS
  <2> HIDE DEF g
  <2> QED BY <2>4, <2>5
<1>3. Len(list) \in S
  <2> HIDE DEF S
  <2>1. Len(list) \in Nat
    OBVIOUS
  <2>2. \A k \in 0 .. Len(list) : k \in S /\ k # Len(list) => k + 1 \in S
    BY <1>2
  <2>3. \A k \in 0 .. Len(list) : k \in S
    BY <1>1, <2>1, <2>2, UpTo
  <2> QED BY <2>1, <2>3
<1>4. kept = [k \in 0 .. Len(list) |-> Body(kept, k)]
  BY <1>3
<1>5. Filter(list, keep) = kept[Len(list)]
  BY DEF Filter
<1>6. Len(list) \in Nat
  OBVIOUS
<1>7. kept[0] = Body(kept, 0) /\ \A n \in 1 .. Len(list) : kept[n] = Body(kept, n)
  <2> HIDE DEF Body, kept
  <2> QED BY <1>4, <1>6
<1> HIDE DEF kept
<1> QED BY <1>5, <1>7

\* out holds the members of the first n of a list that are in keep, each once
\* and in order; at says from where.
Picks(list, keep, n, out, at) ==
    /\ at \in [DOMAIN out -> 1 .. n]
    /\ \A i \in DOMAIN out : out[i] = list[at[i]] /\ out[i] \in keep
    /\ \A i, k \in DOMAIN out : i < k => at[i] < at[k]
    /\ \A m \in 1 .. n : list[m] \in keep => \E i \in DOMAIN out : at[i] = m

\* What listJobs and deleteJob keep of the map: exactly the members they filter
\* for, in the order of the list, whatever its length.
THEOREM FilterPicks ==
    ASSUME NEW R, NEW list \in Seq(R), NEW keep
    PROVE  /\ Filter(list, keep) \in Seq(R)
           /\ \E at : Picks(list, keep, Len(list), Filter(list, keep), at)
<1>1. PICK kept : /\ Filter(list, keep) = kept[Len(list)]
                  /\ kept[0] = <<>>
                  /\ \A n \in 1 .. Len(list) :
                        kept[n] = IF list[n] \in keep THEN Append(kept[n - 1], list[n])
                                  ELSE kept[n - 1]
  BY FilterIs
<1> DEFINE S == {n \in Nat : kept[n] \in Seq(R) /\ \E at : Picks(list, keep, n, kept[n], at)}
<1>2. 0 \in S
  <2>1. Picks(list, keep, 0, <<>>, [i \in {} |-> 1])
    BY DEF Picks
  <2>2. kept[0] = <<>> /\ kept[0] \in Seq(R) /\ 0 \in Nat
    BY <1>1
  <2>3. \E at : Picks(list, keep, 0, kept[0], at)
    BY <2>1, <2>2
  <2> QED BY <2>2, <2>3
<1>3. ASSUME NEW n \in 0 .. Len(list), n \in S, n # Len(list) PROVE n + 1 \in S
  <2>1. n + 1 \in 1 .. Len(list) /\ list[n + 1] \in R /\ (n + 1) - 1 = n
    BY <1>3
  <2>2. kept[n + 1] = IF list[n + 1] \in keep THEN Append(kept[n], list[n + 1]) ELSE kept[n]
    BY <1>1, <2>1
  <2>3. PICK at : Picks(list, keep, n, kept[n], at)
    BY <1>3
  <2>4. kept[n] \in Seq(R)
    BY <1>3
  <2> DEFINE old == kept[n]
             new == Append(old, list[n + 1])
             atn == [i \in DOMAIN new |-> IF i = Len(new) THEN n + 1 ELSE at[i]]
  <2> HIDE DEF S
  <2>5. CASE list[n + 1] \in keep
    <3>1. kept[n + 1] = new
      BY <2>2, <2>5
    <3>2. /\ old \in Seq(R) /\ new \in Seq(R) /\ Len(new) = Len(old) + 1
          /\ DOMAIN old = 1 .. Len(old) /\ DOMAIN new = 1 .. Len(new)
          /\ new[Len(new)] = list[n + 1] /\ \A i \in DOMAIN old : new[i] = old[i]
      BY <2>1, <2>4
    <3>3. atn \in [DOMAIN new -> 1 .. n + 1] /\ atn[Len(new)] = n + 1
          /\ \A i \in DOMAIN old : atn[i] = at[i]
      <4> HIDE DEF new, old
      <4> QED BY <2>3, <2>1, <3>2 DEF Picks, old
    <3> HIDE DEF atn, new
    <3>4. Picks(list, keep, n + 1, new, atn)
      <4>1. \A i \in DOMAIN new : new[i] = list[atn[i]] /\ new[i] \in keep
        <5> SUFFICES ASSUME NEW i \in DOMAIN new
                     PROVE  new[i] = list[atn[i]] /\ new[i] \in keep
          OBVIOUS
        <5>1. CASE i = Len(new)
          BY <5>1, <2>5, <3>2, <3>3
        <5>2. CASE i # Len(new)
          <6>1. i \in DOMAIN old
            BY <5>2, <3>2
          <6> QED BY <6>1, <2>3, <3>2, <3>3 DEF Picks, old
        <5> QED BY <5>1, <5>2
      <4>2. \A i, k \in DOMAIN new : i < k => atn[i] < atn[k]
        <5> SUFFICES ASSUME NEW i \in DOMAIN new, NEW k \in DOMAIN new, i < k
                     PROVE  atn[i] < atn[k]
          OBVIOUS
        <5>1. i \in DOMAIN old /\ atn[i] = at[i] /\ at[i] \in 1 .. n
          BY <2>3, <3>2, <3>3 DEF Picks
        <5>2. CASE k = Len(new)
          BY <5>1, <5>2, <3>3
        <5>3. CASE k # Len(new)
          <6>0. k \in DOMAIN old
            BY <5>3, <3>2
          <6>1. k \in DOMAIN old /\ atn[k] = at[k]
            BY <6>0, <3>3
          <6> QED BY <5>1, <6>1, <2>3 DEF Picks, old
        <5> QED BY <5>2, <5>3
      <4>3. ASSUME NEW m \in 1 .. n + 1, list[m] \in keep PROVE \E i \in DOMAIN new : atn[i] = m
        <5>1. CASE m = n + 1
          <6>1. Len(new) \in DOMAIN new
            BY <3>2
          <6>2. atn[Len(new)] = m
            BY <5>1, <3>3
          <6> QED BY <6>1, <6>2
        <5>2. CASE m # n + 1
          <6>1. PICK i \in DOMAIN old : at[i] = m
            BY <5>2, <4>3, <2>3 DEF Picks
          <6>2. i \in DOMAIN new /\ atn[i] = m
            BY <6>1, <3>2, <3>3
          <6> QED BY <6>2
        <5> QED BY <5>1, <5>2
      <4> QED BY <3>3, <4>1, <4>2, <4>3 DEF Picks
    <3> QED BY <1>3, <3>1, <3>2, <3>4 DEF S
  <2>6. CASE list[n + 1] \notin keep
    <3>1. kept[n + 1] = kept[n]
      BY <2>2, <2>6
    <3>2. Picks(list, keep, n + 1, kept[n], at)
      BY <2>3, <2>6, <1>3 DEF Picks
    <3> QED BY <1>3, <2>4, <3>1, <3>2 DEF S
  <2> QED BY <2>5, <2>6
<1>4. Len(list) \in S
  <2>1. Len(list) \in Nat
    OBVIOUS
  <2> HIDE DEF S
  <2>2. \A k \in 0 .. Len(list) : k \in S /\ k # Len(list) => k + 1 \in S
    BY <1>3
  <2>3. \A k \in 0 .. Len(list) : k \in S
    BY <1>2, <2>1, <2>2, UpTo
  <2> QED BY <2>1, <2>3
<1> QED BY <1>1, <1>4

-----------------------------------------------------------------------------
(* Lists.                                                                  *)

\* What a filter leaves of a list of jobs: jobs of that list, each once.
LEMMA FilterList ==
    ASSUME NEW list \in Seq(Refs), OnceIn(list), NEW keep
    PROVE  /\ Filter(list, keep) \in Seq(Refs) /\ OnceIn(Filter(list, keep))
           /\ \A i \in DOMAIN Filter(list, keep) :
                 /\ Filter(list, keep)[i] \in keep
                 /\ \E m \in DOMAIN list : Filter(list, keep)[i] = list[m]
           /\ IdsOf(Filter(list, keep)) \subseteq IdsOf(list)
<1> DEFINE out == Filter(list, keep)
<1>1. out \in Seq(Refs)
  BY FilterPicks
<1>2. PICK at : Picks(list, keep, Len(list), out, at)
  BY FilterPicks
<1> HIDE DEF out
<1>3. \A i \in DOMAIN out : at[i] \in DOMAIN list /\ out[i] \in keep /\ out[i] = list[at[i]]
  BY <1>2 DEF Picks
<1>4. OnceIn(out)
  <2> SUFFICES ASSUME NEW i \in DOMAIN out, NEW k \in DOMAIN out, out[i].id = out[k].id
               PROVE  i = k
    BY DEF OnceIn
  <2>1. at[i] = at[k]
    BY <1>3 DEF OnceIn
  <2>2. i \in Nat /\ k \in Nat /\ at[i] \in Nat /\ at[k] \in Nat
    BY <1>1, <1>3
  <2>3. ~(i < k) /\ ~(k < i)
    BY <1>2, <2>1, <2>2 DEF Picks
  <2> QED BY <2>2, <2>3
<1>5. IdsOf(out) \subseteq IdsOf(list)
  BY <1>3 DEF IdsOf
<1> QED BY <1>1, <1>3, <1>4, <1>5 DEF out

\* A list that goes on where another one was: every entry is one of that list, at
\* an offset.
Suffix(rest, list, n) ==
    \A i \in DOMAIN rest : i + n \in DOMAIN list /\ rest[i] = list[i + n]

\* Then it has each job once as well.
LEMMA SuffixList ==
    ASSUME NEW list \in Seq(Refs), OnceIn(list), NEW rest \in Seq(Refs), NEW n \in Nat,
           Suffix(rest, list, n)
    PROVE  OnceIn(rest) /\ IdsOf(rest) \subseteq IdsOf(list)
<1>1. OnceIn(rest)
  <2> SUFFICES ASSUME NEW i \in DOMAIN rest, NEW k \in DOMAIN rest, rest[i].id = rest[k].id
               PROVE  i = k
    BY DEF OnceIn
  <2>1. i + n = k + n
    BY DEF OnceIn, Suffix
  <2>2. i \in Nat /\ k \in Nat
    OBVIOUS
  <2> QED BY <2>1, <2>2
<1>2. IdsOf(rest) \subseteq IdsOf(list)
  BY DEF IdsOf, Suffix
<1> QED BY <1>1, <1>2

\* The tail of a list.
LEMMA TailList ==
    ASSUME NEW list \in Seq(Refs), list # <<>>
    PROVE  /\ Tail(list) \in Seq(Refs) /\ Suffix(Tail(list), list, 1)
           /\ Head(list) = list[1] /\ 1 \in DOMAIN list /\ list[1] \in Refs
BY DEF Suffix

\* A loop goes on with the first job that it runs, which in a tick is due.
LEMMA AheadList ==
    ASSUME NEW kind, NEW list \in Seq(Refs), NEW objects
    PROVE  /\ Ahead(kind, list, objects) \in Seq(Refs)
           /\ \E n \in Nat : Suffix(Ahead(kind, list, objects), list, n)
           /\ kind = "tick" /\ Ahead(kind, list, objects) # <<>>
                 => objects[Ahead(kind, list, objects)[1].id]
                           [Ahead(kind, list, objects)[1].v].next = "due"
<1> DEFINE due == {i \in DOMAIN list : objects[list[i].id][list[i].v].next = "due"}
<1>1. CASE kind # "tick"
  <2>1. Ahead(kind, list, objects) = list /\ Suffix(list, list, 0)
    BY <1>1 DEF Ahead, Suffix
  <2> QED BY <1>1, <2>1
<1>2. CASE kind = "tick" /\ due = {}
  <2>1. Ahead(kind, list, objects) = <<>>
    BY <1>2 DEF Ahead
  <2>2. Suffix(<<>>, list, 0)
    BY DEF Suffix
  <2> QED BY <2>1, <2>2
<1>3. CASE kind = "tick" /\ due # {}
  <2>1. due \subseteq DOMAIN list /\ due \in SUBSET Nat
    OBVIOUS
  <2>2. Min(due) \in due
    <3> HIDE DEF due
    <3> QED BY <1>3, <2>1, MinIs
  <2> DEFINE n == Min(due)
             rest == SubSeq(list, n, Len(list))
  <2>3. Ahead(kind, list, objects) = rest
    BY <1>3 DEF Ahead
  <2>4. n \in DOMAIN list /\ objects[list[n].id][list[n].v].next = "due"
    BY <2>2
  <2> HIDE DEF n, due
  <2>5. /\ n \in 1 .. Len(list) /\ rest \in Seq(Refs)
        /\ \A i \in DOMAIN rest : i + (n - 1) \in DOMAIN list /\ rest[i] = list[i + (n - 1)]
    BY <2>4
  <2>6. rest[1] = list[n]
    BY <2>5
  <2>7. Suffix(rest, list, n - 1) /\ n - 1 \in Nat
    BY <2>5 DEF Suffix
  <2> HIDE DEF rest
  <2> QED BY <2>3, <2>4, <2>5, <2>6, <2>7
<1> QED BY <1>1, <1>2, <1>3

-----------------------------------------------------------------------------
(* The store.                                                              *)

\* The versions of a job that the loops hold.
Held(frames, j) == UNION {HeldBy(frames[f], j) : f \in Fibers}

\* There is one version more than there are loops, and a loop holds one of a
\* job at most: so there is always a version for the map that no loop holds.
LEMMA FreeVersion ==
    ASSUME NEW frames \in [Fibers -> Frames], \A f \in Fibers : OnceIn(frames[f].list),
           NEW j
    PROVE  Min(Versions \ Held(frames, j)) \in Versions \ Held(frames, j)
<1>1. MaxLoops \in Nat \ {0}
  BY SchedulerAssumption
<1>2. ASSUME Versions \subseteq Held(frames, j) PROVE FALSE
  <2> DEFINE h == [v \in Versions |-> CHOOSE f \in Fibers : v \in HeldBy(frames[f], j)]
  <2>1. \A v \in Versions : h[v] \in Fibers /\ v \in HeldBy(frames[h[v]], j)
    BY <1>2 DEF Held
  <2>2. h \in [Versions -> Fibers]
    BY <2>1
  <2>3. IsFiniteSet(Versions) /\ Cardinality(Versions) = MaxLoops + 1
    BY <1>1, FS_Interval DEF Versions
  <2>4. IsFiniteSet(Fibers) /\ Cardinality(Fibers) = MaxLoops
    BY <1>1, FS_Interval DEF Fibers
  <2> HIDE DEF h
  <2>5. Cardinality(Fibers) < Cardinality(Versions)
    BY <1>1, <2>3, <2>4
  <2>6. PICK x \in Versions, y \in Versions : x # y /\ h[x] = h[y]
    BY <2>2, <2>3, <2>4, <2>5, FS_PigeonHole
  <2> DEFINE list == frames[h[x]].list
  <2>7. PICK i \in DOMAIN list, k \in DOMAIN list : list[i] = Ref(j, x) /\ list[k] = Ref(j, y)
    BY <2>1, <2>6 DEF HeldBy
  <2>8. i = k
    BY <2>1, <2>7 DEF OnceIn, Ref
  <2> QED BY <2>6, <2>7, <2>8 DEF Ref
<1>3. Versions \ Held(frames, j) \in SUBSET Nat /\ Versions \ Held(frames, j) # {}
  BY <1>1, <1>2 DEF Versions
<1> QED BY <1>3, MinIs

\* What a file row of the map is.
LEMMA ImageIs ==
    ASSUME NEW map \in Seq(Refs), NEW objects \in [Jobs -> [Versions -> Objects]],
           NEW plan \in [Jobs -> Schedules], OnceIn(map)
    PROVE  /\ Image(map, objects, plan) \in Seq(Rows)
           /\ OnceIn(Image(map, objects, plan))
           /\ IdsOf(Image(map, objects, plan)) = IdsOf(map)
           /\ DOMAIN Image(map, objects, plan) = DOMAIN map
           /\ \A i \in DOMAIN map :
                 /\ Image(map, objects, plan)[i].id = map[i].id
                 /\ Image(map, objects, plan)[i].object = objects[map[i].id][map[i].v]
                 /\ Image(map, objects, plan)[i].schedule = plan[map[i].id]
<1> DEFINE im == Image(map, objects, plan)
<1>1. im = [i \in 1 .. Len(map) |-> [id       |-> map[i].id,
                                     object   |-> objects[map[i].id][map[i].v],
                                     schedule |-> plan[map[i].id]]]
  BY DEF Image
<1> HIDE DEF im
<1>2. \A i \in 1 .. Len(map) : map[i] \in Refs
  OBVIOUS
<1>3. \A i \in 1 .. Len(map) : map[i].id \in Jobs /\ map[i].v \in Versions
  BY <1>2 DEF Refs
<1>4. \A i \in 1 .. Len(map) :
         [id |-> map[i].id, object |-> objects[map[i].id][map[i].v],
          schedule |-> plan[map[i].id]] \in Rows
  BY <1>3 DEF Rows
<1>5. im \in Seq(Rows) /\ DOMAIN im = DOMAIN map
  BY <1>1, <1>4
<1>6. \A i \in DOMAIN map : /\ im[i].id = map[i].id
                            /\ im[i].object = objects[map[i].id][map[i].v]
                            /\ im[i].schedule = plan[map[i].id]
  BY <1>1
<1>7. OnceIn(im) /\ IdsOf(im) = IdsOf(map)
  BY <1>5, <1>6 DEF OnceIn, IdsOf
<1> QED BY <1>5, <1>6, <1>7 DEF im

\* A write of the map succeeds, or fails and excuses the job.
LEMMA persistIs ==
    ASSUME NEW j \in Jobs, NEW c \in Counts, NEW s \in Memories, persistJobsToDisk(j, c, s)
    PROVE  /\ count' \in Counts /\ seen' \in Memories
           /\ \/ disk' = Image(jobs', version', schedule') /\ count' = c /\ seen' = s
              \/ disk' = disk /\ count'.faults # 0 /\ j \in seen'.excused
           /\ seen'.excused \in {s.excused, s.excused \cup {j}}
           /\ seen'.spare = s.spare /\ seen'.surplus = s.surplus
           /\ seen'.deleted = s.deleted /\ seen'.listed = s.listed
<1>1. CASE disk' = Image(jobs', version', schedule') /\ count' = c /\ seen' = s
  BY <1>1
<1>2. CASE /\ disk' = disk
           /\ count' = [c EXCEPT !.faults = @ + 1]
           /\ seen' = [s EXCEPT !.excused = @ \cup {j}]
  <2>1. count' \in Counts /\ count'.faults = c.faults + 1 /\ c.faults \in Nat
    BY <1>2 DEF Counts
  <2>2. seen' \in Memories /\ seen'.excused = s.excused \cup {j}
        /\ seen'.spare = s.spare /\ seen'.surplus = s.surplus
        /\ seen'.deleted = s.deleted /\ seen'.listed = s.listed
    BY <1>2 DEF Memories
  <2> QED BY <1>2, <2>1, <2>2
<1> QED BY <1>1, <1>2 DEF persistJobsToDisk

\* A save: the object is the version of the job in the map, one that no loop holds;
\* the others, and what the loops hold, stay what they were.
LEMMA saveJobIs ==
    ASSUME NEW j \in Jobs, NEW object \in Objects,
           NEW objects \in [Jobs -> [Versions -> Objects]], NEW c, NEW s,
           jobs \in Seq(Refs), OnceIn(jobs),
           fiber' \in [Fibers -> Frames], \A f \in Fibers : OnceIn(fiber'[f].list),
           saveJob(j, object, objects, c, s)
    PROVE  /\ jobs' \in Seq(Refs) /\ OnceIn(jobs') /\ IdsOf(jobs') = IdsOf(jobs) \cup {j}
           /\ version' \in [Jobs -> [Versions -> Objects]]
           /\ \A i \in DOMAIN jobs' :
                 \/ jobs'[i].id = j /\ version'[j][jobs'[i].v] = object
                 \/ jobs'[i].id # j /\ i \in DOMAIN jobs /\ jobs'[i] = jobs[i]
           /\ \A k \in Jobs \ {j} : version'[k] = objects[k]
           /\ \A f \in Fibers : \A i \in DOMAIN fiber'[f].list :
                 LET ref == fiber'[f].list[i]
                 IN  version'[ref.id][ref.v] = objects[ref.id][ref.v]
           /\ persistJobsToDisk(j, c, s)
<1> DEFINE held == Held(fiber', j)
           new  == Min(Versions \ held)
<1>1. new \in Versions \ held
  BY FreeVersion
<1>2. /\ jobs' = IF InMap(j) THEN [jobs EXCEPT ![Min(Position(j))].v = new]
                 ELSE Append(jobs, Ref(j, new))
      /\ version' = [objects EXCEPT ![j] = [v \in Versions |->
             IF v = new THEN object ELSE IF v \in held THEN objects[j][v] ELSE Blank]]
      /\ persistJobsToDisk(j, c, s)
  BY DEF saveJob, Held
<1> HIDE DEF new
<1>3. /\ jobs' \in Seq(Refs) /\ OnceIn(jobs') /\ IdsOf(jobs') = IdsOf(jobs) \cup {j}
      /\ \A i \in DOMAIN jobs' :
            \/ jobs'[i] = Ref(j, new)
            \/ jobs'[i].id # j /\ i \in DOMAIN jobs /\ jobs'[i] = jobs[i]
  <2>1. Ref(j, new) \in Refs /\ Ref(j, new).id = j
    BY <1>1 DEF Ref, Refs
  <2>2. CASE InMap(j)
    <3>1. PICK n \in DOMAIN jobs : jobs[n].id = j
      BY <2>2 DEF InMap, Position
    <3>2. Position(j) = {n}
      BY <3>1 DEF Position, OnceIn
    <3>3. Min(Position(j)) = n
      <4>1. n \in Nat /\ {n} \in SUBSET Nat /\ {n} # {}
        BY <3>1
      <4> QED BY <3>2, <4>1, MinIs
    <3>4. jobs' = [jobs EXCEPT ![n] = [jobs[n] EXCEPT !.v = new]]
      BY <1>2, <2>2, <3>3
    <3>5. [jobs[n] EXCEPT !.v = new] = Ref(j, new)
      <4> DEFINE r == jobs[n]
      <4>1. r \in [id: Jobs, v: Versions] /\ r.id = j
        <5>1. jobs[n] \in Refs
          BY <3>1
        <5> QED BY <3>1, <5>1 DEF Refs
      <4> HIDE DEF r
      <4>2. [r EXCEPT !.v = new] = [id |-> j, v |-> new]
        BY <4>1
      <4> QED BY <4>2 DEF r, Ref
    <3>6. jobs' = [jobs EXCEPT ![n] = Ref(j, new)]
      BY <3>4, <3>5
    <3>7. /\ jobs' \in Seq(Refs) /\ DOMAIN jobs' = DOMAIN jobs /\ jobs'[n] = Ref(j, new)
          /\ \A i \in DOMAIN jobs : i # n => jobs'[i] = jobs[i]
      BY <2>1, <3>1, <3>6
    <3>8. \A i \in DOMAIN jobs : jobs'[i].id = jobs[i].id /\ (i # n => jobs[i].id # j)
      BY <2>1, <3>1, <3>7 DEF OnceIn
    <3> QED BY <2>1, <3>1, <3>7, <3>8 DEF OnceIn, IdsOf
  <2>3. CASE ~InMap(j)
    <3>1. \A i \in DOMAIN jobs : jobs[i].id # j
      BY <2>3 DEF InMap, Position
    <3>2. jobs' = Append(jobs, Ref(j, new))
      BY <1>2, <2>3
    <3>3. /\ jobs' \in Seq(Refs) /\ Len(jobs) \in Nat
          /\ DOMAIN jobs = 1 .. Len(jobs)
          /\ DOMAIN jobs' = 1 .. Len(jobs) + 1 /\ jobs'[Len(jobs) + 1] = Ref(j, new)
          /\ \A i \in DOMAIN jobs : jobs'[i] = jobs[i]
      BY <2>1, <3>2
    <3>4. \A i \in DOMAIN jobs' : i = Len(jobs) + 1 \/ i \in DOMAIN jobs
      BY <3>3
    <3>5. Len(jobs) + 1 \in DOMAIN jobs' /\ DOMAIN jobs \subseteq DOMAIN jobs'
      BY <3>3
    <3>6. OnceIn(jobs')
      BY <2>1, <3>1, <3>3, <3>4 DEF OnceIn
    <3>7. IdsOf(jobs') = IdsOf(jobs) \cup {j}
      BY <2>1, <3>3, <3>4, <3>5 DEF IdsOf
    <3> QED BY <3>1, <3>3, <3>4, <3>6, <3>7
  <2> QED BY <2>2, <2>3
<1>4. Blank \in Objects
  BY DEF Blank, Objects
<1>5. \A v \in Versions : version'[j][v] =
         IF v = new THEN object ELSE IF v \in held THEN objects[j][v] ELSE Blank
  BY <1>2
<1>6. \A k \in Jobs \ {j} : version'[k] = objects[k]
  BY <1>2
<1>7. version' \in [Jobs -> [Versions -> Objects]]
  <2> DEFINE row == [v \in Versions |->
             IF v = new THEN object ELSE IF v \in held THEN objects[j][v] ELSE Blank]
  <2>1. row \in [Versions -> Objects]
    BY <1>4
  <2>2. version' = [objects EXCEPT ![j] = row]
    BY <1>2
  <2> HIDE DEF row
  <2> QED BY <2>1, <2>2
<1>8. ASSUME NEW f \in Fibers, NEW i \in DOMAIN fiber'[f].list
      PROVE  LET ref == fiber'[f].list[i]
             IN  version'[ref.id][ref.v] = objects[ref.id][ref.v]
  <2> DEFINE ref == fiber'[f].list[i]
  <2>1. fiber'[f].list \in Seq(Refs)
    BY DEF Frames
  <2>2. ref \in Refs
    BY <2>1
  <2>3. CASE ref.id # j
    BY <1>6, <2>2, <2>3 DEF Refs
  <2>4. CASE ref.id = j
    <3>1. ref = Ref(j, ref.v) /\ ref.v \in Versions
      BY <2>2, <2>4 DEF Ref, Refs
    <3>2. ref.v \in HeldBy(fiber'[f], j)
      BY <3>1 DEF HeldBy
    <3>3. ref.v \in held
      BY <3>2 DEF Held
    <3>4. ref.v # new
      BY <1>1, <3>3
    <3>5. version'[j][ref.v] = objects[j][ref.v]
      <4> HIDE DEF held, ref
      <4> QED BY <1>5, <3>1, <3>3, <3>4
    <3> QED BY <2>4, <3>5
  <2> QED BY <2>3, <2>4
<1>9. Ref(j, new).id = j /\ Ref(j, new).v = new /\ version'[j][new] = object
  BY <1>1, <1>5 DEF Ref
<1>10. \A i \in DOMAIN jobs' :
         \/ jobs'[i].id = j /\ version'[j][jobs'[i].v] = object
         \/ jobs'[i].id # j /\ i \in DOMAIN jobs /\ jobs'[i] = jobs[i]
  BY <1>3, <1>9
<1> QED BY <1>2, <1>3, <1>6, <1>7, <1>8, <1>10

-----------------------------------------------------------------------------
(* The loops.                                                              *)

\* What a loop remembers when it goes on: nothing if it is over; else the first of
\* its jobs is run, and what another loop has in hand as well is excused.
LEMMA BeginsIs ==
    ASSUME NEW f \in Fibers, NEW s \in Memories, fiber' \in [Fibers -> Frames]
    PROVE  /\ Begins(f, s) \in Memories
           /\ Begins(f, s).deleted = s.deleted /\ Begins(f, s).listed = s.listed
           /\ s.excused \subseteq Begins(f, s).excused
           /\ fiber'[f].list = <<>> => Begins(f, s) = s
           /\ fiber'[f].list # <<>> =>
                 /\ fiber'[f].list[1].id \in Jobs
                 /\ \A k \in Jobs \ {fiber'[f].list[1].id} : Begins(f, s).spare[k] = s.spare[k]
                 /\ Begins(f, s).surplus = IF s.spare[fiber'[f].list[1].id] = 0
                                           THEN s.surplus \cup {fiber'[f].list[1].id}
                                           ELSE s.surplus
                 /\ \A g \in Fibers \ {f} :
                       Listed(f)' \cap Listed(g)' \subseteq Begins(f, s).excused
<1> DEFINE list == fiber'[f].list
           j == list[1].id
           others == UNION {IdsOf(fiber'[g].list) : g \in Fibers \ {f}}
           b == Begins(f, s)
<1>1. CASE list = <<>>
  BY <1>1 DEF Begins
<1>2. CASE list # <<>>
  <2>1. list \in Seq(Refs)
    BY DEF Frames
  <2>2. list[1] \in Refs /\ Head(list) = list[1]
    BY <1>2, <2>1
  <2>3. j \in Jobs
    BY <2>2 DEF Refs
  <2>4. IdsOf(list) \subseteq Jobs
    <3>1. \A i \in DOMAIN list : list[i] \in Refs
      BY <2>1
    <3> HIDE DEF list
    <3> QED BY <3>1 DEF IdsOf, Refs
  <2>5. b = [s EXCEPT !.spare[j] = IF @ = 0 THEN 0 ELSE @ - 1,
                      !.surplus  = IF s.spare[j] = 0 THEN @ \cup {j} ELSE @,
                      !.excused  = @ \cup (IdsOf(list) \cap others)]
    BY <1>2, <2>2 DEF Begins
  <2> DEFINE both == IdsOf(list) \cap others
             sp == [s.spare EXCEPT ![j] = IF @ = 0 THEN 0 ELSE @ - 1]
  <2>6. \A g \in Fibers \ {f} : Listed(f)' \cap Listed(g)' \subseteq both
    BY DEF Listed
  <2>7. both \subseteq Jobs
    BY <2>4
  <2>8. sp \in [Jobs -> Nat] /\ \A k \in Jobs \ {j} : sp[k] = s.spare[k]
    <3>1. s.spare \in [Jobs -> Nat]
      BY DEF Memories
    <3> HIDE DEF j
    <3>2. s.spare[j] \in Nat
      BY <2>3, <3>1
    <3>3. (IF s.spare[j] = 0 THEN 0 ELSE s.spare[j] - 1) \in Nat
      BY <3>2
    <3>4. sp = [s.spare EXCEPT ![j] = IF s.spare[j] = 0 THEN 0 ELSE s.spare[j] - 1]
      OBVIOUS
    <3> QED BY <3>1, <3>3, <3>4
  <2>9. /\ b.spare = sp /\ b.excused = s.excused \cup both
        /\ b.surplus = (IF s.spare[j] = 0 THEN s.surplus \cup {j} ELSE s.surplus)
        /\ b.deleted = s.deleted /\ b.listed = s.listed /\ b.early = s.early
        /\ b.broken = s.broken /\ DOMAIN b = DOMAIN s
    <3>1. b = [s EXCEPT !.spare = sp,
                        !.surplus = IF s.spare[j] = 0 THEN s.surplus \cup {j} ELSE s.surplus,
                        !.excused = s.excused \cup both]
      BY <2>5
    <3> HIDE DEF b, both, j, sp
    <3> QED BY <3>1 DEF Memories
  <2>10. b \in Memories
    <3> HIDE DEF sp, both, j
    <3>1. s.surplus \cup {j} \in SUBSET Jobs /\ s.excused \cup both \in SUBSET Jobs
      BY <2>3, <2>7 DEF Memories
    <3>2. b = [s EXCEPT !.spare = sp,
                        !.surplus = IF s.spare[j] = 0 THEN s.surplus \cup {j} ELSE s.surplus,
                        !.excused = s.excused \cup both]
      BY <2>5 DEF sp, both
    <3> HIDE DEF b
    <3> QED BY <2>8, <3>1, <3>2 DEF Memories
  <2> HIDE DEF both, sp, b
  <2> QED BY <1>2, <2>3, <2>6, <2>8, <2>9, <2>10 DEF b
<1> QED BY <1>1, <1>2

\* A new loop takes a place that is free and leaves the others alone.
LEMMA NewLoop ==
    ASSUME NEW f \in Fibers, NEW kind \in Kinds, NEW list \in Seq(Refs),
           fiber \in [Fibers -> Frames], StartLoop(f, kind, list)
    PROVE  /\ fiber' \in [Fibers -> Frames] /\ fiber[f].list = <<>> /\ fiber'[f].list = list
           /\ list # <<>> => fiber'[f].kind = kind
           /\ \A g \in Fibers \ {f} : fiber'[g] = fiber[g]
<1> DEFINE fr == IF list = <<>> THEN Idle ELSE [kind |-> kind, list |-> list]
<1>1. fr \in Frames /\ fr.list = list /\ (list # <<>> => fr.kind = kind)
  BY DEF Idle, Frames, Kinds
<1>2. fiber' = [fiber EXCEPT ![f] = fr] /\ fiber[f].list = <<>>
  BY DEF StartLoop, IsNext, IsIdle
<1> HIDE DEF fr
<1> QED BY <1>1, <1>2

\* A job that is run is in hand of the loop that runs it.
LEMMA RunningIs ==
    ASSUME fiber \in [Fibers -> Frames], NEW j, Running(j)
    PROVE  \E f \in Fibers : fiber[f].list # <<>> /\ fiber[f].list[1].id = j /\ j \in Listed(f)
<1>1. PICK f \in Fibers : fiber[f].list # <<>> /\ Head(fiber[f].list).id = j
  BY DEF Running, IsIdle
<1>2. fiber[f].list \in Seq(Refs)
  BY DEF Frames
<1>3. 1 \in DOMAIN fiber[f].list /\ Head(fiber[f].list) = fiber[f].list[1]
  BY <1>1, <1>2
<1> QED BY <1>1, <1>3 DEF Listed, IdsOf


\* A loop that begins with jobs of the map keeps the invariant, if each job that it
\* will run is due in the map, or the first one has been granted a run.
LEMMA LoopStarts ==
    ASSUME SchedInv, up, UNCHANGED <<up, jobs, version, schedule, disk, created>>,
           NEW f \in Fibers, NEW kind \in Kinds, NEW list \in Seq(Refs), OnceIn(list),
           IdsOf(list) \subseteq IdsOf(jobs), StartLoop(f, kind, list),
           NEW s \in Memories, seen' = Begins(f, s),
           s.excused = seen.excused, s.surplus = seen.surplus,
           s.deleted = seen.deleted, s.listed = seen.listed,
           \A k \in Jobs : s.spare[k] >= seen.spare[k],
           engine' \in [running: BOOLEAN, timer: BOOLEAN, leaked: BOOLEAN],
           count' \in Counts, count'.faults = count.faults,
           \A i \in DOMAIN list :
              \/ DueInMap(list[i].id)
              \/ i = 1 /\ s.spare[list[1].id] > 0
              \/ i # 1 /\ kind = "tick" /\ version[list[i].id][list[i].v].next # "due"
    PROVE  SchedInv'
<1> DEFINE j == list[1].id
<1>1. /\ TypeOK /\ Distinct /\ Known /\ Gone /\ OneHand /\ Plain /\ Entitled /\ SurplusNeedsCause
      /\ fiber \in [Fibers -> Frames] /\ seen \in Memories
  BY DEF SchedInv, TypeOK
<1>2. /\ fiber' \in [Fibers -> Frames] /\ fiber[f].list = <<>> /\ fiber'[f].list = list
      /\ list # <<>> => fiber'[f].kind = kind
      /\ \A g \in Fibers \ {f} : fiber'[g] = fiber[g]
  BY <1>1, NewLoop
<1>3. /\ seen' \in Memories
      /\ seen'.deleted = seen.deleted /\ seen'.listed = seen.listed
      /\ seen.excused \subseteq seen'.excused
      /\ list = <<>> => seen' = s
      /\ list # <<>> =>
            /\ j \in Jobs
            /\ \A k \in Jobs \ {j} : seen'.spare[k] = s.spare[k]
            /\ seen'.surplus = IF s.spare[j] = 0 THEN seen.surplus \cup {j} ELSE seen.surplus
            /\ \A g \in Fibers \ {f} : Listed(f)' \cap Listed(g)' \subseteq seen'.excused
  BY <1>2, BeginsIs
<1>4. /\ Listed(f)' = IdsOf(list) /\ Listed(f) = {}
      /\ \A g \in Fibers \ {f} : Listed(g)' = Listed(g)
  BY <1>2 DEF Listed, IdsOf
<1>5. list # <<>> => 1 \in DOMAIN list /\ j \in IdsOf(list)
  BY DEF IdsOf
<1>6. \A k \in Jobs : seen.spare[k] \in Nat /\ s.spare[k] \in Nat
  BY <1>1 DEF Memories
<1>7. TypeOK'
  BY <1>1, <1>2, <1>3 DEF TypeOK
<1>8. Distinct'
  BY <1>1, <1>2 DEF Distinct, OnceIn
<1>9. Anywhere' \subseteq Anywhere
  BY <1>4 DEF Anywhere, IdsOf
<1>10. Known' /\ Gone'
  BY <1>1, <1>3, <1>9 DEF Known, Gone
<1>11. OneHand'
  <2> SUFFICES ASSUME NEW g \in Fibers, NEW h \in Fibers, g # h
               PROVE  Listed(g)' \cap Listed(h)' \subseteq seen'.excused
    BY DEF OneHand
  <2>1. CASE list = <<>>
    BY <2>1, <1>1, <1>3, <1>4 DEF OneHand, IdsOf
  <2>2. CASE list # <<>>
    BY <2>2, <1>1, <1>3, <1>4 DEF OneHand
  <2> QED BY <2>1, <2>2
<1>12. Down' /\ Plain'
  BY <1>1, <1>3 DEF Down, Plain
<1>13. ASSUME NEW k \in Jobs, k \notin seen'.excused, Running(k)
       PROVE  k \notin IdsOf(list) /\ Running(k)'
  <2>1. PICK g \in Fibers : fiber[g].list # <<>> /\ fiber[g].list[1].id = k /\ k \in Listed(g)
    BY <1>1, <1>13, RunningIs
  <2>2. g # f
    BY <1>2, <2>1
  <2>3. k \notin IdsOf(list)
    <3>1. k \in Listed(g)'
      BY <1>4, <2>1, <2>2
    <3>2. list # <<>> => k \notin Listed(f)'
      BY <1>3, <1>13, <2>2, <3>1
    <3>3. list = <<>> => IdsOf(list) = {}
      BY DEF IdsOf
    <3> QED BY <1>4, <3>2, <3>3
  <2>4. Running(k)'
    BY <1>2, <1>13, <2>1, <2>2 DEF Running, IsIdle
  <2> QED BY <2>3, <2>4
<1>14. ASSUME NEW k \in Jobs, k \notin seen'.excused, Owed(k)'
       PROVE  seen'.spare[k] > 0
  <2>0. k \notin seen.excused
    BY <1>3, <1>14
  <2>1. CASE list # <<>> /\ k = j
    <3>1. Running(k)'
      <4>1. Head(fiber'[f].list).id = k /\ fiber'[f].list # <<>>
        BY <1>2, <2>1
      <4> QED BY <4>1 DEF Running, IsIdle
    <3>2. PICK g \in Fibers : Awaits(g, k)'
      BY <1>14, <3>1 DEF Owed
    <3>3. PICK i \in DOMAIN fiber'[g].list : i # 1 /\ fiber'[g].list[i].id = k
      BY <3>2 DEF Awaits
    <3>4. k \in Listed(g)' /\ k \in Listed(f)'
      BY <1>4, <1>5, <2>1, <3>3 DEF Listed, IdsOf
    <3>5. g = f
      BY <1>3, <1>14, <2>1, <3>4
    <3>6. i \in DOMAIN list /\ list[i].id = list[1].id
      BY <1>2, <2>1, <3>3, <3>5
    <3> QED BY <1>5, <2>1, <3>3, <3>6 DEF OnceIn
  <2>2. CASE list = <<>> \/ k # j
    <3>1. seen'.spare[k] = s.spare[k]
      BY <1>3, <2>2
    <3>2. Owed(k)
      <4>1. DueInMap(k)' = DueInMap(k) /\ DueOnDisk(k)' = DueOnDisk(k)
        BY DEF DueInMap, DueOnDisk
      <4>2. CASE (DueInMap(k) \/ DueOnDisk(k)) /\ ~Running(k)'
        BY <1>13, <1>14, <4>2 DEF Owed
      <4>3. ASSUME NEW g \in Fibers, Awaits(g, k)', g # f PROVE Owed(k)
        <5>1. Awaits(g, k)
          BY <1>2, <4>3 DEF Awaits
        <5> QED BY <5>1 DEF Owed
      <4>4. CASE Awaits(f, k)'
        <5>1. PICK i \in DOMAIN list :
                 /\ i # 1 /\ list[i].id = k
                 /\ fiber'[f].kind = "tick" => version[k][list[i].v].next = "due"
          BY <1>2, <4>4 DEF Awaits
        <5>2. k \in IdsOf(list) /\ list # <<>>
          BY <5>1 DEF IdsOf
        <5>3. DueInMap(k)
          BY <1>2, <5>1, <5>2
        <5>4. ~Running(k)
          BY <1>13, <1>14, <5>2
        <5> QED BY <5>3, <5>4 DEF Owed
      <4> QED BY <1>14, <4>1, <4>2, <4>3, <4>4 DEF Owed
    <3>3. seen.spare[k] > 0
      BY <1>1, <2>0, <3>2 DEF Entitled
    <3> QED BY <1>6, <3>1, <3>3
  <2> QED BY <2>1, <2>2
<1>15. Entitled'
  BY <1>14 DEF Entitled
<1>16. SurplusNeedsCause'
  <2>1. CASE list = <<>>
    BY <1>1, <1>3, <2>1 DEF SurplusNeedsCause
  <2>2. CASE list # <<>> /\ j \in seen'.excused
    BY <1>1, <1>3, <2>2 DEF SurplusNeedsCause
  <2>3. CASE list # <<>> /\ j \notin seen'.excused
    <3>1. j \in Jobs /\ j \notin seen.excused /\ j \in IdsOf(list)
      BY <1>3, <1>5, <2>3
    <3>2. ~Running(j)
      BY <1>13, <2>3, <3>1
    <3>3. DueInMap(j) => Owed(j)
      BY <3>2 DEF Owed
    <3>4. DueInMap(j) \/ s.spare[j] > 0
      BY <1>5, <2>3
    <3>5. s.spare[j] > 0
      BY <1>1, <1>6, <3>1, <3>3, <3>4 DEF Entitled
    <3>6. seen'.surplus = seen.surplus
      BY <1>3, <1>6, <2>3, <3>1, <3>5
    <3> QED BY <1>1, <1>3, <3>6 DEF SurplusNeedsCause
  <2> QED BY <2>1, <2>2, <2>3
<1> QED BY <1>7, <1>8, <1>10, <1>11, <1>12, <1>15, <1>16 DEF SchedInv

\* The timer that is set is of its type.
LEMMA SetTimerType ==
    ASSUME NEW e \in [running: BOOLEAN, timer: BOOLEAN, leaked: BOOLEAN]
    PROVE  SetTimer(e) \in [running: BOOLEAN, timer: BOOLEAN, leaked: BOOLEAN]
BY DEF SetTimer

\* A call is counted, and no failed write with it.
LEMMA CalledIs ==
    ASSUME count \in Counts
    PROVE  Called \in Counts /\ Called.faults = count.faults
BY DEF Called, Counts

\* The start of the engine.
LEMMA startKeepsSched ==
    ASSUME SchedInv, NEW f \in Fibers, start(f)
    PROVE  SchedInv'
<1> DEFINE list == Filter(jobs, Overdue)
           e    == [engine EXCEPT !.running = TRUE]
<1>1. TypeOK /\ Distinct
  BY DEF SchedInv
<1>2. /\ list \in Seq(Refs) /\ OnceIn(list) /\ IdsOf(list) \subseteq IdsOf(jobs)
      /\ \A i \in DOMAIN list : list[i] \in Overdue /\ \E m \in DOMAIN jobs : list[i] = jobs[m]
  BY <1>1, FilterList DEF TypeOK, Distinct
<1>3. /\ up /\ StartLoop(f, "catchup", list) /\ seen' = Begins(f, seen)
      /\ engine' = IF fiber'[f] = Idle THEN SetTimer(e) ELSE e
      /\ count' = Called /\ UNCHANGED <<up, jobs, version, schedule, disk, created>>
  BY DEF start, Call, MayCall
<1> HIDE DEF list
<1>4. e \in [running: BOOLEAN, timer: BOOLEAN, leaked: BOOLEAN]
  BY <1>1 DEF TypeOK
<1>5. engine' \in [running: BOOLEAN, timer: BOOLEAN, leaked: BOOLEAN]
  BY <1>3, <1>4, SetTimerType
<1>6. count' \in Counts /\ count'.faults = count.faults
  BY <1>1, <1>3, CalledIs DEF TypeOK
<1>7. \A i \in DOMAIN list : DueInMap(list[i].id)
  BY <1>2 DEF Overdue, Object, DueInMap
<1>8. seen \in Memories /\ \A k \in Jobs : seen.spare[k] >= seen.spare[k]
  BY <1>1 DEF TypeOK, Memories
<1> QED BY <1>2, <1>3, <1>5, <1>6, <1>7, <1>8, LoopStarts DEF Kinds

\* A tick of the timer.
LEMMA tickKeepsSched ==
    ASSUME SchedInv, NEW f \in Fibers, tick(f)
    PROVE  SchedInv'
<1> DEFINE all  == Filter(jobs, EnabledRefs)
           list == Ahead("tick", all, version)
<1>1. TypeOK /\ Distinct
  BY DEF SchedInv
<1>2. /\ all \in Seq(Refs) /\ OnceIn(all) /\ IdsOf(all) \subseteq IdsOf(jobs)
      /\ \A i \in DOMAIN all : \E m \in DOMAIN jobs : all[i] = jobs[m]
  BY <1>1, FilterList DEF TypeOK, Distinct
<1> HIDE DEF all
<1>3. PICK n \in Nat :
         /\ list \in Seq(Refs) /\ Suffix(list, all, n)
         /\ list # <<>> => version[list[1].id][list[1].v].next = "due"
  BY <1>2, AheadList
<1>4. /\ up /\ StartLoop(f, "tick", list) /\ seen' = Begins(f, seen)
      /\ UNCHANGED <<up, jobs, version, schedule, disk, engine, created, count>>
  BY DEF tick, all
<1> HIDE DEF list
<1>5. OnceIn(list) /\ IdsOf(list) \subseteq IdsOf(jobs)
  BY <1>2, <1>3, SuffixList
<1>6. ASSUME NEW i \in DOMAIN list, version[list[i].id][list[i].v].next = "due"
      PROVE  DueInMap(list[i].id)
  <2>1. PICK m \in DOMAIN jobs : list[i] = jobs[m]
    BY <1>2, <1>3 DEF Suffix
  <2> QED BY <1>6, <2>1 DEF DueInMap
<1>7. \A i \in DOMAIN list :
         \/ DueInMap(list[i].id)
         \/ i # 1 /\ version[list[i].id][list[i].v].next # "due"
  <2> SUFFICES ASSUME NEW i \in DOMAIN list, version[list[i].id][list[i].v].next # "due"
               PROVE  i # 1
    BY <1>6
  <2> QED BY <1>3
<1>8. seen \in Memories /\ \A k \in Jobs : seen.spare[k] >= seen.spare[k]
  BY <1>1 DEF TypeOK, Memories
<1>9. engine' \in [running: BOOLEAN, timer: BOOLEAN, leaked: BOOLEAN]
      /\ count' \in Counts /\ count'.faults = count.faults
  BY <1>1, <1>4 DEF TypeOK
<1> QED BY <1>3, <1>4, <1>5, <1>7, <1>8, <1>9, LoopStarts DEF Kinds

\* A job that is asked for is granted a run, and takes it at once.
LEMMA run_nowKeepsSched ==
    ASSUME SchedInv, NEW f \in Fibers, NEW j \in Jobs, run_now(f, j)
    PROVE  SchedInv'
<1> DEFINE list == <<getJob(j)>>
           s    == [seen EXCEPT !.spare[j] = @ + 1]
<1>1. TypeOK /\ Distinct
  BY DEF SchedInv
<1>2. PICK n \in DOMAIN jobs : getJob(j) = jobs[n] /\ jobs[n].id = j
  BY DEF run_now, InMap, getJob, Position
<1>3. /\ up /\ StartLoop(f, "run_now", list) /\ seen' = Begins(f, s)
      /\ count' = Called
      /\ UNCHANGED <<up, jobs, version, schedule, disk, engine, created>>
  BY DEF run_now, Call, MayCall
<1>4. getJob(j) \in Refs /\ getJob(j).id = j
  <2>1. jobs[n] \in Refs
    BY <1>1 DEF TypeOK
  <2> QED BY <1>2, <2>1
<1>5. /\ list \in Seq(Refs) /\ OnceIn(list) /\ IdsOf(list) \subseteq IdsOf(jobs)
      /\ DOMAIN list = {1} /\ list[1].id = j
  <2>1. list \in Seq(Refs) /\ DOMAIN list = {1} /\ list[1] = getJob(j)
    BY <1>4
  <2> HIDE DEF list
  <2> QED BY <1>2, <1>4, <2>1 DEF OnceIn, IdsOf
<1>6. /\ s \in Memories /\ s.excused = seen.excused /\ s.surplus = seen.surplus
      /\ s.deleted = seen.deleted /\ s.listed = seen.listed
      /\ s.spare[j] > 0 /\ \A k \in Jobs : s.spare[k] >= seen.spare[k]
  <2> DEFINE sp == [seen.spare EXCEPT ![j] = @ + 1]
  <2>1. seen \in Memories /\ seen.spare \in [Jobs -> Nat]
    BY <1>1 DEF TypeOK, Memories
  <2>2. sp \in [Jobs -> Nat] /\ sp[j] > 0 /\ \A k \in Jobs : sp[k] >= seen.spare[k]
    BY <2>1
  <2>3. s = [seen EXCEPT !.spare = sp]
    OBVIOUS
  <2> HIDE DEF s, sp
  <2> QED BY <2>1, <2>2, <2>3 DEF Memories
<1> HIDE DEF list, s
<1>7. \A i \in DOMAIN list : i = 1 /\ s.spare[list[1].id] > 0
  BY <1>5, <1>6
<1>8. engine' \in [running: BOOLEAN, timer: BOOLEAN, leaked: BOOLEAN]
      /\ count' \in Counts /\ count'.faults = count.faults
  BY <1>1, <1>3, CalledIs DEF TypeOK
<1> QED BY <1>3, <1>5, <1>6, <1>7, <1>8, LoopStarts DEF Kinds

-----------------------------------------------------------------------------
(* The steps that save a job.                                              *)

\* What a save of an object leaves: what is due after it was due before it, or is
\* that object.
SavedOnly(j, object, objects, s) ==
    /\ TypeOK' /\ Distinct' /\ Known' /\ Gone' /\ OneHand' /\ Down' /\ Plain'
    /\ SurplusNeedsCause'
    /\ s.excused \subseteq seen'.excused /\ seen'.spare = s.spare
    /\ \A k \in Jobs \ {j} : /\ DueInMap(k)' => DueInMap(k)
                             /\ DueOnDisk(k)' => DueInMap(k) \/ DueOnDisk(k)
    /\ DueInMap(j)' \/ DueOnDisk(j)' => object.next = "due" \/ j \in seen'.excused
    /\ \A f \in Fibers : \A i \in DOMAIN fiber'[f].list :
          LET ref == fiber'[f].list[i]
          IN  version'[ref.id][ref.v] = objects[ref.id][ref.v]

\* A save while lists only shrink keeps all that does not speak of entitlements.
LEMMA SaveKeepsRest ==
    ASSUME SchedInv, up, up' = up,
           NEW j \in Jobs, NEW object \in Objects,
           NEW objects \in [Jobs -> [Versions -> Objects]],
           NEW c \in Counts, NEW s \in Memories, saveJob(j, object, objects, c, s),
           fiber' \in [Fibers -> Frames], \A f \in Fibers : OnceIn(fiber'[f].list),
           \A f \in Fibers : Listed(f)' \subseteq Listed(f),
           schedule' \in [Jobs -> Schedules],
           \A k \in Jobs \ {j} : schedule'[k] = schedule[k] /\ objects[k] = version[k],
           j \notin s.excused => schedule'[j] = "every",
           engine' \in [running: BOOLEAN, timer: BOOLEAN, leaked: BOOLEAN],
           created' \in created .. MaxJobs, j \in 1 .. created',
           j \in Anywhere \/ j \notin seen.deleted,
           c.faults = count.faults, s.deleted = seen.deleted, s.listed = seen.listed,
           seen.excused \subseteq s.excused, s.surplus \subseteq s.excused
    PROVE  SavedOnly(j, object, objects, s)
<1>1. /\ TypeOK /\ Distinct /\ Known /\ Gone /\ OneHand /\ Plain /\ SurplusNeedsCause
      /\ jobs \in Seq(Refs) /\ OnceIn(jobs)
  BY DEF SchedInv, TypeOK, Distinct
<1>2. /\ jobs' \in Seq(Refs) /\ OnceIn(jobs') /\ IdsOf(jobs') = IdsOf(jobs) \cup {j}
      /\ version' \in [Jobs -> [Versions -> Objects]]
      /\ \A i \in DOMAIN jobs' :
            \/ jobs'[i].id = j /\ version'[j][jobs'[i].v] = object
            \/ jobs'[i].id # j /\ i \in DOMAIN jobs /\ jobs'[i] = jobs[i]
      /\ \A k \in Jobs \ {j} : version'[k] = objects[k]
      /\ \A f \in Fibers : \A i \in DOMAIN fiber'[f].list :
            LET ref == fiber'[f].list[i]
            IN  version'[ref.id][ref.v] = objects[ref.id][ref.v]
      /\ persistJobsToDisk(j, c, s)
  BY <1>1, saveJobIs
<1>3. /\ count' \in Counts /\ seen' \in Memories
      /\ \/ disk' = Image(jobs', version', schedule') /\ count' = c /\ seen' = s
         \/ disk' = disk /\ count'.faults # 0 /\ j \in seen'.excused
      /\ s.excused \subseteq seen'.excused
      /\ seen'.spare = s.spare /\ seen'.surplus = s.surplus
      /\ seen'.deleted = s.deleted /\ seen'.listed = s.listed
  BY <1>2, persistIs
<1> DEFINE im == Image(jobs', version', schedule')
<1>4. /\ im \in Seq(Rows) /\ OnceIn(im) /\ IdsOf(im) = IdsOf(jobs')
      /\ DOMAIN im = DOMAIN jobs'
      /\ \A i \in DOMAIN jobs' :
            /\ im[i].id = jobs'[i].id
            /\ im[i].object = version'[jobs'[i].id][jobs'[i].v]
            /\ im[i].schedule = schedule'[jobs'[i].id]
  BY <1>2, ImageIs
<1> HIDE DEF im
<1>5. \/ disk' = im
      \/ disk' = disk /\ count'.faults # 0 /\ j \in seen'.excused
  BY <1>3 DEF im
<1>6. TypeOK' /\ Distinct'
  <2>1. disk' \in Seq(Rows) /\ OnceIn(disk')
    BY <1>1, <1>4, <1>5 DEF TypeOK, Distinct
  <2>2. created' \in 0 .. MaxJobs
    BY <1>1 DEF TypeOK
  <2> QED BY <1>1, <1>2, <1>3, <2>1, <2>2 DEF TypeOK, Distinct
<1>7. Anywhere' \subseteq Anywhere \cup {j}
  <2>1. IdsOf(disk') \subseteq IdsOf(jobs) \cup IdsOf(disk) \cup {j}
    BY <1>2, <1>4, <1>5
  <2> QED BY <1>2, <2>1 DEF Anywhere
<1>8. Known'
  <2>1. 1 .. created \subseteq 1 .. created'
    BY <1>1 DEF TypeOK
  <2> QED BY <1>1, <1>3, <1>7, <2>1 DEF Known
<1>9. Gone'
  <2>1. count'.faults = 0 => count.faults = 0
    BY <1>3
  <2> QED BY <1>1, <1>3, <1>7, <2>1 DEF Gone
<1>10. OneHand' /\ Down'
  BY <1>1, <1>3 DEF OneHand, Down
<1>11. Plain'
  <2> SUFFICES ASSUME NEW k \in Jobs, k \notin seen'.excused
               PROVE  /\ schedule'[k] = "every"
                      /\ \A i \in DOMAIN disk' : disk'[i].id = k => disk'[i].schedule = "every"
    BY DEF Plain
  <2>1. k \notin s.excused /\ k \notin seen.excused
    BY <1>3
  <2>2. schedule'[k] = "every"
    BY <1>1, <2>1 DEF Plain
  <2>3. CASE disk' = im
    BY <1>4, <2>2, <2>3
  <2>4. CASE disk' = disk /\ j \in seen'.excused
    BY <1>1, <2>1, <2>2, <2>4 DEF Plain
  <2> QED BY <1>5, <2>2, <2>3, <2>4
<1>12. SurplusNeedsCause'
  BY <1>3 DEF SurplusNeedsCause
<1>13. ASSUME NEW k \in Jobs \ {j}
       PROVE  /\ DueInMap(k)' => DueInMap(k)
              /\ DueOnDisk(k)' => DueInMap(k) \/ DueOnDisk(k)
  <2>1. version'[k] = version[k]
    BY <1>2, <1>13
  <2>2. DueInMap(k)' => DueInMap(k)
    BY <1>2, <1>13, <2>1 DEF DueInMap
  <2>3. CASE disk' = im
    <3>1. DueOnDisk(k)' => DueInMap(k)'
      BY <1>4, <2>3 DEF DueOnDisk, DueInMap
    <3> QED BY <2>2, <3>1
  <2>4. CASE disk' = disk
    BY <2>2, <2>4 DEF DueOnDisk
  <2> QED BY <1>5, <2>3, <2>4
<1>14. DueInMap(j)' \/ DueOnDisk(j)' => object.next = "due" \/ j \in seen'.excused
  <2>1. DueInMap(j)' => object.next = "due"
    BY <1>2 DEF DueInMap
  <2>2. CASE disk' = im
    <3>1. DueOnDisk(j)' => DueInMap(j)'
      BY <1>4, <2>2 DEF DueOnDisk, DueInMap
    <3> QED BY <2>1, <3>1
  <2> QED BY <1>5, <2>1, <2>2
<1> QED BY <1>2, <1>3, <1>6, <1>8, <1>9, <1>10, <1>11, <1>12, <1>13, <1>14 DEF SavedOnly

\* A save by the tool keeps the invariant, if what it makes due was due.
LEMMA ToolSaves ==
    ASSUME SchedInv, up, UNCHANGED <<up, fiber, engine>>,
           NEW j \in Jobs, NEW object \in Objects,
           NEW objects \in [Jobs -> [Versions -> Objects]],
           NEW s \in Memories, saveJob(j, object, objects, Called, s),
           schedule' \in [Jobs -> Schedules],
           \A k \in Jobs \ {j} : schedule'[k] = schedule[k] /\ objects[k] = version[k],
           j \notin s.excused => schedule'[j] = "every",
           created' \in created .. MaxJobs, j \in 1 .. created',
           j \in Anywhere \/ j \notin seen.deleted,
           s.deleted = seen.deleted, s.listed = seen.listed, s.surplus = seen.surplus,
           seen.excused \subseteq s.excused, \A k \in Jobs : s.spare[k] >= seen.spare[k],
           j \notin s.excused =>
              /\ object.next = "due" => DueInMap(j)
              /\ \A v \in Versions : objects[j][v].next = "due" => version[j][v].next = "due"
    PROVE  SchedInv'
<1>1. TypeOK /\ Distinct /\ SurplusNeedsCause /\ Entitled
  BY DEF SchedInv
<1>2. PICK c \in Counts : c.faults = count.faults /\ saveJob(j, object, objects, c, s)
  BY <1>1, CalledIs DEF TypeOK
<1>3. /\ fiber' \in [Fibers -> Frames] /\ \A f \in Fibers : OnceIn(fiber'[f].list)
      /\ \A f \in Fibers : Listed(f)' \subseteq Listed(f)
      /\ engine' \in [running: BOOLEAN, timer: BOOLEAN, leaked: BOOLEAN]
      /\ s.surplus \subseteq s.excused /\ up' = up
  BY <1>1 DEF TypeOK, Distinct, Listed, SurplusNeedsCause
<1>4. SavedOnly(j, object, objects, s)
  BY <1>2, <1>3, SaveKeepsRest
<1>5. ASSUME NEW k \in Jobs, k \notin seen'.excused, Owed(k)'
      PROVE  seen'.spare[k] > 0
  <2>1. k \notin s.excused /\ k \notin seen.excused
    BY <1>4, <1>5 DEF SavedOnly
  <2>2. DueInMap(k)' \/ DueOnDisk(k)' => DueInMap(k) \/ DueOnDisk(k)
    BY <1>4, <1>5, <2>1 DEF SavedOnly
  <2>3. Running(k)' = Running(k)
    BY DEF Running, IsIdle
  <2>4. ASSUME NEW f \in Fibers, Awaits(f, k)' PROVE Awaits(f, k)
    <3>1. PICK i \in DOMAIN fiber[f].list :
             /\ i # 1 /\ fiber[f].list[i].id = k
             /\ fiber[f].kind = "tick" => version'[k][fiber[f].list[i].v].next = "due"
      BY <2>4 DEF Awaits
    <3> DEFINE v == fiber[f].list[i].v
    <3>2. v \in Versions
      <4>1. fiber[f].list \in Seq(Refs)
        BY <1>1 DEF TypeOK, Frames
      <4>2. fiber[f].list[i] \in Refs
        BY <3>1, <4>1
      <4> QED BY <4>2 DEF Refs
    <3>3. version'[k][v] = objects[k][v]
      BY <1>4, <3>1 DEF SavedOnly
    <3> HIDE DEF v
    <3>4. version'[k][v].next = "due" => version[k][v].next = "due"
      BY <2>1, <3>2, <3>3
    <3> QED BY <3>1, <3>4 DEF Awaits, v
  <2>5. Owed(k)
    BY <1>5, <2>2, <2>3, <2>4 DEF Owed
  <2>6. seen.spare[k] > 0
    BY <1>1, <2>1, <2>5 DEF Entitled
  <2>7. seen.spare[k] \in Nat /\ s.spare[k] \in Nat /\ s.spare[k] >= seen.spare[k]
    BY <1>1 DEF TypeOK, Memories
  <2> QED BY <1>4, <2>6, <2>7 DEF SavedOnly
<1> QED BY <1>4, <1>5 DEF SchedInv, Entitled, SavedOnly

\* The object of a job in the map, and a change of it.
LEMMA ChangedIs ==
    ASSUME TypeOK, NEW j \in Jobs, NEW v \in Versions, NEW object \in Objects
    PROVE  /\ [version EXCEPT ![j][v] = object] \in [Jobs -> [Versions -> Objects]]
           /\ \A k \in Jobs \ {j} : [version EXCEPT ![j][v] = object][k] = version[k]
           /\ \A w \in Versions : [version EXCEPT ![j][v] = object][j][w] =
                                     IF w = v THEN object ELSE version[j][w]
BY DEF TypeOK

\* What the map holds of a job.
LEMMA getJobIs ==
    ASSUME TypeOK, NEW j \in Jobs, InMap(j)
    PROVE  /\ getJob(j) \in Refs /\ getJob(j).id = j /\ getJob(j).v \in Versions
           /\ Object(getJob(j)) = version[j][getJob(j).v] /\ Object(getJob(j)) \in Objects
           /\ Object(getJob(j)).next = "due" => DueInMap(j)
           /\ j \in Anywhere
<1>1. PICK n \in DOMAIN jobs : getJob(j) = jobs[n] /\ jobs[n].id = j
  BY DEF InMap, getJob, Position
<1>2. jobs[n] \in Refs
  BY DEF TypeOK
<1>3. getJob(j).v \in Versions
  BY <1>1, <1>2 DEF Refs
<1>4. Object(getJob(j)) = version[j][getJob(j).v]
  BY <1>1 DEF Object
<1>5. Object(getJob(j)).next = "due" => DueInMap(j)
  BY <1>1, <1>4 DEF DueInMap
<1>6. j \in Anywhere
  BY <1>1 DEF Anywhere, IdsOf
<1> QED BY <1>1, <1>2, <1>3, <1>4, <1>5, <1>6 DEF TypeOK

\* The entitlement that comes with a schedule; one that is not an interval excuses.
LEMMA ScheduledIs ==
    ASSUME NEW j \in Jobs, NEW plan \in Schedules, NEW s \in Memories
    PROVE  /\ Scheduled(j, plan, s) \in Memories
           /\ Scheduled(j, plan, s).deleted = s.deleted
           /\ Scheduled(j, plan, s).listed = s.listed
           /\ Scheduled(j, plan, s).surplus = s.surplus
           /\ s.excused \subseteq Scheduled(j, plan, s).excused
           /\ j \notin Scheduled(j, plan, s).excused => plan = "every"
           /\ \A k \in Jobs : Scheduled(j, plan, s).spare[k] >= s.spare[k]
<1> DEFINE sp == [s.spare EXCEPT ![j] = IF plan = "past" THEN @ + 1 ELSE @]
           ex == IF plan = "every" THEN s.excused ELSE s.excused \cup {j}
<1>1. Scheduled(j, plan, s) = [s EXCEPT !.spare = sp, !.excused = ex]
  BY DEF Scheduled
<1>2. sp \in [Jobs -> Nat] /\ \A k \in Jobs : sp[k] >= s.spare[k]
  <2>1. s.spare \in [Jobs -> Nat]
    BY DEF Memories
  <2> QED BY <2>1
<1>3. ex \in SUBSET Jobs /\ s.excused \subseteq ex /\ (j \notin ex => plan = "every")
  BY DEF Memories
<1> HIDE DEF sp, ex
<1> QED BY <1>1, <1>2, <1>3 DEF Memories

\* The creation of a job: its id is a new one.
LEMMA createKeepsSched ==
    ASSUME SchedInv, NEW j \in Jobs, NEW plan \in Schedules, NEW enabled \in BOOLEAN,
           create(j, plan, enabled)
    PROVE  SchedInv'
<1>1. TypeOK /\ Known
  BY DEF SchedInv
<1>2. PICK object : object = [enabled |-> enabled, next |-> calculateNextRun(plan)]
  OBVIOUS
<1>3. object \in Objects /\ (plan = "every" => object.next # "due")
  BY <1>2 DEF Objects, calculateNextRun
<1>4. PICK s : s = Scheduled(j, plan, seen)
  OBVIOUS
<1>5. /\ s \in Memories /\ s.deleted = seen.deleted /\ s.listed = seen.listed
      /\ s.surplus = seen.surplus /\ seen.excused \subseteq s.excused
      /\ j \notin s.excused => plan = "every"
      /\ \A k \in Jobs : s.spare[k] >= seen.spare[k]
  BY <1>1, <1>4, ScheduledIs DEF TypeOK
<1>6. PICK objects : objects = version
  OBVIOUS
<1>7. /\ up /\ UNCHANGED <<up, fiber, engine>>
      /\ j = created + 1 /\ created' = j /\ schedule' = [schedule EXCEPT ![j] = plan]
      /\ saveJob(j, object, objects, Called, s)
  BY <1>2, <1>4, <1>6 DEF create, MayCall
<1>8. /\ schedule' \in [Jobs -> Schedules]
      /\ \A k \in Jobs \ {j} : schedule'[k] = schedule[k] /\ objects[k] = version[k]
      /\ j \notin s.excused => schedule'[j] = "every"
      /\ objects \in [Jobs -> [Versions -> Objects]]
  BY <1>1, <1>5, <1>6, <1>7 DEF TypeOK
<1>9. /\ created' \in created .. MaxJobs /\ j \in 1 .. created'
      /\ j \notin seen.deleted
  BY <1>1, <1>7, SchedulerAssumption DEF TypeOK, Known, Jobs
<1>10. j \notin s.excused =>
          /\ object.next = "due" => DueInMap(j)
          /\ \A v \in Versions : objects[j][v].next = "due" => version[j][v].next = "due"
  BY <1>3, <1>5, <1>6
<1> QED BY <1>3, <1>5, <1>7, <1>8, <1>9, <1>10, ToolSaves

\* A change of the object of a job, saved under the schedule it has then.
LEMMA ChangeKeepsSched ==
    ASSUME SchedInv, up, UNCHANGED <<up, fiber, engine, created>>,
           NEW j \in Jobs, InMap(j), NEW object \in Objects, NEW s \in Memories,
           Change(j, object, s),
           schedule' \in [Jobs -> Schedules],
           \A k \in Jobs \ {j} : schedule'[k] = schedule[k],
           j \notin s.excused => schedule'[j] = "every",
           s.deleted = seen.deleted, s.listed = seen.listed, s.surplus = seen.surplus,
           seen.excused \subseteq s.excused, \A k \in Jobs : s.spare[k] >= seen.spare[k],
           j \notin s.excused => object.next # "due" \/ object.next = Object(getJob(j)).next
    PROVE  SchedInv'
<1>1. TypeOK /\ Known
  BY DEF SchedInv
<1>2. /\ getJob(j).v \in Versions /\ Object(getJob(j)) = version[j][getJob(j).v]
      /\ Object(getJob(j)).next = "due" => DueInMap(j)
      /\ j \in Anywhere
  BY <1>1, getJobIs
<1>3. PICK objects : objects = [version EXCEPT ![j][getJob(j).v] = object]
  OBVIOUS
<1>4. /\ objects \in [Jobs -> [Versions -> Objects]]
      /\ \A k \in Jobs \ {j} : objects[k] = version[k]
      /\ \A w \in Versions : objects[j][w] = IF w = getJob(j).v THEN object ELSE version[j][w]
  BY <1>1, <1>2, <1>3, ChangedIs
<1>5. saveJob(j, object, objects, Called, s)
  BY <1>3 DEF Change
<1>6. created' \in created .. MaxJobs /\ j \in 1 .. created'
  BY <1>1, <1>2, SchedulerAssumption DEF TypeOK, Known
<1>7. j \notin s.excused =>
          /\ object.next = "due" => DueInMap(j)
          /\ \A v \in Versions : objects[j][v].next = "due" => version[j][v].next = "due"
  BY <1>2, <1>4
<1>8. \A k \in Jobs \ {j} : schedule'[k] = schedule[k] /\ objects[k] = version[k]
  BY <1>4
<1>9. UNCHANGED <<up, fiber, engine>>
  OBVIOUS
<1> QED BY <1>2, <1>4, <1>5, <1>6, <1>7, <1>8, <1>9, ToolSaves

\* A job is switched on or off.
LEMMA updateEnabledKeepsSched ==
    ASSUME SchedInv, NEW j \in Jobs, NEW enabled \in BOOLEAN, updateEnabled(j, enabled)
    PROVE  SchedInv'
<1>1. TypeOK /\ Plain /\ InMap(j) /\ seen \in Memories
  BY DEF SchedInv, updateEnabled, TypeOK
<1>2. PICK old \in Objects : old = Object(getJob(j))
  BY <1>1, getJobIs
<1>3. PICK object : object = [old EXCEPT !.enabled = enabled]
  OBVIOUS
<1>4. object \in Objects /\ object.next = old.next
  BY <1>3 DEF Objects
<1>5. PICK s : s = seen
  OBVIOUS
<1>6. /\ up /\ UNCHANGED <<up, fiber, engine, created>> /\ schedule' = schedule
      /\ Change(j, object, s)
  BY <1>2, <1>3, <1>5 DEF updateEnabled, MayCall
<1>7. /\ schedule' \in [Jobs -> Schedules]
      /\ j \notin s.excused => schedule'[j] = "every"
      /\ \A k \in Jobs : s.spare[k] >= seen.spare[k]
  BY <1>1, <1>5, <1>6 DEF TypeOK, Plain, Memories
<1> QED BY <1>1, <1>2, <1>4, <1>5, <1>6, <1>7, ChangeKeepsSched

\* A job gets another schedule, or the same kind of schedule again.
LEMMA updateScheduleKeepsSched ==
    ASSUME SchedInv, NEW j \in Jobs, NEW plan \in Schedules, updateSchedule(j, plan)
    PROVE  SchedInv'
<1>1. TypeOK /\ InMap(j) /\ seen \in Memories
  BY DEF SchedInv, updateSchedule, TypeOK
<1>2. PICK old \in Objects : old = Object(getJob(j))
  BY <1>1, getJobIs
<1>3. PICK object : object = [old EXCEPT !.next = calculateNextRun(plan)]
  OBVIOUS
<1>4. object \in Objects /\ (plan = "every" => object.next # "due")
  BY <1>3 DEF Objects, calculateNextRun
<1>5. PICK s : s = Scheduled(j, plan, seen)
  OBVIOUS
<1>6. /\ s \in Memories /\ s.deleted = seen.deleted /\ s.listed = seen.listed
      /\ s.surplus = seen.surplus /\ seen.excused \subseteq s.excused
      /\ j \notin s.excused => plan = "every"
      /\ \A k \in Jobs : s.spare[k] >= seen.spare[k]
  BY <1>1, <1>5, ScheduledIs
<1>7. /\ up /\ UNCHANGED <<up, fiber, engine, created>>
      /\ schedule' = [schedule EXCEPT ![j] = plan]
      /\ Change(j, object, s)
  BY <1>2, <1>3, <1>5 DEF updateSchedule, MayCall
<1>8. /\ schedule' \in [Jobs -> Schedules]
      /\ \A k \in Jobs \ {j} : schedule'[k] = schedule[k]
      /\ j \notin s.excused => schedule'[j] = "every"
  BY <1>1, <1>6, <1>7 DEF TypeOK
<1> QED BY <1>1, <1>4, <1>6, <1>7, <1>8, ChangeKeepsSched

\* A loop goes on after a webhook: the job it ran lies ahead again, in the map and in
\* the file, and the next one has a run to take.
LEMMA DeliveredKeepsSched ==
    ASSUME SchedInv, NEW f \in Fibers, Delivered(f)
    PROVE  SchedInv'
<1>1. /\ TypeOK /\ Distinct /\ OneHand /\ Plain /\ Entitled /\ SurplusNeedsCause
      /\ fiber \in [Fibers -> Frames] /\ seen \in Memories
  BY DEF SchedInv, TypeOK
<1>2. PICK list \in Seq(Refs), kind \in Kinds :
         /\ list = fiber[f].list /\ kind = fiber[f].kind /\ list # <<>> /\ OnceIn(list)
  <2>1. fiber[f].list \in Seq(Refs) /\ fiber[f].kind \in Kinds
    BY <1>1 DEF Frames
  <2> QED BY <1>1, <2>1 DEF Delivered, IsIdle, Distinct
<1>3. /\ Tail(list) \in Seq(Refs) /\ Suffix(Tail(list), list, 1)
      /\ Head(list) = list[1] /\ 1 \in DOMAIN list /\ list[1] \in Refs
  BY <1>2, TailList
<1>4. PICK j \in Jobs, v \in Versions : list[1].id = j /\ list[1].v = v
  BY <1>3 DEF Refs
<1>5. PICK object : object = [version[j][v] EXCEPT !.next = calculateNextRun(schedule[j])]
  OBVIOUS
<1>6. PICK objects : objects = [version EXCEPT ![j][v] = object]
  OBVIOUS
<1>7. PICK rest : rest = Ahead(kind, Tail(list), objects)
  OBVIOUS
<1>8. PICK s : s = Begins(f, seen)
  OBVIOUS
<1>9. PICK c \in Counts : c = count
  BY <1>1 DEF TypeOK
<1>10. /\ up /\ UNCHANGED <<up, schedule, created>>
       /\ fiber' = [fiber EXCEPT ![f] = IF rest = <<>> THEN Idle
                                        ELSE [fiber[f] EXCEPT !.list = rest]]
       /\ engine' = IF kind = "catchup" /\ fiber'[f] = Idle THEN SetTimer(engine) ELSE engine
       /\ saveJob(j, object, objects, c, s)
  BY <1>2, <1>3, <1>4, <1>5, <1>6, <1>7, <1>8, <1>9 DEF Delivered, Object
<1>11. object \in Objects /\ (schedule[j] = "every" => object.next # "due")
  <2>1. version[j][v] \in Objects
    BY <1>1 DEF TypeOK
  <2> QED BY <1>5, <2>1 DEF Objects, calculateNextRun
<1>12. /\ objects \in [Jobs -> [Versions -> Objects]]
       /\ \A k \in Jobs \ {j} : objects[k] = version[k]
  BY <1>1, <1>6, <1>11, ChangedIs
<1>13. PICK n \in Nat :
          /\ rest \in Seq(Refs) /\ Suffix(rest, Tail(list), n)
          /\ kind = "tick" /\ rest # <<>> => objects[rest[1].id][rest[1].v].next = "due"
  BY <1>3, <1>7, AheadList
<1>14. PICK m \in Nat : m # 0 /\ Suffix(rest, list, m)
  <2>1. ASSUME NEW i \in DOMAIN rest
        PROVE  i + (n + 1) \in DOMAIN list /\ rest[i] = list[i + (n + 1)]
    <3>1. i + n \in DOMAIN Tail(list) /\ rest[i] = Tail(list)[i + n]
      BY <1>13 DEF Suffix
    <3>2. (i + n) + 1 \in DOMAIN list /\ Tail(list)[i + n] = list[(i + n) + 1]
      BY <1>3, <3>1 DEF Suffix
    <3>3. (i + n) + 1 = i + (n + 1)
      BY <1>13
    <3> QED BY <3>1, <3>2, <3>3
  <2> QED BY <2>1 DEF Suffix
<1>15. OnceIn(rest) /\ IdsOf(rest) \subseteq IdsOf(list)
  BY <1>2, <1>13, <1>14, SuffixList
<1>16. \A i \in DOMAIN rest : i + m # 1 /\ rest[i].id # j
  <2> SUFFICES ASSUME NEW i \in DOMAIN rest PROVE i + m # 1 /\ rest[i].id # j
    OBVIOUS
  <2>1. i \in Nat \ {0}
    BY <1>13
  <2>2. i + m # 1
    BY <1>14, <2>1
  <2>3. i + m \in DOMAIN list /\ rest[i] = list[i + m]
    BY <1>14 DEF Suffix
  <2> QED BY <1>2, <1>3, <1>4, <2>2, <2>3 DEF OnceIn
<1>17. /\ fiber' \in [Fibers -> Frames] /\ fiber'[f].list = rest
       /\ rest # <<>> => fiber'[f].kind = kind
       /\ \A g \in Fibers \ {f} : fiber'[g] = fiber[g]
  <2> DEFINE fr == IF rest = <<>> THEN Idle ELSE [fiber[f] EXCEPT !.list = rest]
  <2>1. fr \in Frames /\ fr.list = rest /\ (rest # <<>> => fr.kind = kind)
    <3>1. fiber[f] \in Frames
      BY <1>1
    <3> QED BY <1>2, <1>13, <3>1 DEF Idle, Frames, Kinds
  <2>2. fiber' = [fiber EXCEPT ![f] = fr]
    BY <1>10
  <2> HIDE DEF fr
  <2> QED BY <1>1, <2>1, <2>2
<1>18. /\ s \in Memories /\ s.deleted = seen.deleted /\ s.listed = seen.listed
       /\ seen.excused \subseteq s.excused
       /\ rest = <<>> => s = seen
       /\ rest # <<>> =>
             /\ rest[1].id \in Jobs
             /\ \A k \in Jobs \ {rest[1].id} : s.spare[k] = seen.spare[k]
             /\ s.surplus = IF seen.spare[rest[1].id] = 0
                            THEN seen.surplus \cup {rest[1].id} ELSE seen.surplus
             /\ \A g \in Fibers \ {f} : Listed(f)' \cap Listed(g)' \subseteq s.excused
  BY <1>1, <1>8, <1>17, BeginsIs
<1>19. /\ \A g \in Fibers : OnceIn(fiber'[g].list)
       /\ \A g \in Fibers : Listed(g)' \subseteq Listed(g)
       /\ j \in Listed(f)
  <2>1. \A g \in Fibers : OnceIn(fiber'[g].list)
    BY <1>1, <1>15, <1>17 DEF Distinct
  <2>2. \A g \in Fibers : Listed(g)' \subseteq Listed(g)
    BY <1>2, <1>15, <1>17 DEF Listed
  <2>3. j \in Listed(f)
    BY <1>2, <1>3, <1>4 DEF Listed, IdsOf
  <2> QED BY <2>1, <2>2, <2>3
<1>20. rest # <<>> => 1 \in DOMAIN rest /\ rest[1] \in Refs
  BY <1>13
<1>21. ASSUME rest # <<>>, rest[1].id \notin s.excused
       PROVE  seen.spare[rest[1].id] > 0
  <2> DEFINE k == rest[1].id
  <2>1. k # j /\ k \in Jobs \ seen.excused
    BY <1>16, <1>18, <1>20, <1>21
  <2>2. 1 + m \in DOMAIN list /\ 1 + m # 1 /\ rest[1] = list[1 + m]
    BY <1>14, <1>16, <1>20, <1>21 DEF Suffix
  <2>3. kind = "tick" => version[k][list[1 + m].v].next = "due"
    BY <1>12, <1>13, <1>21, <2>1, <2>2
  <2>4. Awaits(f, k)
    BY <1>2, <2>2, <2>3 DEF Awaits
  <2>5. Owed(k)
    BY <2>4 DEF Owed
  <2> HIDE DEF k
  <2>6. seen.spare[k] > 0
    BY <1>1, <2>1, <2>5 DEF Entitled
  <2> QED BY <2>6 DEF k
<1>22. s.surplus \subseteq s.excused
  BY <1>1, <1>18, <1>21 DEF SurplusNeedsCause
<1>23. engine' \in [running: BOOLEAN, timer: BOOLEAN, leaked: BOOLEAN]
  BY <1>1, <1>10, SetTimerType DEF TypeOK
<1>24. /\ schedule' \in [Jobs -> Schedules]
       /\ \A k \in Jobs \ {j} : schedule'[k] = schedule[k] /\ objects[k] = version[k]
       /\ j \notin s.excused => schedule'[j] = "every"
  BY <1>1, <1>10, <1>12, <1>18 DEF TypeOK, Plain
<1>25. created' \in created .. MaxJobs /\ j \in 1 .. created' /\ j \in Anywhere
  <2>1. j \in Anywhere
    BY <1>19 DEF Anywhere
  <2>2. j \in 1 .. created
    BY <2>1 DEF SchedInv, Known
  <2> QED BY <1>1, <1>10, <2>1, <2>2, SchedulerAssumption DEF TypeOK
<1>26. SavedOnly(j, object, objects, s)
  BY <1>9, <1>10, <1>11, <1>12, <1>17, <1>18, <1>19, <1>22, <1>23, <1>24, <1>25,
     SaveKeepsRest
<1>27. ASSUME NEW k \in Jobs, k \notin seen'.excused, Owed(k)'
       PROVE  seen'.spare[k] > 0
  <2>1. k \notin s.excused /\ k \notin seen.excused
    BY <1>18, <1>26, <1>27 DEF SavedOnly
  <2>2. ASSUME k = j PROVE FALSE
    <3>1. ~(DueInMap(k)' \/ DueOnDisk(k)')
      BY <1>1, <1>11, <1>26, <1>27, <2>1, <2>2 DEF SavedOnly, Plain
    <3>2. PICK g \in Fibers : Awaits(g, k)'
      BY <1>27, <3>1 DEF Owed
    <3>3. PICK i \in DOMAIN fiber'[g].list : fiber'[g].list[i].id = k
      BY <3>2 DEF Awaits
    <3>4. g # f
      BY <1>16, <1>17, <2>2, <3>3
    <3>5. k \in Listed(g)
      BY <1>19, <3>3 DEF Listed, IdsOf
    <3> QED BY <1>1, <1>19, <2>1, <2>2, <3>4, <3>5 DEF OneHand
  <2>3. ASSUME rest # <<>>, k = rest[1].id PROVE FALSE
    <3>1. Head(fiber'[f].list).id = k /\ fiber'[f].list # <<>>
      BY <1>13, <1>17, <2>3
    <3>2. Running(k)'
      BY <3>1 DEF Running, IsIdle
    <3>3. PICK g \in Fibers : Awaits(g, k)'
      BY <1>27, <3>2 DEF Owed
    <3>4. PICK i \in DOMAIN fiber'[g].list : i # 1 /\ fiber'[g].list[i].id = k
      BY <3>3 DEF Awaits
    <3>5. g # f
      BY <1>15, <1>17, <1>20, <2>3, <3>4 DEF OnceIn
    <3>6. k \in Listed(g)' /\ k \in Listed(f)'
      BY <1>17, <1>20, <2>3, <3>4 DEF Listed, IdsOf
    <3> QED BY <1>18, <2>1, <2>3, <3>5, <3>6
  <2>4. s.spare[k] = seen.spare[k]
    BY <1>18, <2>3
  <2>5. ~Running(k)' => ~Running(k)
    <3> SUFFICES ASSUME Running(k) PROVE Running(k)'
      OBVIOUS
    <3>1. PICK g \in Fibers : fiber[g].list # <<>> /\ Head(fiber[g].list).id = k
      BY DEF Running, IsIdle
    <3>2. g # f
      BY <1>2, <1>3, <1>4, <2>2, <3>1
    <3> QED BY <1>17, <3>1, <3>2 DEF Running, IsIdle
  <2>6. DueInMap(k)' \/ DueOnDisk(k)' => DueInMap(k) \/ DueOnDisk(k)
    BY <1>26, <2>2 DEF SavedOnly
  <2>7. ASSUME NEW g \in Fibers, Awaits(g, k)' PROVE Awaits(g, k)
    <3>1. PICK i \in DOMAIN fiber'[g].list :
             /\ i # 1 /\ fiber'[g].list[i].id = k
             /\ fiber'[g].kind = "tick" => version'[k][fiber'[g].list[i].v].next = "due"
      BY <2>7 DEF Awaits
    <3>2. version'[k][fiber'[g].list[i].v] = version[k][fiber'[g].list[i].v]
      BY <1>12, <1>26, <2>2, <3>1 DEF SavedOnly
    <3>3. CASE g # f
      BY <1>17, <3>1, <3>2, <3>3 DEF Awaits
    <3>4. CASE g = f
      <4>1. i \in DOMAIN rest /\ rest # <<>>
        BY <1>17, <3>1, <3>4
      <4>2. i + m \in DOMAIN list /\ i + m # 1 /\ rest[i] = list[i + m]
        BY <1>14, <1>16, <4>1 DEF Suffix
      <4> QED BY <1>2, <1>17, <3>1, <3>2, <3>4, <4>1, <4>2 DEF Awaits
    <3> QED BY <3>3, <3>4
  <2>8. Owed(k)
    BY <1>27, <2>5, <2>6, <2>7 DEF Owed
  <2>9. seen.spare[k] > 0
    BY <1>1, <2>1, <2>8 DEF Entitled
  <2> QED BY <1>26, <2>4, <2>9 DEF SavedOnly
<1> QED BY <1>26, <1>27 DEF SchedInv, Entitled, SavedOnly

-----------------------------------------------------------------------------
(* The other steps.                                                        *)

\* What leaves the jobs, the file and the loops alone, forgets nothing and grants
\* no fewer runs keeps the invariant.
LEMMA RestKeeps ==
    ASSUME SchedInv, TypeOK', UNCHANGED <<up, jobs, version, disk, fiber, created>>,
           count'.faults = count.faults,
           seen'.deleted = seen.deleted, seen'.listed = seen.listed,
           seen'.surplus = seen.surplus, seen'.spare = seen.spare,
           seen.excused \subseteq seen'.excused,
           \A k \in Jobs : schedule'[k] # schedule[k] => k \in seen'.excused
    PROVE  SchedInv'
<1>1. TypeOK /\ Distinct /\ Known /\ Gone /\ OneHand /\ Down /\ Plain /\ Entitled /\ SurplusNeedsCause
  BY DEF SchedInv
<1>2. Anywhere' = Anywhere
  BY DEF Anywhere, IdsOf, Listed
<1>3. Distinct' /\ Known' /\ Gone'
  BY <1>1, <1>2 DEF Distinct, OnceIn, Known, Gone
<1>4. OneHand' /\ Down' /\ Plain' /\ SurplusNeedsCause'
  BY <1>1 DEF OneHand, Listed, IdsOf, Down, IsIdle, Plain, SurplusNeedsCause
<1>5. \A k \in Jobs : Owed(k)' = Owed(k)
  BY DEF Owed, DueInMap, DueOnDisk, Awaits, Running, IsIdle
<1>6. Entitled'
  BY <1>1, <1>5 DEF Entitled
<1> QED BY <1>3, <1>4, <1>6 DEF SchedInv

\* The engine is stopped.
LEMMA stopKeepsSched ==
    ASSUME SchedInv, stop
    PROVE  SchedInv'
<1>1. TypeOK
  BY DEF SchedInv
<1>2. /\ UNCHANGED <<up, jobs, version, disk, fiber, created>> /\ schedule' = schedule
      /\ count' = Called
      /\ engine' = [engine EXCEPT !.running = FALSE, !.timer = FALSE]
  BY DEF stop, Call
<1>3. PICK early \in BOOLEAN : seen' = [seen EXCEPT !.early = early]
  <2> DEFINE early == seen.early \/ \E f \in Fibers : fiber[f].kind = "catchup" /\ ~IsIdle(f)
  <2>1. seen' = [seen EXCEPT !.early = early]
    BY DEF stop
  <2>2. seen.early \in BOOLEAN
    BY <1>1 DEF TypeOK, Memories
  <2>3. early \in BOOLEAN
    BY <2>2
  <2> HIDE DEF early
  <2> QED BY <2>1, <2>3
<1>4. engine' \in [running: BOOLEAN, timer: BOOLEAN, leaked: BOOLEAN]
  BY <1>1, <1>2 DEF TypeOK
<1>5. /\ seen' \in Memories
      /\ seen'.deleted = seen.deleted /\ seen'.listed = seen.listed
      /\ seen'.surplus = seen.surplus /\ seen'.spare = seen.spare
      /\ seen'.excused = seen.excused
  BY <1>1, <1>3 DEF TypeOK, Memories
<1>6. count' \in Counts /\ count'.faults = count.faults
  BY <1>1, <1>2, CalledIs DEF TypeOK
<1>7. TypeOK'
  BY <1>1, <1>2, <1>4, <1>5, <1>6 DEF TypeOK
<1> QED BY <1>2, <1>5, <1>6, <1>7, RestKeeps

\* A schedule without a date excuses its job.
LEMMA updateThrowsKeepsSched ==
    ASSUME SchedInv, NEW j \in Jobs, updateThrows(j)
    PROVE  SchedInv'
<1>1. TypeOK
  BY DEF SchedInv
<1>2. /\ UNCHANGED <<up, jobs, version, disk, fiber, engine, created>>
      /\ schedule' = [schedule EXCEPT ![j] = "bad"] /\ count' = Called
      /\ seen' = [seen EXCEPT !.excused = seen.excused \cup {j}]
  BY DEF updateThrows, Call
<1>3. /\ schedule' \in [Jobs -> Schedules]
      /\ \A k \in Jobs : schedule'[k] # schedule[k] => k = j
  BY <1>1, <1>2 DEF TypeOK, Schedules
<1>4. /\ seen' \in Memories
      /\ seen'.deleted = seen.deleted /\ seen'.listed = seen.listed
      /\ seen'.surplus = seen.surplus /\ seen'.spare = seen.spare
      /\ seen'.excused = seen.excused \cup {j}
  <2>1. seen \in Memories /\ seen.excused \cup {j} \in SUBSET Jobs
    BY <1>1 DEF TypeOK, Memories
  <2> QED BY <1>2, <2>1 DEF Memories
<1>5. count' \in Counts /\ count'.faults = count.faults
  BY <1>1, <1>2, CalledIs DEF TypeOK
<1>6. TypeOK'
  BY <1>1, <1>2, <1>3, <1>4, <1>5 DEF TypeOK
<1> QED BY <1>2, <1>3, <1>4, <1>5, <1>6, RestKeeps

\* A job is deleted; that loops have it in hand is remembered.
LEMMA deleteKeepsSched ==
    ASSUME SchedInv, NEW j \in Jobs, delete(j)
    PROVE  SchedInv'
<1>1. /\ TypeOK /\ Distinct /\ Known /\ Gone /\ OneHand /\ Down /\ Plain /\ Entitled
      /\ SurplusNeedsCause
  BY DEF SchedInv
<1>2. PICK s : s = [seen EXCEPT
          !.deleted = @ \cup {j},
          !.listed  = IF \E f \in Fibers : j \in IdsOf(fiber[f].list)
                      THEN @ \cup {j} ELSE @]
  OBVIOUS
<1>3. PICK c \in Counts : c = Called /\ c.faults = count.faults
  BY <1>1, CalledIs DEF TypeOK
<1>4. /\ up /\ InMap(j) /\ UNCHANGED <<up, version, schedule, fiber, engine, created>>
      /\ jobs' = Filter(jobs, {ref \in Refs : ref.id # j})
      /\ persistJobsToDisk(j, c, s)
  BY <1>2, <1>3 DEF delete, MayCall
<1>5. /\ s \in Memories /\ s.deleted = seen.deleted \cup {j}
      /\ seen.listed \subseteq s.listed
      /\ j \notin s.listed => \A f \in Fibers : j \notin Listed(f)
      /\ s.surplus = seen.surplus /\ s.spare = seen.spare /\ s.excused = seen.excused
  <2> DEFINE held == \E f \in Fibers : j \in IdsOf(fiber[f].list)
             ls   == IF held THEN seen.listed \cup {j} ELSE seen.listed
             dl   == seen.deleted \cup {j}
  <2>1. s = [seen EXCEPT !.deleted = dl, !.listed = ls]
    BY <1>2
  <2>2. ls \in SUBSET Jobs /\ dl \in SUBSET Jobs /\ seen \in Memories
    BY <1>1 DEF TypeOK, Memories
  <2>3. seen.listed \subseteq ls /\ (j \notin ls => \A f \in Fibers : j \notin Listed(f))
    BY DEF Listed
  <2>4. /\ s \in Memories /\ s.deleted = dl /\ s.listed = ls
        /\ s.surplus = seen.surplus /\ s.spare = seen.spare /\ s.excused = seen.excused
    <3> HIDE DEF ls, dl
    <3> QED BY <2>1, <2>2 DEF Memories
  <2> HIDE DEF ls
  <2> QED BY <2>3, <2>4
<1>6. /\ jobs' \in Seq(Refs) /\ OnceIn(jobs') /\ IdsOf(jobs') \subseteq IdsOf(jobs)
      /\ \A i \in DOMAIN jobs' : jobs'[i].id # j /\ \E m \in DOMAIN jobs : jobs'[i] = jobs[m]
  <2>1. PICK keep : keep = {ref \in Refs : ref.id # j}
    OBVIOUS
  <2>2. jobs' = Filter(jobs, keep) /\ jobs \in Seq(Refs) /\ OnceIn(jobs)
    BY <1>1, <1>4, <2>1 DEF TypeOK, Distinct
  <2>3. /\ jobs' \in Seq(Refs) /\ OnceIn(jobs') /\ IdsOf(jobs') \subseteq IdsOf(jobs)
        /\ \A i \in DOMAIN jobs' : jobs'[i] \in keep /\ \E m \in DOMAIN jobs : jobs'[i] = jobs[m]
    <3>1. PICK list \in Seq(Refs) : list = jobs /\ OnceIn(list)
      BY <2>2
    <3> QED BY <2>2, <3>1, FilterList
  <2> QED BY <2>1, <2>3
<1>7. /\ count' \in Counts /\ seen' \in Memories
      /\ \/ disk' = Image(jobs', version', schedule') /\ count' = c /\ seen' = s
         \/ disk' = disk /\ count'.faults # 0 /\ j \in seen'.excused
      /\ s.excused \subseteq seen'.excused
      /\ seen'.spare = s.spare /\ seen'.surplus = s.surplus
      /\ seen'.deleted = s.deleted /\ seen'.listed = s.listed
  BY <1>4, <1>5, persistIs
<1> DEFINE im == Image(jobs', version', schedule')
<1>8. /\ im \in Seq(Rows) /\ OnceIn(im) /\ IdsOf(im) = IdsOf(jobs')
      /\ DOMAIN im = DOMAIN jobs'
      /\ \A i \in DOMAIN jobs' :
            /\ im[i].id = jobs'[i].id
            /\ im[i].object = version'[jobs'[i].id][jobs'[i].v]
            /\ im[i].schedule = schedule'[jobs'[i].id]
  <2>1. version' \in [Jobs -> [Versions -> Objects]] /\ schedule' \in [Jobs -> Schedules]
    BY <1>1, <1>4 DEF TypeOK
  <2> QED BY <1>6, <2>1, ImageIs
<1> HIDE DEF im
<1>9. \/ disk' = im /\ count'.faults = count.faults
      \/ disk' = disk /\ count'.faults # 0 /\ j \in seen'.excused
  BY <1>3, <1>7 DEF im
<1>10. TypeOK' /\ Distinct'
  <2>1. disk' \in Seq(Rows) /\ OnceIn(disk')
    BY <1>1, <1>8, <1>9 DEF TypeOK, Distinct
  <2> QED BY <1>1, <1>4, <1>6, <1>7, <2>1 DEF TypeOK, Distinct
<1>11. \A f \in Fibers : Listed(f)' = Listed(f)
  BY <1>4 DEF Listed
<1>12. Anywhere' \subseteq Anywhere
  <2>1. IdsOf(disk') \subseteq IdsOf(jobs) \cup IdsOf(disk)
    BY <1>6, <1>8, <1>9
  <2> QED BY <1>6, <1>11, <2>1 DEF Anywhere
<1>13. Known'
  <2>1. j \in Anywhere
    BY <1>1, <1>4, getJobIs
  <2> QED BY <1>1, <1>4, <1>5, <1>7, <1>12, <2>1 DEF Known
<1>14. Gone'
  <2> SUFFICES ASSUME count'.faults = 0, NEW k \in seen'.deleted, k \notin seen'.listed
               PROVE  k \notin Anywhere'
    BY DEF Gone
  <2>1. disk' = im /\ count.faults = 0
    BY <1>9
  <2>2. CASE k # j
    BY <1>1, <1>5, <1>7, <1>12, <2>1, <2>2 DEF Gone
  <2>3. CASE k = j
    <3>1. k \notin IdsOf(jobs') /\ k \notin IdsOf(disk')
      BY <1>6, <1>8, <2>1, <2>3 DEF IdsOf
    <3>2. \A f \in Fibers : k \notin Listed(f)'
      BY <1>5, <1>7, <1>11, <2>3
    <3> QED BY <3>1, <3>2 DEF Anywhere
  <2> QED BY <2>2, <2>3
<1>15. OneHand' /\ Down' /\ SurplusNeedsCause'
  BY <1>1, <1>4, <1>5, <1>7, <1>11 DEF OneHand, Down, SurplusNeedsCause
<1>16. Plain'
  <2> SUFFICES ASSUME NEW k \in Jobs, k \notin seen'.excused
               PROVE  /\ schedule'[k] = "every"
                      /\ \A i \in DOMAIN disk' : disk'[i].id = k => disk'[i].schedule = "every"
    BY DEF Plain
  <2>1. k \notin seen.excused
    BY <1>5, <1>7
  <2> QED BY <1>1, <1>4, <1>8, <1>9, <2>1 DEF Plain
<1>17. ASSUME NEW k \in Jobs, k \notin seen'.excused, Owed(k)' PROVE seen'.spare[k] > 0
  <2>1. k \notin seen.excused
    BY <1>5, <1>7, <1>17
  <2>2. Running(k)' = Running(k) /\ \A f \in Fibers : Awaits(f, k)' = Awaits(f, k)
    BY <1>4 DEF Running, IsIdle, Awaits
  <2>3. DueInMap(k)' => DueInMap(k)
    BY <1>4, <1>6 DEF DueInMap
  <2>4. DueOnDisk(k)' => DueInMap(k) \/ DueOnDisk(k)
    <3>1. CASE disk' = im
      <4>1. DueOnDisk(k)' => DueInMap(k)'
        BY <1>8, <3>1 DEF DueOnDisk, DueInMap
      <4> QED BY <2>3, <4>1
    <3>2. CASE disk' = disk
      BY <3>2 DEF DueOnDisk
    <3> QED BY <1>9, <3>1, <3>2
  <2>5. Owed(k)
    BY <1>17, <2>2, <2>3, <2>4 DEF Owed
  <2> QED BY <1>1, <1>5, <1>7, <2>1, <2>5 DEF Entitled
<1> QED BY <1>10, <1>13, <1>14, <1>15, <1>16, <1>17 DEF SchedInv, Entitled

\* A process that is gone: the jobs whose runs it cut are excused.
LEMMA DiesKeepsSched ==
    ASSUME SchedInv, Dies, count' \in Counts, count'.faults = count.faults
    PROVE  SchedInv'
<1>1. /\ TypeOK /\ Distinct /\ Known /\ Gone /\ OneHand /\ Plain /\ Entitled
      /\ SurplusNeedsCause /\ fiber \in [Fibers -> Frames]
  BY DEF SchedInv, TypeOK
<1> DEFINE cut == {Head(fiber[f].list).id : f \in {g \in Fibers : ~IsIdle(g)}}
<1>2. /\ up' = FALSE /\ fiber' = [f \in Fibers |-> Idle] /\ engine' = Stopped
      /\ seen' = [seen EXCEPT !.excused = seen.excused \cup cut]
      /\ UNCHANGED <<jobs, version, schedule, disk, created>>
  BY DEF Dies
<1>3. cut \subseteq Jobs
  <2> SUFFICES ASSUME NEW f \in Fibers, fiber[f].list # <<>>
               PROVE  Head(fiber[f].list).id \in Jobs
    BY DEF IsIdle
  <2>1. fiber[f].list \in Seq(Refs)
    BY <1>1 DEF Frames
  <2>2. Head(fiber[f].list) \in Refs
    BY <2>1
  <2> QED BY <2>2 DEF Refs
<1>4. \A k \in Jobs : Running(k) => k \in cut
  BY DEF Running
<1> HIDE DEF cut
<1>5. /\ seen' \in Memories
      /\ seen'.deleted = seen.deleted /\ seen'.listed = seen.listed
      /\ seen'.surplus = seen.surplus /\ seen'.spare = seen.spare
      /\ seen'.excused = seen.excused \cup cut
  <2>1. seen \in Memories /\ seen.excused \cup cut \in SUBSET Jobs
    BY <1>1, <1>3 DEF TypeOK, Memories
  <2> QED BY <1>2, <2>1 DEF Memories
<1>6. \A f \in Fibers : fiber'[f] \in Frames /\ fiber'[f].list = <<>>
  BY <1>2 DEF Idle, Frames, Kinds
<1>7. \A f \in Fibers : Listed(f)' = {} /\ DOMAIN fiber'[f].list = {}
  BY <1>6 DEF Listed, IdsOf
<1>8. TypeOK'
  BY <1>1, <1>2, <1>5, <1>6 DEF TypeOK, Stopped
<1>9. Distinct' /\ OneHand' /\ Down'
  BY <1>1, <1>2, <1>6, <1>7 DEF Distinct, OnceIn, OneHand, Down, IsIdle
<1>10. Anywhere' \subseteq Anywhere
  BY <1>2, <1>7 DEF Anywhere, IdsOf
<1>11. Known' /\ Gone' /\ Plain' /\ SurplusNeedsCause'
  BY <1>1, <1>2, <1>5, <1>10 DEF Known, Gone, Plain, SurplusNeedsCause
<1>12. ASSUME NEW k \in Jobs, k \notin seen'.excused, Owed(k)' PROVE seen'.spare[k] > 0
  <2>1. ~Running(k) /\ k \notin seen.excused
    BY <1>4, <1>5, <1>12
  <2>2. \A f \in Fibers : ~Awaits(f, k)'
    BY <1>7 DEF Awaits
  <2>3. DueInMap(k) \/ DueOnDisk(k)
    BY <1>2, <1>12, <2>2 DEF Owed, DueInMap, DueOnDisk
  <2> QED BY <1>1, <1>5, <2>1, <2>3 DEF Entitled, Owed
<1> QED BY <1>8, <1>9, <1>11, <1>12 DEF SchedInv, Entitled

\* A loop that cannot compute a next run ends: the schedule that it ran into excuses
\* the job.
LEMMA NoNextRunKeepsSched ==
    ASSUME SchedInv, NEW f \in Fibers, NoNextRun(f)
    PROVE  SchedInv'
<1>1. /\ TypeOK /\ Distinct /\ Known /\ Gone /\ OneHand /\ Down /\ Plain /\ Entitled
      /\ SurplusNeedsCause /\ fiber \in [Fibers -> Frames]
  BY DEF SchedInv, TypeOK
<1>2. count' = count /\ count' \in Counts
  BY <1>1 DEF NoNextRun, TypeOK
<1>3. CASE Dies
  BY <1>2, <1>3, DiesKeepsSched
<1>4. CASE ~Dies
  <2>1. /\ up /\ fiber[f].list # <<>> /\ schedule[Head(fiber[f].list).id] = "bad"
        /\ fiber' = [fiber EXCEPT ![f] = Idle]
        /\ UNCHANGED <<up, jobs, version, schedule, disk, engine, created>>
    BY <1>4 DEF NoNextRun, IsIdle
  <2>2. PICK broken \in BOOLEAN : seen' = [seen EXCEPT !.broken = broken]
    <3> DEFINE broken == seen.broken \/ fiber[f].kind = "catchup"
    <3>1. seen' = [seen EXCEPT !.broken = broken]
      BY <1>4 DEF NoNextRun
    <3>2. seen.broken \in BOOLEAN
      BY <1>1 DEF TypeOK, Memories
    <3>3. broken \in BOOLEAN
      BY <3>2
    <3> HIDE DEF broken
    <3> QED BY <3>1, <3>3
  <2>3. /\ seen' \in Memories
        /\ seen'.deleted = seen.deleted /\ seen'.listed = seen.listed
        /\ seen'.surplus = seen.surplus /\ seen'.spare = seen.spare
        /\ seen'.excused = seen.excused
    BY <1>1, <2>2 DEF TypeOK, Memories
  <2>4. Idle \in Frames /\ Idle.list = <<>>
    BY DEF Idle, Frames, Kinds
  <2>5. /\ fiber' \in [Fibers -> Frames] /\ fiber'[f].list = <<>>
        /\ \A g \in Fibers \ {f} : fiber'[g] = fiber[g]
    BY <1>1, <2>1, <2>4
  <2>6. /\ Listed(f)' = {} /\ DOMAIN fiber'[f].list = {}
        /\ \A g \in Fibers \ {f} : Listed(g)' = Listed(g)
    BY <2>5 DEF Listed, IdsOf
  <2>7. TypeOK' /\ Distinct'
    BY <1>1, <1>2, <2>1, <2>3, <2>5, <2>6 DEF TypeOK, Distinct, OnceIn
  <2>8. Anywhere' \subseteq Anywhere
    BY <2>1, <2>6 DEF Anywhere, IdsOf
  <2>9. Known' /\ Gone' /\ Plain' /\ SurplusNeedsCause' /\ Down'
    BY <1>1, <1>2, <2>1, <2>3, <2>8 DEF Known, Gone, Plain, SurplusNeedsCause, Down
  <2>10. OneHand'
    BY <1>1, <2>3, <2>6 DEF OneHand
  <2>11. ASSUME NEW k \in Jobs, k \notin seen'.excused, Owed(k)' PROVE seen'.spare[k] > 0
    <3>1. schedule[k] = "every"
      BY <1>1, <2>3, <2>11 DEF Plain
    <3>2. ASSUME Running(k) PROVE Running(k)'
      <4>1. PICK g \in Fibers : fiber[g].list # <<>> /\ Head(fiber[g].list).id = k
        BY <3>2 DEF Running, IsIdle
      <4>2. g # f
        BY <2>1, <3>1, <4>1
      <4> QED BY <2>5, <4>1, <4>2 DEF Running, IsIdle
    <3>3. ASSUME NEW g \in Fibers, Awaits(g, k)' PROVE Awaits(g, k)
      <4>1. g # f
        BY <2>6, <3>3 DEF Awaits
      <4> QED BY <2>1, <2>5, <3>3, <4>1 DEF Awaits
    <3>4. DueInMap(k)' = DueInMap(k) /\ DueOnDisk(k)' = DueOnDisk(k)
      BY <2>1 DEF DueInMap, DueOnDisk
    <3>5. Owed(k)
      BY <2>11, <3>2, <3>3, <3>4 DEF Owed
    <3> QED BY <1>1, <2>3, <2>11, <3>5 DEF Entitled
  <2> QED BY <2>7, <2>9, <2>10, <2>11 DEF SchedInv, Entitled
<1> QED BY <1>3, <1>4

\* A job comes due, and is entitled to a run.
LEMMA TimePassesKeepsSched ==
    ASSUME SchedInv, NEW j \in Jobs, TimePasses(j)
    PROVE  SchedInv'
<1>1. /\ TypeOK /\ Distinct /\ Known /\ Gone /\ OneHand /\ Down /\ Plain /\ Entitled
      /\ SurplusNeedsCause
  BY DEF SchedInv
<1> DEFINE late(plan) == IF plan = "ahead" THEN "past" ELSE plan
           row == [v \in Versions |-> [version[j][v] EXCEPT !.next = "due"]]
           after(r) == IF r.id # j THEN r
                       ELSE [r EXCEPT !.object = [r.object EXCEPT !.next = "due"],
                                      !.schedule = late(r.schedule)]
           sp == [seen.spare EXCEPT ![j] = seen.spare[j] + 1]
<1>2. /\ version' = [version EXCEPT ![j] = row]
      /\ schedule' = [schedule EXCEPT ![j] = late(schedule[j])]
      /\ disk' = [i \in DOMAIN disk |-> after(disk[i])]
      /\ count' = [count EXCEPT !.due = count.due + 1]
      /\ seen' = [seen EXCEPT !.spare = sp]
      /\ UNCHANGED <<up, jobs, fiber, engine, created>>
  BY DEF TimePasses
<1>3. row \in [Versions -> Objects]
  <2>1. \A v \in Versions : version[j][v] \in Objects
    BY <1>1 DEF TypeOK
  <2> QED BY <2>1 DEF Objects
<1> HIDE DEF row
<1>4. /\ version' \in [Jobs -> [Versions -> Objects]]
      /\ \A k \in Jobs \ {j} : version'[k] = version[k]
  BY <1>1, <1>2, <1>3 DEF TypeOK
<1>5. \A plan \in Schedules : late(plan) \in Schedules /\ (plan = "every" => late(plan) = "every")
  BY DEF Schedules
<1> HIDE DEF late
<1>6. /\ schedule' \in [Jobs -> Schedules]
      /\ \A k \in Jobs : schedule[k] = "every" => schedule'[k] = "every"
  BY <1>1, <1>2, <1>5 DEF TypeOK
<1>7. ASSUME NEW r \in Rows
      PROVE  /\ after(r) \in Rows /\ after(r).id = r.id
             /\ r.id # j => after(r) = r
             /\ r.schedule = "every" => after(r).schedule = "every"
  <2>1. CASE r.id # j
    BY <1>7, <2>1
  <2>2. CASE r.id = j
    <3>1. [r.object EXCEPT !.next = "due"] \in Objects
      BY <1>7 DEF Rows, Objects
    <3>2. late(r.schedule) \in Schedules /\ (r.schedule = "every" => late(r.schedule) = "every")
      BY <1>5, <1>7 DEF Rows
    <3> QED BY <1>7, <2>2, <3>1, <3>2 DEF Rows
  <2> QED BY <2>1, <2>2
<1> HIDE DEF after
<1>8. /\ disk' \in Seq(Rows) /\ DOMAIN disk' = DOMAIN disk
      /\ \A i \in DOMAIN disk :
            /\ disk'[i].id = disk[i].id
            /\ disk[i].id # j => disk'[i] = disk[i]
            /\ disk[i].schedule = "every" => disk'[i].schedule = "every"
  <2>1. disk \in Seq(Rows)
    BY <1>1 DEF TypeOK
  <2>2. \A i \in DOMAIN disk : disk[i] \in Rows
    BY <2>1
  <2>3. disk' \in Seq(Rows) /\ DOMAIN disk' = DOMAIN disk
        /\ \A i \in DOMAIN disk : disk'[i] = after(disk[i])
    BY <1>2, <1>7, <2>1, <2>2
  <2> QED BY <1>7, <2>2, <2>3
<1>9. /\ count' \in Counts /\ count'.faults = count.faults
  <2>1. count \in Counts
    BY <1>1 DEF TypeOK
  <2>2. count' = [count EXCEPT !.due = count.due + 1]
    BY <1>2
  <2> QED BY <2>1, <2>2 DEF Counts
<1>10. seen.spare \in [Jobs -> Nat]
  BY <1>1 DEF TypeOK, Memories
<1>11. sp \in [Jobs -> Nat] /\ sp[j] > 0 /\ \A k \in Jobs \ {j} : sp[k] = seen.spare[k]
  BY <1>10
<1> HIDE DEF sp
<1>12. /\ seen' \in Memories /\ seen'.spare = sp
       /\ seen'.deleted = seen.deleted /\ seen'.listed = seen.listed
       /\ seen'.surplus = seen.surplus /\ seen'.excused = seen.excused
  BY <1>1, <1>2, <1>11 DEF TypeOK, Memories
<1>13. TypeOK'
  BY <1>1, <1>2, <1>4, <1>6, <1>8, <1>9, <1>12 DEF TypeOK
<1>14. Distinct'
  BY <1>1, <1>2, <1>8 DEF Distinct, OnceIn
<1>15. Anywhere' = Anywhere
  <2>1. IdsOf(disk') = IdsOf(disk)
    BY <1>8 DEF IdsOf
  <2>2. IdsOf(jobs)' = IdsOf(jobs) /\ \A f \in Fibers : Listed(f)' = Listed(f)
    BY <1>2 DEF IdsOf, Listed
  <2> QED BY <2>1, <2>2 DEF Anywhere
<1>16. Known' /\ Gone'
  BY <1>1, <1>2, <1>9, <1>12, <1>15 DEF Known, Gone
<1>17. OneHand' /\ Down' /\ SurplusNeedsCause'
  BY <1>1, <1>2, <1>12 DEF OneHand, Listed, Down, IsIdle, SurplusNeedsCause
<1>18. Plain'
  BY <1>1, <1>6, <1>8, <1>12 DEF Plain
<1>19. ASSUME NEW k \in Jobs, k \notin seen'.excused, Owed(k)' PROVE seen'.spare[k] > 0
  <2>1. CASE k = j
    BY <1>11, <1>12, <2>1
  <2>2. CASE k # j
    <3>1. DueInMap(k)' = DueInMap(k) /\ Running(k)' = Running(k)
      BY <1>2, <1>4, <2>2 DEF DueInMap, Running, IsIdle
    <3>2. DueOnDisk(k)' => DueOnDisk(k)
      BY <1>8, <2>2 DEF DueOnDisk
    <3>3. \A f \in Fibers : Awaits(f, k)' = Awaits(f, k)
      BY <1>2, <1>4, <2>2 DEF Awaits
    <3>4. Owed(k)
      BY <1>19, <3>1, <3>2, <3>3 DEF Owed
    <3> QED BY <1>1, <1>11, <1>12, <1>19, <2>2, <3>4 DEF Entitled
  <2> QED BY <2>1, <2>2
<1> QED BY <1>13, <1>14, <1>16, <1>17, <1>18, <1>19 DEF SchedInv, Entitled

\* The process dies for a reason of its own.
LEMMA CrashKeepsSched ==
    ASSUME SchedInv, Crash
    PROVE  SchedInv'
<1>1. count' \in Counts /\ count'.faults = count.faults
  <2>1. count \in Counts
    BY DEF SchedInv, TypeOK
  <2>2. count' = [count EXCEPT !.crashes = count.crashes + 1]
    BY DEF Crash
  <2> QED BY <2>1, <2>2 DEF Counts
<1> QED BY <1>1, DiesKeepsSched DEF Crash

\* Job k is in the file with that schedule.
FiledAs(k, plan) == \E i \in DOMAIN disk : disk[i].id = k /\ plan = disk[i].schedule

\* What a process finds in jobs.json becomes its map.
LEMMA loadFromDiskIs ==
    ASSUME TypeOK, Distinct, loadFromDisk
    PROVE  /\ jobs' \in Seq(Refs) /\ OnceIn(jobs)' /\ IdsOf(jobs)' = IdsOf(disk)
           /\ version' \in [Jobs -> [Versions -> Objects]]
           /\ schedule' \in [Jobs -> Schedules]
           /\ \A k \in Jobs : DueInMap(k)' => DueOnDisk(k)
           /\ \A k \in Jobs : \/ schedule'[k] = "every"
                              \/ FiledAs(k, schedule'[k])
<1>1. disk \in Seq(Rows) /\ OnceIn(disk)
  BY DEF TypeOK, Distinct
<1>2. \A i \in DOMAIN disk : disk[i] \in Rows /\ disk[i].id \in Jobs
  <2>1. \A i \in DOMAIN disk : disk[i] \in Rows
    BY <1>1
  <2>2. \A r \in Rows : r.id \in Jobs
    BY DEF Rows
  <2> QED BY <2>1, <2>2
<1>3. 1 \in Versions /\ Blank \in Objects
  BY SchedulerAssumption DEF Versions, Blank, Objects
<1>4. /\ jobs' \in Seq(Refs) /\ DOMAIN jobs' = DOMAIN disk
      /\ \A i \in DOMAIN disk : jobs'[i].id = disk[i].id /\ jobs'[i].v = 1
  <2>1. jobs' = [i \in DOMAIN disk |-> Ref(disk[i].id, 1)]
    BY DEF loadFromDisk
  <2>2. \A i \in DOMAIN disk : Ref(disk[i].id, 1) \in Refs
    BY <1>2, <1>3 DEF Ref, Refs
  <2>3. \A i \in DOMAIN disk : Ref(disk[i].id, 1).id = disk[i].id /\ Ref(disk[i].id, 1).v = 1
    BY DEF Ref
  <2>4. DOMAIN disk = 1 .. Len(disk) /\ Len(disk) \in Nat
    BY <1>1
  <2> QED BY <2>1, <2>2, <2>3, <2>4
<1>5. OnceIn(jobs)' /\ IdsOf(jobs)' = IdsOf(disk)
  BY <1>1, <1>4 DEF OnceIn, IdsOf
<1> DEFINE row(k) == CHOOSE r \in Range(disk) : r.id = k
<1>6. ASSUME NEW i \in DOMAIN disk PROVE row(disk[i].id) = disk[i]
  <2>1. disk[i] \in Range(disk) /\ \A r \in Range(disk) : r.id = disk[i].id => r = disk[i]
    BY <1>1 DEF Range, OnceIn
  <2> QED BY <2>1
<1>7. \A k \in Jobs : version'[k] = [v \in Versions |->
          IF v = 1 /\ \E i \in DOMAIN disk : disk[i].id = k THEN row(k).object ELSE Blank]
  BY DEF loadFromDisk
<1>8. \A k \in Jobs : schedule'[k] = IF \E i \in DOMAIN disk : disk[i].id = k
                                     THEN row(k).schedule ELSE "every"
  BY DEF loadFromDisk
<1>9. DOMAIN version' = Jobs /\ DOMAIN schedule' = Jobs
      /\ version' = [k \in Jobs |-> version'[k]] /\ schedule' = [k \in Jobs |-> schedule'[k]]
  BY DEF loadFromDisk
<1> HIDE DEF row
<1>10. \A k \in Jobs : version'[k] \in [Versions -> Objects]
  <2> SUFFICES ASSUME NEW k \in Jobs PROVE version'[k] \in [Versions -> Objects]
    OBVIOUS
  <2>1. CASE \E i \in DOMAIN disk : disk[i].id = k
    <3>1. row(k).object \in Objects
      BY <1>2, <1>6, <2>1 DEF Rows
    <3> QED BY <1>3, <1>7, <3>1
  <2>2. CASE ~\E i \in DOMAIN disk : disk[i].id = k
    BY <1>3, <1>7, <2>2
  <2> QED BY <2>1, <2>2
<1>11. \A k \in Jobs : /\ schedule'[k] \in Schedules
                       /\ \/ schedule'[k] = "every"
                          \/ FiledAs(k, schedule'[k])
  <2> SUFFICES ASSUME NEW k \in Jobs
               PROVE  /\ schedule'[k] \in Schedules
                      /\ \/ schedule'[k] = "every"
                         \/ FiledAs(k, schedule'[k])
    OBVIOUS
  <2>1. ASSUME NEW i \in DOMAIN disk, disk[i].id = k
        PROVE  schedule'[k] = disk[i].schedule /\ disk[i].schedule \in Schedules
    BY <1>2, <1>6, <1>8, <2>1 DEF Rows
  <2>2. CASE ~\E i \in DOMAIN disk : disk[i].id = k
    BY <1>8, <2>2 DEF Schedules
  <2> QED BY <2>1, <2>2 DEF FiledAs
<1>12. ASSUME NEW k \in Jobs, DueInMap(k)' PROVE DueOnDisk(k)
  <2>1. PICK i \in DOMAIN disk : disk[i].id = k /\ version'[k][1].next = "due"
    BY <1>4, <1>12 DEF DueInMap
  <2>2. version'[k][1] = disk[i].object
    BY <1>3, <1>6, <1>7, <2>1
  <2> QED BY <2>1, <2>2 DEF DueOnDisk
<1>13. version' \in [Jobs -> [Versions -> Objects]] /\ schedule' \in [Jobs -> Schedules]
  BY <1>9, <1>10, <1>11
<1> QED BY <1>4, <1>5, <1>11, <1>12, <1>13

\* A restart: nothing is in hand, and what is due in the new map was due in the
\* file.
LEMMA BootKeepsSched ==
    ASSUME SchedInv, Boot
    PROVE  SchedInv'
<1>1. /\ TypeOK /\ Distinct /\ Known /\ Gone /\ OneHand /\ Down /\ Plain /\ Entitled
      /\ SurplusNeedsCause
  BY DEF SchedInv
<1>2. /\ ~up /\ up' = TRUE /\ loadFromDisk
      /\ UNCHANGED <<disk, fiber, engine, created, count, seen>>
  BY DEF Boot
<1>3. /\ jobs' \in Seq(Refs) /\ OnceIn(jobs)' /\ IdsOf(jobs)' = IdsOf(disk)
      /\ version' \in [Jobs -> [Versions -> Objects]]
      /\ schedule' \in [Jobs -> Schedules]
      /\ \A k \in Jobs : DueInMap(k)' => DueOnDisk(k)
      /\ \A k \in Jobs : \/ schedule'[k] = "every"
                         \/ FiledAs(k, schedule'[k])
  BY <1>1, <1>2, loadFromDiskIs
<1>4. TypeOK'
  BY <1>1, <1>2, <1>3 DEF TypeOK
<1>5. Distinct'
  BY <1>1, <1>2, <1>3 DEF Distinct, OnceIn
<1>6. Anywhere' \subseteq Anywhere
  <2>1. IdsOf(disk)' = IdsOf(disk) /\ \A f \in Fibers : Listed(f)' = Listed(f)
    BY <1>2 DEF IdsOf, Listed
  <2> QED BY <1>3, <2>1 DEF Anywhere
<1>7. Known' /\ Gone'
  BY <1>1, <1>2, <1>6 DEF Known, Gone
<1>8. OneHand' /\ Down' /\ SurplusNeedsCause'
  BY <1>1, <1>2 DEF OneHand, Listed, IdsOf, Down, IsIdle, SurplusNeedsCause
<1>9. Plain'
  BY <1>1, <1>2, <1>3 DEF Plain, FiledAs
<1>10. \A f \in Fibers : fiber[f].list = <<>>
  BY <1>1, <1>2 DEF Down, IsIdle
<1>11. \A k \in Jobs : ~Running(k) /\ \A f \in Fibers : ~Awaits(f, k)'
  BY <1>2, <1>10 DEF Running, IsIdle, Awaits
<1>12. \A k \in Jobs : DueOnDisk(k)' = DueOnDisk(k)
  BY <1>2 DEF DueOnDisk
<1>13. \A k \in Jobs : Owed(k)' => Owed(k)
  BY <1>3, <1>11, <1>12 DEF Owed
<1>14. Entitled'
  BY <1>1, <1>2, <1>13 DEF Entitled
<1> QED BY <1>4, <1>5, <1>7, <1>8, <1>9, <1>14 DEF SchedInv

\* What changes nothing changes nothing.
LEMMA StutterKeepsSched ==
    ASSUME SchedInv, UNCHANGED vars
    PROVE  SchedInv'
<1>1. TypeOK /\ UNCHANGED <<up, jobs, version, schedule, disk, fiber, engine, created, count, seen>>
  BY DEF SchedInv, vars
<1>2. TypeOK'
  BY <1>1 DEF TypeOK
<1> QED BY <1>1, <1>2, RestKeeps

-----------------------------------------------------------------------------
(* The theorems.                                                           *)

\* Before the first job there is nothing to run.
LEMMA InitHolds ==
    ASSUME Init
    PROVE  SchedInv
<1>1. TypeOK
  <2>1. fiber \in [Fibers -> Frames] /\ version \in [Jobs -> [Versions -> Objects]]
    BY DEF Init, Idle, Frames, Kinds, Blank, Objects
  <2>2. engine \in [running: BOOLEAN, timer: BOOLEAN, leaked: BOOLEAN] /\ count \in Counts
    BY DEF Init, Stopped, Counts
  <2>3. seen \in Memories /\ schedule \in [Jobs -> Schedules]
    BY DEF Init, Memories, Schedules
  <2>4. created \in 0 .. MaxJobs
    BY SchedulerAssumption DEF Init
  <2> QED BY <2>1, <2>2, <2>3, <2>4 DEF Init, TypeOK
<1>2. /\ DOMAIN jobs = {} /\ DOMAIN disk = {}
      /\ \A f \in Fibers : fiber[f].list = <<>> /\ DOMAIN fiber[f].list = {}
      /\ seen.surplus = {} /\ seen.deleted = {}
  BY DEF Init, Idle
<1>3. Anywhere = {} /\ \A f \in Fibers : Listed(f) = {}
  BY <1>2 DEF Anywhere, Listed, IdsOf
<1>4. Distinct /\ Known /\ Gone /\ OneHand /\ Down /\ SurplusNeedsCause
  BY <1>2, <1>3 DEF Distinct, OnceIn, Known, Gone, OneHand, Down, IsIdle, SurplusNeedsCause
<1>5. Plain
  BY <1>2 DEF Plain, Init
<1>6. Entitled
  BY <1>2 DEF Entitled, Owed, DueInMap, DueOnDisk, Awaits
<1> QED BY <1>1, <1>4, <1>5, <1>6 DEF SchedInv

\* A loop's own step: it begins, is answered, or finds no next date.
LEMMA LoopSteps ==
    ASSUME SchedInv, NEW f \in Fibers, start(f) \/ LoopStep(f)
    PROVE  SchedInv'
BY startKeepsSched, tickKeepsSched, DeliveredKeepsSched, NoNextRunKeepsSched DEF LoopStep

\* A call of the tool.
LEMMA ToolSteps ==
    ASSUME SchedInv, NEW j \in Jobs, Tool(j)
    PROVE  SchedInv'
<1>1. CASE \E plan \in Schedules, enabled \in BOOLEAN : create(j, plan, enabled)
  BY <1>1, createKeepsSched
<1>2. CASE \E enabled \in BOOLEAN : updateEnabled(j, enabled)
  BY <1>2, updateEnabledKeepsSched
<1>3. CASE \E plan \in Schedules : updateSchedule(j, plan)
  BY <1>3, updateScheduleKeepsSched
<1>4. CASE updateThrows(j) \/ delete(j)
  BY <1>4, updateThrowsKeepsSched, deleteKeepsSched
<1>5. CASE \E f \in Fibers : run_now(f, j)
  BY <1>5, run_nowKeepsSched
<1> QED BY <1>1, <1>2, <1>3, <1>4, <1>5 DEF Tool

\* The invariant, which every step keeps: a job that may not run too often has a
\* run left whenever it is due in memory, due in the file or waits in a loop,
\* and only one loop has it.
THEOREM SchedInvHolds == Spec => []SchedInv
<1>1. ASSUME SchedInv, [Next]_vars PROVE SchedInv'
  <2>1. CASE stop \/ Crash \/ Boot
    BY <1>1, <2>1, stopKeepsSched, CrashKeepsSched, BootKeepsSched
  <2>2. CASE \E f \in Fibers : start(f) \/ LoopStep(f)
    BY <1>1, <2>2, LoopSteps
  <2>3. CASE \E j \in Jobs : Tool(j) \/ TimePasses(j)
    BY <1>1, <2>3, ToolSteps, TimePassesKeepsSched
  <2>4. CASE UNCHANGED vars
    BY <1>1, <2>4, StutterKeepsSched
  <2> QED BY <1>1, <2>1, <2>2, <2>3, <2>4 DEF Next
<1> QED BY <1>1, InitHolds, PTL DEF Spec

\* Type correctness, for any jobs, loops, calls, failed writes and crashes.
THEOREM SchedulerTypes == Spec => []TypeOK
<1>1. SchedInv => TypeOK
  BY DEF SchedInv
<1> QED BY <1>1, SchedInvHolds, PTL

\* A job on an interval runs more often than it came due or was asked for only
\* if two loops had it in hand at once, a crash cut its run, jobs.json could
\* not be written, or its schedule was ever another one.
THEOREM SurplusHasCause == Spec => []SurplusNeedsCause
<1>1. SchedInv => SurplusNeedsCause
  BY DEF SchedInv
<1> QED BY <1>1, SchedInvHolds, PTL

\* A deleted job comes back, in this process or after a restart, only if a loop
\* had it in hand when it was deleted, or a write of jobs.json failed.
THEOREM DeletedNeverReturns == Spec => []DeletedStaysGone
<1>1. ASSUME SchedInv PROVE DeletedStaysGone
  <2> SUFFICES ASSUME NEW j \in seen.deleted, InMap(j), j \notin seen.listed,
                      ~(count.faults > 0)
               PROVE  FALSE
    BY DEF DeletedStaysGone
  <2>1. count.faults = 0
    BY <1>1 DEF SchedInv, TypeOK, Counts
  <2>2. j \in Anywhere
    BY DEF InMap, Position, Anywhere, IdsOf
  <2> QED BY <1>1, <2>1, <2>2 DEF SchedInv, Gone
<1> QED BY <1>1, SchedInvHolds, PTL
==============================================================================
