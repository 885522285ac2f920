-------------------------- MODULE TaskRunners_proofs --------------------------
(***************************************************************************)
(* What the handlers and the workers of TaskOS leave behind them, for      *)
(* every set of tasks and every finite set of handlers: a running row has  *)
(* somebody at work on it, a rejected /run task was never started, an open *)
(* session is kept, and results are sent no more often than faults and     *)
(* crashes explain.  Four groups of facts make these inductive: what each  *)
(* frame and row looks like (Fit), how the sessions and the rejections of  *)
(* a task go with the handlers at work on it (Tied), the account of the    *)
(* sends (SendsCounted), and RunningIsAlive itself.                        *)
(***************************************************************************)
EXTENDS TaskLedger_proofs

-----------------------------------------------------------------------------
(* The parts of the invariant.                                             *)

\* The frame of a handler: it works on no research, a /run copy never has a
\* session, and the status of the copy goes with where the handler is.
FrameFits(f) ==
    /\ f.pc # "idle" => Kind[f.task] # "research"
    /\ f.pc # "idle" /\ Kind[f.task] = "run" => ~f.mem.session
    /\ f.pc = "preparing" => f.mem.status = "parsed"
    /\ f.pc = "executing" => f.mem.status = "running"
    /\ f.pc = "apologising" => f.mem.status \in Terminal

ResearchFits(f) ==
    /\ f.pc # "idle" => Kind[f.task] = "research" /\ ~f.mem.session
    /\ f.pc = "searching" => f.mem.status = "running"
    /\ f.pc \in {"delivering", "accepted"} => f.mem.status = "delivery_pending"

\* The jules worker has a session in hand until it reports a failure.
JulesFits(f) ==
    /\ f.pc # "idle" => Kind[f.task] = "jules"
    /\ f.pc \in {"inspecting", "delivering", "accepted"} => f.mem.session
    /\ f.pc = "inspecting" =>
          f.mem.status \in {"waiting_approval", "running", "delivery_pending"}
    /\ f.pc \in {"delivering", "accepted"} => f.mem.status = "delivery_pending"

ResearchStatuses == {"pending", "running", "delivery_pending", "completed", "failed"}

\* A copy that may be written to the row of t.
CopyFits(t, copy) ==
    /\ Kind[t] = "research" => copy.status \in ResearchStatuses
    /\ Kind[t] # "jules" => ~copy.session
    /\ Kind[t] # "research" /\ copy.status = "delivery_pending" => copy.session

Fit == /\ \A h \in Handlers : FrameFits(chat[h])
       /\ ResearchFits(research)
       /\ JulesFits(jules)
       /\ \A t \in Tasks : Exists(t) => CopyFits(t, row[t])

\* Handler h will still write a copy of t that closes nothing.
Acts(h, t) == /\ chat[h].pc \in {"preparing", "notifying", "executing"}
              /\ chat[h].task = t

Tracks(t) == /\ jules.pc \in {"inspecting", "delivering", "accepted"}
             /\ jules.task = t

Open(t) == Exists(t) /\ row[t].status \notin Terminal

\* While t is open, whoever will write it knows its session; without one at
\* most one handler is at work on t, and none while t waits for approval.
SessionTied(t) ==
    Open(t) =>
        /\ row[t].session => \A h \in Handlers : Acts(h, t) => chat[h].mem.session
        /\ Tracks(t) => row[t].session
        /\ ~row[t].session =>
              /\ \A h, g \in Handlers : Acts(h, t) /\ Acts(g, t) => h = g
              /\ row[t].status = "waiting_approval" => \A h \in Handlers : ~Acts(h, t)

\* A /run task that waits was not started, and a rejected one is closed and
\* has no handler that could start it.
RejectionTied(t) ==
    Kind[t] = "run" =>
        /\ HasStatus(t, {"waiting_approval"}) => log[t].launches = 0
        /\ log[t].rejected => /\ HasStatus(t, Terminal) /\ log[t].launches = 0
                              /\ \A h \in Handlers : ~Acts(h, t)

Tied(t) == SessionTied(t) /\ RejectionTied(t)

\* A worker has t in hand and has not sent its result yet.
InHand(t) ==
    \/ research.pc \in {"searching", "delivering"} /\ research.task = t
    \/ jules.pc \in {"inspecting", "delivering"} /\ jules.task = t

\* The chat took the result of t in a delivery that has not failed.
Taken(t) == \/ research.pc = "accepted" /\ research.task = t
            \/ jules.pc = "accepted" /\ jules.task = t

Answered(t) == ~InHand(t) /\ (HasStatus(t, Terminal) \/ Taken(t))

\* Every send but the last was paid by a failed send or a crash, and the
\* last one too as long as the task may be sent again.
SendsPaid(t) ==
    log[t].sent <= log[t].faults + crashes + (IF Answered(t) THEN 1 ELSE 0)

\* A research is completed after its result was taken.
CompletionSent(t) ==
    Kind[t] = "research" /\ (HasStatus(t, {"completed"}) \/ Taken(t)) => log[t].sent > 0

SendsCounted(t) == SendsPaid(t) /\ CompletionSent(t)

RunnersInv ==
    /\ Inv /\ Fit
    /\ \A t \in Tasks : Tied(t) /\ SendsCounted(t)
    /\ RunningIsAlive

\* The step forgets no session of t while t is open.
KeepsSession(t) ==
    Exists(t) /\ row[t].session /\ row'[t].status \notin Terminal => row'[t].session

\* What every step is shown to do.
StepKeeps == RunnersInv' /\ \A t \in Tasks : KeepsSession(t)

-----------------------------------------------------------------------------
(* What a save leaves in a row.                                            *)

\* The row is new: the copy, or what it was with the session of the copy.
Merges(old, copy, new) ==
    \/ new = copy
    \/ /\ old # NoRow /\ new.status = old.status
       /\ new.session = (old.session \/ copy.session)
       /\ ~canTransition(old.status, copy.status)
       /\ copy.status \notin Terminal

\* The row of u, and no other, takes a copy that fits it.
Puts(u, copy) ==
    /\ OnlyRow(u) /\ Merges(row[u], copy, row'[u])
    /\ copy \in CopiesInUse /\ CopyFits(u, copy)

\* One save merges its copy.
LEMMA SavedMerges ==
    ASSUME NEW old \in CopiesInUse \cup {NoRow}, NEW copy \in CopiesInUse
    PROVE  Merges(old, copy, Saved(old, copy))
<1>1. CASE old = NoRow
  BY <1>1 DEF Saved, Merges
<1>2. CASE old # NoRow
  <2>1. old \in Copies /\ copy \in Copies /\ Saved(old, copy) = mergeTaskForPersistence(old, copy)
    BY <1>2 DEF Saved, CopiesInUse
  <2>2. CASE shouldPreservePersistedStatus(old.status, copy.status)
    <3>1. /\ Saved(old, copy).status = old.status
          /\ Saved(old, copy).session = (old.session \/ copy.session)
      BY <2>1, <2>2 DEF mergeTaskForPersistence, Copies
    <3>2. ~canTransition(old.status, copy.status)
      BY <2>2 DEF shouldPreservePersistedStatus
    <3>3. copy.status \notin Terminal
      <4>1. ASSUME copy.status \in Terminal PROVE FALSE
        <5>1. getRank(copy.status) = 9 /\ getRank(old.status) > getRank(copy.status)
          BY <2>2, <4>1 DEF shouldPreservePersistedStatus, getRank, Terminal
        <5>2. old.status \in FlowStatuses
          BY <1>2 DEF CopiesInUse
        <5>3. getRank(old.status) <= 9
          BY <5>2 DEF getRank, FlowStatuses, Terminal
        <5>4. \A m, n \in Nat : m = 9 /\ n <= 9 => ~(n > m)
          OBVIOUS
        <5>5. getRank(copy.status) \in Nat /\ getRank(old.status) \in Nat
          BY <5>2, <4>1 DEF getRank, FlowStatuses, Terminal
        <5> QED BY <5>1, <5>3, <5>4, <5>5
      <4> QED BY <4>1
    <3> QED BY <1>2, <3>1, <3>2, <3>3 DEF Merges
  <2>3. CASE ~shouldPreservePersistedStatus(old.status, copy.status)
    BY <2>1, <2>3 DEF mergeTaskForPersistence, Merges
  <2> QED BY <2>2, <2>3
<1> QED BY <1>1, <1>2

\* Two saves in one segment merge the second copy, when the second status
\* follows the first one and no session is lost in between.
LEMMA TwiceMerges ==
    ASSUME NEW old \in CopiesInUse \cup {NoRow},
           NEW first \in CopiesInUse, NEW second \in CopiesInUse,
           canTransition(first.status, second.status),
           first.session => second.session
    PROVE  Merges(old, second, Saved(Saved(old, first), second))
<1> DEFINE x == Saved(old, first)
           y == Saved(x, second)
<1>1. x \in CopiesInUse /\ Merges(old, first, x)
  BY SavedInUse, SavedMerges
<1>2. Merges(x, second, y) /\ first \in Copies /\ second \in Copies
  BY <1>1, SavedMerges DEF CopiesInUse
<1>3. first.session \in BOOLEAN /\ second.session \in BOOLEAN
  BY <1>2 DEF Copies
<1>a. old # NoRow => old.session \in BOOLEAN
  BY DEF CopiesInUse, Copies
<1> HIDE DEF x, y
<1>4. ASSUME x = first PROVE Merges(old, second, y)
  BY <1>2, <1>4 DEF Merges
<1>5. ASSUME x # first PROVE Merges(old, second, y)
  <2>1. old # NoRow /\ x.status = old.status /\ x.session = (old.session \/ first.session)
    BY <1>1, <1>5 DEF Merges
  <2>2. (x.session \/ second.session) = (old.session \/ second.session)
    BY <1>3, <1>a, <2>1
  <2> QED BY <1>2, <2>1, <2>2 DEF Merges
<1> QED BY <1>4, <1>5 DEF x, y

\* A save of a copy that fits is a put.
LEMMA SavePuts ==
    ASSUME IndInv, NEW u \in Tasks, NEW copy \in CopiesInUse, CopyFits(u, copy),
           Save(u, copy)
    PROVE  Puts(u, copy)
<1>1. OnlyRow(u)
  BY SavesOneRow
<1>2. row'[u] = Saved(row[u], copy)
  BY DEF Save, IndInv, TypeOK
<1>3. Merges(row[u], copy, Saved(row[u], copy))
  BY RowInUse, SavedMerges
<1> QED BY <1>1, <1>2, <1>3 DEF Puts

\* So are two saves of a copy that fits in the end.
LEMMA TwicePuts ==
    ASSUME IndInv, NEW u \in Tasks, NEW first \in CopiesInUse,
           NEW second \in CopiesInUse, CopyFits(u, second),
           canTransition(first.status, second.status),
           first.session => second.session,
           SaveTwice(u, first, second)
    PROVE  Puts(u, second)
<1>1. OnlyRow(u)
  BY SavesOneRow
<1>2. row'[u] = Saved(Saved(row[u], first), second)
  BY DEF SaveTwice, IndInv, TypeOK
<1>3. Merges(row[u], second, Saved(Saved(row[u], first), second))
  BY RowInUse, TwiceMerges
<1> QED BY <1>1, <1>2, <1>3 DEF Puts

\* Writing a copy as it is.
LEMMA WritePuts ==
    ASSUME IndInv, NEW u \in Tasks, NEW copy \in CopiesInUse, CopyFits(u, copy),
           row' = [row EXCEPT ![u] = copy]
    PROVE  Puts(u, copy)
<1>1. OnlyRow(u)
  BY SavesOneRow
<1>2. row'[u] = copy
  BY DEF IndInv, TypeOK
<1> QED BY <1>1, <1>2 DEF Puts, Merges

\* A copy that ends the task always lands.
LEMMA TerminalLands ==
    ASSUME NEW u \in Tasks, NEW copy, Puts(u, copy), copy.status \in Terminal
    PROVE  row'[u] = copy /\ row'[u] # NoRow
BY InUseExists DEF Puts, Merges

\* A put leaves rows that fit.
LEMMA PutFits ==
    ASSUME Fit, IndInv, NEW u \in Tasks, NEW copy, Puts(u, copy)
    PROVE  \A t \in Tasks : Exists(t)' => CopyFits(t, row'[t])
<1>1. \A t \in Tasks : t # u => row'[t] = row[t]
  BY DEF Puts, OnlyRow
<1>2. \A t \in Tasks : t # u /\ Exists(t)' => CopyFits(t, row'[t])
  BY <1>1 DEF Exists, Fit
<1>3. CASE row'[u] = copy
  BY <1>2, <1>3 DEF Puts
<1>4. CASE row'[u] # copy
  <2>1. /\ Exists(u) /\ row'[u].status = row[u].status
        /\ row'[u].session = (row[u].session \/ copy.session)
    BY <1>4 DEF Puts, Merges, Exists
  <2>2. CopyFits(u, row[u]) /\ CopyFits(u, copy)
    BY <2>1 DEF Fit, Puts
  <2>3. CopyFits(u, row'[u])
    BY <2>1, <2>2 DEF CopyFits
  <2> QED BY <1>2, <2>3
<1> QED BY <1>3, <1>4

\* A copy with a changed status keeps its session.
LEMMA AdvanceKeeps ==
    ASSUME NEW copy \in Copies, NEW s
    PROVE  /\ advanceState(copy, s).status = s
           /\ advanceState(copy, s).session = copy.session
BY DEF advanceState, Copies

-----------------------------------------------------------------------------
(* Steps that are not about t.                                             *)

\* The row of t is as open as it was, with its session, or it is closed.
CalmRow(t) ==
    \/ row'[t] = row[t]
    \/ /\ Exists(t) /\ Exists(t)'
       /\ row'[t].status = row[t].status /\ row'[t].session = row[t].session
    \/ Exists(t)' /\ row'[t].status \in Terminal

\* Nobody takes t up, the handlers at work on it keep their copies, and it
\* is neither started nor rejected.
Calm(t) ==
    /\ CalmRow(t)
    /\ \A h \in Handlers : Acts(h, t)' => /\ Acts(h, t)
                                          /\ chat'[h].mem.session = chat[h].mem.session
    /\ Tracks(t)' => Tracks(t)
    /\ log'[t].launches = log[t].launches
    /\ log'[t].rejected = log[t].rejected

\* A calm step keeps what is tied to t.
LEMMA CalmTied ==
    ASSUME NEW t \in Tasks, Tied(t), SoundStep, Calm(t)
    PROVE  Tied(t)'
<1>1. Open(t)' => /\ Open(t) /\ row'[t].status = row[t].status
                  /\ row'[t].session = row[t].session
  BY DEF Calm, CalmRow, Open, Exists
<1>2. SessionTied(t)'
  BY <1>1 DEF Calm, SessionTied, Tied
<1>3. HasStatus(t, {"waiting_approval"})' => HasStatus(t, {"waiting_approval"})
  BY DEF Calm, CalmRow, HasStatus, Exists, Terminal
<1>4. HasStatus(t, Terminal) => HasStatus(t, Terminal)'
  BY DEF SoundStep, RowStep, HasStatus, Exists
<1>5. RejectionTied(t)'
  BY <1>3, <1>4 DEF Calm, RejectionTied, Tied
<1> QED BY <1>2, <1>5 DEF Tied

\* No handler and no jules session is about a research task.
LEMMA ResearchTied ==
    ASSUME Fit', NEW t \in Tasks, Kind[t] = "research"
    PROVE  Tied(t)'
<1>1. \A h \in Handlers : ~Acts(h, t)'
  BY DEF Fit, FrameFits, Acts
<1>2. ~Tracks(t)'
  BY DEF Fit, JulesFits, Tracks
<1> QED BY <1>1, <1>2 DEF Tied, SessionTied, RejectionTied

\* A step that is no step of a worker keeps the account of the sends.
LEMMA SendsStay ==
    ASSUME IndInv, SoundStep, NEW t \in Tasks, SendsCounted(t),
           log'[t].sent = log[t].sent, log'[t].faults = log[t].faults,
           UNCHANGED <<research, jules, crashes>>,
           Kind[t] = "research" => (HasStatus(t, {"completed"})' => HasStatus(t, {"completed"}))
    PROVE  SendsCounted(t)'
<1>1. HasStatus(t, Terminal) => HasStatus(t, Terminal)'
  BY DEF SoundStep, RowStep, HasStatus, Exists
<1>2. InHand(t)' = InHand(t) /\ Taken(t)' = Taken(t)
  BY DEF InHand, Taken
<1>3. Answered(t) => Answered(t)'
  BY <1>1, <1>2 DEF Answered
<1>4. log[t].sent \in Nat /\ log[t].faults \in Nat /\ crashes \in Nat
  BY CrashAssumption DEF IndInv, TypeOK, Logs
<1>5. SendsPaid(t)'
  BY <1>3, <1>4 DEF SendsCounted, SendsPaid
<1>6. CompletionSent(t)'
  BY <1>2 DEF SendsCounted, CompletionSent
<1> QED BY <1>5, <1>6 DEF SendsCounted

-----------------------------------------------------------------------------
(* Steps of the handlers.                                                  *)

\* Handler h goes to frame f, and nobody else moves.
HandlerMoves(h, f) ==
    /\ chat' = [chat EXCEPT ![h] = f] /\ FrameFits(f)
    /\ UNCHANGED <<up, research, jules, crashes>>

\* Somebody is at work on t, or a session is.
Alive(t) ==
    \/ \E h \in Handlers : chat[h].pc = "executing" /\ chat[h].task = t
    \/ research.pc = "searching" /\ research.task = t
    \/ row[t].session

\* What the two frames of the step are.
LEMMA MovedFrames ==
    ASSUME IndInv, NEW h \in Handlers, NEW f, HandlerMoves(h, f)
    PROVE  chat'[h] = f /\ \A g \in Handlers : g # h => chat'[g] = chat[g]
BY DEF IndInv, TypeOK, HandlerMoves

\* A step of h in task u is calm for every other task.
LEMMA OthersCalm ==
    ASSUME IndInv, NEW h \in Handlers, NEW u \in Tasks, NEW f, HandlerMoves(h, f),
           f.pc # "idle" => f.task = u, OnlyRow(u),
           NEW t \in Tasks, t # u, log'[t] = log[t]
    PROVE  Calm(t)
<1>1. \A g \in Handlers : Acts(g, t)' => /\ Acts(g, t)
                                         /\ chat'[g].mem.session = chat[g].mem.session
  BY MovedFrames DEF Acts
<1>2. CalmRow(t)
  BY DEF OnlyRow, CalmRow
<1>3. Tracks(t)' => Tracks(t)
  BY DEF HandlerMoves, Tracks
<1> QED BY <1>1, <1>2, <1>3 DEF Calm

\* A step of h in its own task u keeps the invariant when it keeps u tied
\* and, if it leaves the row running, alive.
LEMMA HandlerKeeps ==
    ASSUME RunnersInv, SoundStep, Inv', NEW h \in Handlers,
           NEW u \in Tasks, Kind[u] # "research", NEW f, HandlerMoves(h, f),
           chat[h].pc # "idle" => chat[h].task = u,
           f.pc # "idle" => f.task = u,
           OnlyRow(u), Exists(u)' => CopyFits(u, row'[u]), Tied(u)',
           KeepsSession(u),
           HasStatus(u, {"running"})' => Alive(u)',
           \A t \in Tasks : t # u => log'[t] = log[t],
           log'[u].sent = log[u].sent, log'[u].faults = log[u].faults
    PROVE  StepKeeps
<1>0. IndInv /\ Fit
  BY DEF RunnersInv, Inv
<1>1. Fit'
  <2>1. \A g \in Handlers : FrameFits(chat'[g])
    BY <1>0, MovedFrames DEF HandlerMoves, Fit
  <2>2. \A t \in Tasks : Exists(t)' => CopyFits(t, row'[t])
    BY <1>0 DEF OnlyRow, Fit, Exists
  <2> QED BY <1>0, <2>1, <2>2 DEF HandlerMoves, Fit, ResearchFits, JulesFits, FrameFits, CopyFits
<1>2. ASSUME NEW t \in Tasks PROVE Tied(t)' /\ SendsCounted(t)'
  <2>1. Tied(t)'
    BY <1>0, OthersCalm, CalmTied DEF RunnersInv
  <2>2. Kind[t] = "research" =>
           (HasStatus(t, {"completed"})' => HasStatus(t, {"completed"}))
    BY DEF OnlyRow, HasStatus, Exists
  <2>3. log'[t].sent = log[t].sent /\ log'[t].faults = log[t].faults
    OBVIOUS
  <2> QED BY <1>0, <2>1, <2>2, <2>3, SendsStay DEF RunnersInv, HandlerMoves
<1>3. RunningIsAlive'
  <2>1. ASSUME up', NEW t \in Tasks, t # u, HasStatus(t, {"running"})'
        PROVE  Alive(t)'
    <3>1. row'[t] = row[t]
      BY <2>1 DEF OnlyRow
    <3>2. up /\ HasStatus(t, {"running"})
      BY <2>1, <3>1 DEF HandlerMoves, HasStatus, Exists
    <3>3. Alive(t)
      BY <3>2 DEF RunnersInv, RunningIsAlive, Alive
    <3>4. \A g \in Handlers : chat[g].pc = "executing" /\ chat[g].task = t =>
                                 chat'[g] = chat[g]
      BY <1>0, <2>1, MovedFrames
    <3> QED BY <3>1, <3>3, <3>4 DEF Alive, HandlerMoves
  <2> QED BY <2>1 DEF RunningIsAlive, Alive
<1>4. \A t \in Tasks : KeepsSession(t)
  BY DEF OnlyRow, KeepsSession
<1> QED BY <1>1, <1>2, <1>3, <1>4 DEF RunnersInv, StepKeeps

\* A handler that stops acting on its task leaves a row that nobody needs to
\* keep alive, or closes it.
LEMMA Leaves ==
    ASSUME RunnersInv, SoundStep, Inv', up, NEW h \in Handlers, chat[h].pc # "idle",
           NEW u, chat[h].task = u, NEW f, HandlerMoves(h, f), log' = log,
           f.pc \notin {"preparing", "notifying", "executing"},
           f.pc # "idle" => f.task = u, NEW copy,
           \/ /\ row' = row
              /\ chat[h].pc = "executing" => ~HasStatus(u, {"running"})
           \/ Puts(u, copy) /\ copy.status \in Terminal
    PROVE  StepKeeps
<1>0. IndInv /\ Fit /\ u \in Tasks /\ Kind[u] # "research"
  BY Busy DEF RunnersInv, Inv, Fit, FrameFits
<1>1. OnlyRow(u) /\ (Exists(u)' => CopyFits(u, row'[u]))
  BY <1>0, PutFits DEF OnlyRow, Puts, Fit, Exists
<1>2. CalmRow(u)
  BY TerminalLands, <1>0 DEF CalmRow, Exists
<1>3. Tied(u)'
  <2>1. \A g \in Handlers : Acts(g, u)' => /\ Acts(g, u)
                                           /\ chat'[g].mem.session = chat[g].mem.session
    BY <1>0, MovedFrames DEF Acts
  <2>2. Calm(u)
    BY <1>2, <2>1 DEF Calm, HandlerMoves, Tracks
  <2> QED BY <1>0, <2>2, CalmTied DEF RunnersInv
<1>4. ASSUME HasStatus(u, {"running"})' PROVE Alive(u)'
  <2>1. row' = row /\ HasStatus(u, {"running"}) /\ chat[h].pc # "executing"
    BY <1>0, <1>4, TerminalLands DEF HasStatus, Exists, Terminal
  <2>3. Alive(u)
    BY <1>0, <2>1 DEF RunnersInv, RunningIsAlive, Alive
  <2>4. \A g \in Handlers : chat[g].pc = "executing" => chat'[g] = chat[g]
    BY <1>0, <2>1, MovedFrames
  <2> QED BY <2>1, <2>3, <2>4 DEF Alive, HandlerMoves
<1>5. KeepsSession(u)
  BY <1>0, TerminalLands DEF KeepsSession
<1> QED BY <1>0, <1>1, <1>3, <1>4, <1>5, HandlerKeeps

\* A handler that ends goes to the idle frame.
LEMMA EndMoves ==
    ASSUME NEW h \in Handlers, Finish(h), UNCHANGED <<up, research, jules, crashes>>
    PROVE  HandlerMoves(h, IdleFrame) /\ IdleFrame.pc = "idle"
BY DEF Finish, HandlerMoves, IdleFrame, FrameFits

\* A handler that goes on keeps its task, and its copy must fit.
LEMMA GotoMoves ==
    ASSUME IndInv, Fit, NEW h \in Handlers, chat[h].pc # "idle",
           NEW pc, NEW copy, Goto(h, pc, copy),
           UNCHANGED <<up, research, jules, crashes>>,
           Kind[chat[h].task] = "run" => ~copy.session,
           pc = "preparing" => copy.status = "parsed",
           pc = "executing" => copy.status = "running",
           pc = "apologising" => copy.status \in Terminal
    PROVE  \E f : /\ HandlerMoves(h, f) /\ f.pc = pc
                  /\ f.task = chat[h].task /\ f.mem = copy
<1> DEFINE f == [chat[h] EXCEPT !.pc = pc, !.mem = copy]
<1>1. chat[h] \in Frames
  BY Busy
<1>2. f.pc = pc /\ f.task = chat[h].task /\ f.mem = copy
  BY <1>1 DEF Frames
<1>3. chat' = [chat EXCEPT ![h] = f]
  BY <1>1 DEF Goto, Frames, IndInv, TypeOK
<1>4. Kind[chat[h].task] # "research"
  BY DEF Fit, FrameFits
<1> HIDE DEF f
<1> QED BY <1>2, <1>3, <1>4 DEF HandlerMoves, FrameFits

\* A handler's copy, with another status but delivery_pending, fits its task.
LEMMA HandlerCopyFits ==
    ASSUME IndInv, Fit, NEW h \in Handlers, chat[h].pc # "idle", NEW copy,
           copy.session = chat[h].mem.session \/ Kind[chat[h].task] = "jules",
           copy.status = "delivery_pending" => copy.session
    PROVE  CopyFits(chat[h].task, copy)
<1>1. chat[h].task \in Tasks /\ FrameFits(chat[h])
  BY Busy DEF Fit
<1>2. Kind[chat[h].task] \in {"run", "research", "jules"}
  BY <1>1, StoreAssumption
<1> QED BY <1>1, <1>2 DEF FrameFits, CopyFits

\* A catch that writes the handler's copy closes the row.
LEMMA FailCopyPuts ==
    ASSUME IndInv, Fit, NEW h \in Handlers, chat[h].pc # "idle",
           FailCopy(chat[h].task, chat[h].mem)
    PROVE  /\ Puts(chat[h].task, Failed(chat[h].mem))
           /\ Failed(chat[h].mem).status \in Terminal
           /\ Failed(chat[h].mem).session = chat[h].mem.session
<1> DEFINE m == chat[h].mem
           x == Failed(m)
<1>1. m \in CopiesInUse /\ chat[h].task \in Tasks /\ m \in Copies
  BY Busy, InUseExists
<1>2. x \in CopiesInUse /\ x.status \in Terminal /\ x.session = m.session
  <2>1. advanceState(m, "failed").status = "failed" /\ advanceState(m, "failed").session = m.session
    BY <1>1, AdvanceKeeps
  <2> QED BY <1>1, <2>1, FailedInUse DEF Failed, Terminal
<1>3. Save(chat[h].task, x)
  BY DEF FailCopy
<1> HIDE DEF x
<1>4. CopyFits(chat[h].task, x)
  BY <1>2, HandlerCopyFits DEF Terminal
<1> QED BY <1>1, <1>2, <1>3, <1>4, SavePuts DEF x

\* The catch of handleApproval closes the row or finds nothing running.
LEMMA FailIfRunningPuts ==
    ASSUME IndInv, Fit, NEW t \in Tasks, FailIfRunning(t)
    PROVE  \/ row' = row /\ ~HasStatus(t, {"running"})
           \/ /\ Puts(t, advanceState(row[t], "failed"))
              /\ advanceState(row[t], "failed").status \in Terminal
<1> DEFINE x == advanceState(row[t], "failed")
<1>1. ASSUME HasStatus(t, {"running"})
      PROVE  Puts(t, x) /\ x.status \in Terminal
  <2>1. row[t] \in CopiesInUse /\ row[t] \in Copies /\ CopyFits(t, row[t])
    BY <1>1, RowOf, InUseExists DEF HasStatus, Fit
  <2>2. x.status = "failed" /\ x.session = row[t].session /\ x \in CopiesInUse
    BY <2>1, AdvanceKeeps, AdvanceInUse DEF FlowStatuses
  <2>3. Save(t, x)
    BY <1>1 DEF FailIfRunning, Save
  <2> HIDE DEF x
  <2>4. CopyFits(t, x)
    BY <2>1, <2>2 DEF CopyFits, ResearchStatuses
  <2> QED BY <2>2, <2>3, <2>4, SavePuts DEF Terminal
<1> QED BY <1>1 DEF FailIfRunning

\* The steps with which a handler stops acting on its task.
LEMMA LeavingSteps ==
    ASSUME RunnersInv, SoundStep, Inv', UNCHANGED <<research, jules, crashes>>,
           NEW h \in Handlers,
           \/ PrepareThrows(h) \/ PromptDone(h) \/ PromptThrows(h) \/ NotifyThrows(h)
           \/ ExecutorThrows(h) \/ ReplyDone(h) \/ ReplyThrows(h)
           \/ ApologyDone(h) \/ ApologyThrows(h)
    PROVE  StepKeeps
<1> DEFINE u == chat[h].task
           m == chat[h].mem
<1>0. IndInv /\ Fit
  BY DEF RunnersInv, Inv
<1>1. /\ up /\ chat[h].pc # "idle" /\ UNCHANGED <<up, log, research, jules, crashes>>
  BY DEF PrepareThrows, PromptDone, PromptThrows, NotifyThrows, ExecutorThrows,
         ReplyDone, ReplyThrows, ApologyDone, ApologyThrows, At
<1>2. u \in Tasks /\ m \in Copies /\ m \in CopiesInUse
  BY <1>0, <1>1, Busy, InUseExists
<1>3. ASSUME Finish(h), row' = row, chat[h].pc # "executing"
      PROVE  StepKeeps
  BY <1>1, <1>3, EndMoves, Leaves
<1>4. ASSUME Finish(h), FailIfRunning(u)
      PROVE  StepKeeps
  BY <1>0, <1>1, <1>2, <1>4, EndMoves, FailIfRunningPuts, Leaves
<1>5. ASSUME Finish(h), FailCopy(u, m)
      PROVE  StepKeeps
  BY <1>0, <1>1, <1>5, EndMoves, FailCopyPuts, Leaves
<1>6. ASSUME Goto(h, "apologising", Failed(m)), FailCopy(u, m)
      PROVE  StepKeeps
  <2>1. /\ Puts(u, Failed(m)) /\ Failed(m).status \in Terminal
        /\ Failed(m).session = m.session
    BY <1>0, <1>1, <1>6, FailCopyPuts
  <2>2. Kind[u] = "run" => ~Failed(m).session
    BY <1>0, <1>1, <2>1 DEF Fit, FrameFits
  <2>3. PICK f : HandlerMoves(h, f) /\ f.pc = "apologising" /\ f.task = u
    BY <1>0, <1>1, <1>6, <2>1, <2>2, GotoMoves
  <2> QED BY <1>1, <2>1, <2>3, Leaves
<1>7. CASE PrepareThrows(h) \/ PromptThrows(h)
  BY <1>5, <1>7 DEF PrepareThrows, PromptThrows
<1>8. CASE PromptDone(h) \/ ReplyDone(h) \/ ApologyDone(h)
  BY <1>3, <1>8 DEF PromptDone, ReplyDone, ApologyDone, At
<1>9. CASE NotifyThrows(h)
  BY <1>4, <1>9 DEF NotifyThrows
<1>10. CASE ExecutorThrows(h) \/ ReplyThrows(h)
  BY <1>4, <1>6, <1>10 DEF ExecutorThrows, ReplyThrows, Caught
<1>11. CASE ApologyThrows(h)
  <2>1. Save(u, m) /\ Finish(h) /\ m.status \in Terminal
    BY <1>0, <1>11 DEF ApologyThrows, At, Fit, FrameFits
  <2>2. CopyFits(u, m)
    BY <1>0, <1>1, <2>1, HandlerCopyFits DEF Terminal
  <2> QED BY <1>0, <1>1, <1>2, <2>1, <2>2, SavePuts, EndMoves, Leaves
<1> QED BY <1>7, <1>8, <1>9, <1>10, <1>11

\* An execution that did not leave a session closes the task.
LEMMA ReturnsClosed ==
    ASSUME RunnersInv, SoundStep, Inv', UNCHANGED <<research, jules, crashes>>,
           NEW h \in Handlers, NEW outcome \in {"success", "failure", "blocked"},
           ExecutorReturns(h, outcome)
    PROVE  StepKeeps
<1> DEFINE u == chat[h].task
           m == chat[h].mem
           stored == Stored(m, outcome)
           copy == Settled(stored, outcome)
<1>0. IndInv /\ Fit
  BY DEF RunnersInv, Inv
<1>1. /\ up /\ chat[h].pc = "executing" /\ UNCHANGED <<up, log>>
      /\ IF outcome = "blocked" THEN Save(u, copy) ELSE SaveTwice(u, stored, copy)
      /\ Goto(h, "replying", copy)
  BY DEF ExecutorReturns, At
<1>2. u \in Tasks /\ m \in Copies /\ m \in CopiesInUse
  BY <1>0, <1>1, Busy, InUseExists
<1>3. FrameFits(chat[h])
  BY <1>0 DEF Fit
<1>4. /\ stored \in CopiesInUse /\ copy \in CopiesInUse /\ stored \in Copies
      /\ stored.status = m.status /\ stored.session = m.session
  BY <1>2, SettledInUse, InUseExists DEF Stored, Copies
<1>5. copy.status \in {"completed", "failed"} /\ copy.session = stored.session
  <2>1. copy = advanceState(stored, "completed") \/ copy = advanceState(stored, "failed")
    BY DEF Settled
  <2> QED BY <1>4, <2>1, AdvanceKeeps
<1> HIDE DEF stored, copy
<1>6. stored.status = "running" /\ copy.session = m.session
  BY <1>1, <1>3, <1>4, <1>5 DEF FrameFits
<1>7. CopyFits(u, copy)
  BY <1>0, <1>1, <1>5, <1>6, HandlerCopyFits
<1>8. canTransition(stored.status, copy.status)
  BY <1>5, <1>6 DEF canTransition, TRANSITIONS
<1>9. Puts(u, copy)
  BY <1>0, <1>1, <1>2, <1>4, <1>5, <1>7, <1>8, SavePuts, TwicePuts
<1>10. Kind[u] = "run" => ~copy.session
  BY <1>1, <1>3, <1>6 DEF FrameFits
<1>11. PICK f : HandlerMoves(h, f) /\ f.pc = "replying" /\ f.task = u
  BY <1>0, <1>1, <1>10, GotoMoves
<1> QED BY <1>1, <1>5, <1>9, <1>11, Leaves DEF Terminal

\* A handler at work writes a copy that knows the session its own copy knew.
\* When that copy waits for approval, the handler stops acting.
LEMMA ActorTied ==
    ASSUME RunnersInv, SoundStep, NEW u \in Tasks, NEW h \in Handlers, Acts(h, u),
           NEW f, HandlerMoves(h, f), NEW copy, Puts(u, copy),
           chat[h].mem.session => copy.session,
           f.pc \in {"preparing", "notifying", "executing"} =>
               f.mem = copy /\ copy.status # "waiting_approval",
           log'[u].rejected = log[u].rejected,
           Kind[u] = "run" /\ copy.status = "waiting_approval" => log'[u].launches = 0
    PROVE  Tied(u)' /\ KeepsSession(u)
<1>0. IndInv /\ Fit /\ Tied(u)
  BY DEF RunnersInv, Inv
<1>1. Exists(u)
  BY <1>0, FramesNow DEF Acts, FrameOK
<1>2. Open(u)' => Open(u)
  BY <1>1 DEF SoundStep, RowStep, Open, HasStatus, Exists
<1>3. \A g \in Handlers : g # h /\ Acts(g, u)' =>
                             Acts(g, u) /\ chat'[g].mem = chat[g].mem
  BY <1>0, MovedFrames DEF Acts
<1>4. Acts(h, u)' => chat'[h].mem = copy /\ copy.status # "waiting_approval"
  BY <1>0, MovedFrames DEF Acts
<1>5. Tracks(u)' => Tracks(u)
  BY DEF HandlerMoves, Tracks
<1>6. \/ row'[u].status = copy.status /\ row'[u].session = copy.session
      \/ /\ row'[u].status = row[u].status
         /\ row'[u].session = (row[u].session \/ copy.session)
  BY DEF Puts, Merges
<1>7. SessionTied(u)'
  <2> SUFFICES ASSUME Open(u)' PROVE SessionTied(u)'
    BY DEF SessionTied
  <2>1. CASE row[u].session
    <3>1. chat[h].mem.session /\ copy.session /\ row'[u].session
      BY <1>0, <1>2, <1>6, <2>1 DEF Tied, SessionTied
    <3>2. \A g \in Handlers : Acts(g, u)' => chat'[g].mem.session
      BY <1>0, <1>2, <1>3, <1>4, <2>1, <3>1 DEF Tied, SessionTied
    <3> QED BY <3>1, <3>2 DEF SessionTied
  <2>2. CASE ~row[u].session
    <3>1. /\ \A g \in Handlers : Acts(g, u) => g = h
          /\ row[u].status # "waiting_approval" /\ ~Tracks(u)
      BY <1>0, <1>2, <2>2 DEF Tied, SessionTied
    <3>2. \A g \in Handlers : Acts(g, u)' => g = h
      BY <1>3, <3>1
    <3>3. row'[u].session => copy.session
      BY <1>6, <2>2
    <3>4. Acts(h, u)' => row'[u].status # "waiting_approval"
      BY <1>4, <1>6, <3>1
    <3> QED BY <1>4, <1>5, <3>1, <3>2, <3>3, <3>4 DEF SessionTied
  <2> QED BY <2>1, <2>2
<1>8. RejectionTied(u)'
  <2> SUFFICES ASSUME Kind[u] = "run" PROVE RejectionTied(u)'
    BY DEF RejectionTied
  <2>1. ~row[u].session /\ ~log[u].rejected
    BY <1>0, <1>1 DEF Fit, CopyFits, Tied, RejectionTied
  <2>2. row[u].status = "waiting_approval" => FALSE
    BY <1>0, <1>1, <2>1 DEF Tied, SessionTied, Open, Terminal
  <2>3. HasStatus(u, {"waiting_approval"})' => copy.status = "waiting_approval"
    BY <1>6, <2>2 DEF HasStatus
  <2> QED BY <2>1, <2>3 DEF RejectionTied
<1>9. KeepsSession(u)
  BY <1>0, <1>1, <1>6 DEF KeepsSession, Tied, SessionTied, Open, SoundStep, RowStep, HasStatus
<1> QED BY <1>7, <1>8, <1>9 DEF Tied

\* The plan of a prepared task is held.
LEMMA HoldKeeps ==
    ASSUME RunnersInv, SoundStep, Inv', UNCHANGED <<research, jules, crashes>>,
           NEW h \in Handlers, HoldForApproval(h)
    PROVE  StepKeeps
<1>0. IndInv /\ Fit
  BY DEF RunnersInv, Inv
<1>a. PICK u, m : chat[h].task = u /\ chat[h].mem = m
  OBVIOUS
<1>b. PICK copy, entry : /\ copy = advanceState(m, "waiting_approval")
                         /\ entry = [log[u] EXCEPT !.held = TRUE]
  OBVIOUS
<1>1. /\ up /\ chat[h].pc = "preparing" /\ SaveTwice(u, m, copy)
      /\ Goto(h, "prompting", copy) /\ Log(u, entry) /\ UNCHANGED up
  BY <1>a, <1>b DEF HoldForApproval, At
<1>2. u \in Tasks /\ m \in Copies /\ m \in CopiesInUse /\ log[u] \in Logs
  BY <1>0, <1>1, <1>a, Busy, InUseExists DEF IndInv, TypeOK
<1>3. m.status = "parsed" /\ Kind[u] # "research" /\ (Kind[u] = "run" => ~m.session)
  BY <1>0, <1>1, <1>a DEF Fit, FrameFits
<1>4. copy \in CopiesInUse /\ copy.status = "waiting_approval" /\ copy.session = m.session
  BY <1>2, <1>b, AdvanceInUse, AdvanceKeeps DEF FlowStatuses
<1>5. /\ entry.launches = log[u].launches /\ entry.rejected = log[u].rejected
      /\ entry.sent = log[u].sent /\ entry.faults = log[u].faults
  BY <1>2, <1>b DEF Logs
<1>6. log'[u] = entry /\ \A t \in Tasks : t # u => log'[t] = log[t]
  BY <1>0, <1>1, <1>2 DEF Log, IndInv, TypeOK
<1>7. CopyFits(u, copy)
  BY <1>0, <1>1, <1>4, <1>a, HandlerCopyFits
<1>8. canTransition(m.status, copy.status)
  BY <1>3, <1>4 DEF canTransition, TRANSITIONS
<1>9. Puts(u, copy)
  BY <1>0, <1>1, <1>2, <1>4, <1>7, <1>8, TwicePuts
<1>10. PICK f : HandlerMoves(h, f) /\ f.pc = "prompting" /\ f.task = u
  BY <1>0, <1>1, <1>3, <1>4, <1>a, GotoMoves
<1>11. log[u].launches = 0
  BY <1>1, <1>2, <1>a DEF RunnersInv, Inv, ApprovalsAccounted, Accounted, Prepared, Works, Untouched
<1>12. Tied(u)' /\ KeepsSession(u)
  BY <1>1, <1>2, <1>4, <1>5, <1>6, <1>9, <1>10, <1>11, <1>a, ActorTied DEF Acts
<1>13. ~HasStatus(u, {"running"})'
  <2>1. canTransition("running", "waiting_approval")
    BY DEF canTransition, TRANSITIONS
  <2> QED BY <1>4, <1>9, <2>1 DEF Puts, Merges, HasStatus
<1>14. OnlyRow(u) /\ (Exists(u)' => CopyFits(u, row'[u]))
  BY <1>0, <1>2, <1>9, PutFits DEF Puts
<1> QED BY <1>1, <1>2, <1>3, <1>5, <1>6, <1>10, <1>12, <1>13, <1>14, <1>a, HandlerKeeps

\* The execution of a task starts, at once or after its approval.
LEMMA LaunchKeeps ==
    ASSUME RunnersInv, SoundStep, Inv', UNCHANGED <<research, jules, crashes>>,
           NEW h \in Handlers, LaunchNow(h) \/ ResumeApproved(h)
    PROVE  StepKeeps
<1>0. IndInv /\ Fit
  BY DEF RunnersInv, Inv
<1>a. PICK u, m : chat[h].task = u /\ chat[h].mem = m
  OBVIOUS
<1>b. PICK copy, entry : /\ copy = advanceState(m, "running")
                         /\ entry = [log[u] EXCEPT !.launches = @ + 1]
  OBVIOUS
<1>1. /\ up /\ chat[h].pc \in {"preparing", "notifying"}
      /\ \/ chat[h].pc = "preparing" /\ SaveTwice(u, m, copy)
         \/ Save(u, copy)
      /\ Goto(h, "executing", copy) /\ Log(u, entry) /\ UNCHANGED up
  BY <1>a, <1>b DEF LaunchNow, ResumeApproved, At
<1>2. u \in Tasks /\ m \in Copies /\ m \in CopiesInUse /\ log[u] \in Logs
  BY <1>0, <1>1, <1>a, Busy, InUseExists DEF IndInv, TypeOK
<1>3. /\ Kind[u] # "research" /\ (Kind[u] = "run" => ~m.session)
      /\ chat[h].pc = "preparing" => m.status = "parsed"
  BY <1>0, <1>1, <1>a DEF Fit, FrameFits
<1>4. copy \in CopiesInUse /\ copy.status = "running" /\ copy.session = m.session
  BY <1>2, <1>b, AdvanceInUse, AdvanceKeeps DEF FlowStatuses
<1>5. /\ entry.rejected = log[u].rejected
      /\ entry.sent = log[u].sent /\ entry.faults = log[u].faults
  BY <1>2, <1>b DEF Logs
<1>6. log'[u] = entry /\ \A t \in Tasks : t # u => log'[t] = log[t]
  BY <1>0, <1>1, <1>2 DEF Log, IndInv, TypeOK
<1>7. CopyFits(u, copy)
  BY <1>0, <1>1, <1>4, <1>a, HandlerCopyFits
<1>8. canTransition("parsed", copy.status)
  BY <1>4 DEF canTransition, TRANSITIONS
<1>9. Puts(u, copy)
  BY <1>0, <1>1, <1>2, <1>3, <1>4, <1>7, <1>8, SavePuts, TwicePuts
<1>10. PICK f : /\ HandlerMoves(h, f) /\ f.pc = "executing"
                /\ f.task = u /\ f.mem = copy
  BY <1>0, <1>1, <1>3, <1>4, <1>a, GotoMoves
<1>11. Tied(u)' /\ KeepsSession(u)
  BY <1>1, <1>2, <1>4, <1>5, <1>6, <1>9, <1>10, <1>a, ActorTied DEF Acts
<1>12. Alive(u)'
  BY <1>0, <1>10, MovedFrames DEF Alive
<1>13. OnlyRow(u) /\ (Exists(u)' => CopyFits(u, row'[u]))
  BY <1>0, <1>2, <1>9, PutFits DEF Puts
<1> QED BY <1>1, <1>2, <1>3, <1>5, <1>6, <1>10, <1>11, <1>12, <1>13, <1>a, HandlerKeeps

\* An execution leaves a remote session to the jules worker.
LEMMA ReturnsOpen ==
    ASSUME RunnersInv, SoundStep, Inv', UNCHANGED <<research, jules, crashes>>,
           NEW h \in Handlers, NEW outcome \in {"awaiting", "pending"},
           ExecutorReturns(h, outcome)
    PROVE  StepKeeps
<1>0. IndInv /\ Fit
  BY DEF RunnersInv, Inv
<1>a. PICK u, m : chat[h].task = u /\ chat[h].mem = m
  OBVIOUS
<1>b. PICK stored, copy : stored = Stored(m, outcome) /\ copy = Settled(stored, outcome)
  OBVIOUS
<1>1. /\ up /\ chat[h].pc = "executing" /\ UNCHANGED <<up, log>>
      /\ SaveTwice(u, stored, copy) /\ Goto(h, "replying", copy)
      /\ outcome \in Outcomes(u)
  BY <1>a, <1>b DEF ExecutorReturns, At
<1>2. u \in Tasks /\ m \in Copies /\ m \in CopiesInUse
  BY <1>0, <1>1, <1>a, Busy, InUseExists
<1>3. m.status = "running" /\ Kind[u] = "jules"
  BY <1>0, <1>1, <1>a DEF Fit, FrameFits, Outcomes
<1>4. /\ stored \in CopiesInUse /\ copy \in CopiesInUse /\ stored \in Copies
      /\ stored.status = m.status /\ stored.session = m.session
  BY <1>2, <1>b, SettledInUse, InUseExists DEF Stored, Copies
<1>5. copy.status \in {"waiting_approval", "delivery_pending"} /\ copy.session
  <2> DEFINE x == [stored EXCEPT !.session = TRUE]
  <2>1. x \in Copies /\ x.session
    BY <1>4 DEF Copies
  <2>2. \/ copy = advanceState(x, "waiting_approval")
        \/ copy = advanceState(x, "delivery_pending")
    BY <1>b DEF Settled
  <2> HIDE DEF x
  <2> QED BY <2>1, <2>2, AdvanceKeeps
<1>6. CopyFits(u, copy)
  BY <1>3, <1>5 DEF CopyFits
<1>7. canTransition(stored.status, copy.status) /\ canTransition("running", copy.status)
  BY <1>3, <1>4, <1>5 DEF canTransition, TRANSITIONS
<1>8. Puts(u, copy)
  BY <1>0, <1>1, <1>2, <1>4, <1>5, <1>6, <1>7, TwicePuts
<1>9. PICK f : HandlerMoves(h, f) /\ f.pc = "replying" /\ f.task = u
  BY <1>0, <1>1, <1>3, <1>a, GotoMoves
<1>10. Tied(u)' /\ KeepsSession(u)
  BY <1>1, <1>2, <1>3, <1>5, <1>8, <1>9, <1>a, ActorTied DEF Acts
<1>11. ~HasStatus(u, {"running"})'
  BY <1>5, <1>7, <1>8 DEF Puts, Merges, HasStatus
<1>12. OnlyRow(u) /\ (Exists(u)' => CopyFits(u, row'[u]))
  BY <1>0, <1>2, <1>8, PutFits DEF Puts
<1> QED BY <1>1, <1>2, <1>3, <1>9, <1>10, <1>11, <1>12, <1>a, HandlerKeeps

\* An approved task gets the handler that resumes it.
LEMMA ApproveKeeps ==
    ASSUME RunnersInv, SoundStep, Inv', UNCHANGED <<research, jules, crashes>>,
           NEW h \in Handlers, NEW u \in Tasks, Approve(h, u)
    PROVE  StepKeeps
<1>0. IndInv /\ Fit /\ Tied(u)
  BY DEF RunnersInv, Inv
<1>a. PICK copy, entry : /\ copy = advanceState(row[u], "approved")
                         /\ entry = [log[u] EXCEPT !.approvals = @ + 1]
  OBVIOUS
<1>b. PICK f : f = [pc |-> "notifying", via |-> "approval", task |-> u, mem |-> copy]
  OBVIOUS
<1>1. /\ up /\ chat[h].pc = "idle" /\ HasStatus(u, {"waiting_approval"})
      /\ Save(u, copy) /\ Log(u, entry) /\ UNCHANGED up
      /\ chat' = [chat EXCEPT ![h] = f]
  BY <1>a, <1>b DEF Approve, At
<1>2. row[u] \in Copies /\ row[u] \in CopiesInUse /\ log[u] \in Logs
  BY <1>0, <1>1, RowOf, InUseExists DEF IndInv, TypeOK
<1>3. CopyFits(u, row[u]) /\ Kind[u] # "research"
  BY <1>0, <1>1 DEF Fit, CopyFits, HasStatus, ResearchStatuses
<1>4. copy \in CopiesInUse /\ copy.status = "approved" /\ copy.session = row[u].session
  BY <1>2, <1>a, AdvanceInUse, AdvanceKeeps DEF FlowStatuses
<1>5. /\ entry.rejected = log[u].rejected /\ entry.launches = log[u].launches
      /\ entry.sent = log[u].sent /\ entry.faults = log[u].faults
  BY <1>2, <1>a DEF Logs
<1>6. log'[u] = entry /\ \A t \in Tasks : t # u => log'[t] = log[t]
  BY <1>0, <1>1, <1>2 DEF Log, IndInv, TypeOK
<1>7. CopyFits(u, copy)
  BY <1>3, <1>4 DEF CopyFits
<1>8. Puts(u, copy)
  BY <1>0, <1>4, <1>1, <1>7, SavePuts
<1>9. row'[u] = copy /\ Exists(u)
  <2>1. canTransition("waiting_approval", "approved")
    BY DEF canTransition, TRANSITIONS
  <2> QED BY <1>1, <1>4, <1>8, <2>1 DEF Puts, Merges, HasStatus
<1>10. HandlerMoves(h, f) /\ f.pc = "notifying" /\ f.task = u /\ f.mem = copy
  <2>1. Kind[u] = "run" => ~copy.session
    BY <1>3, <1>4 DEF CopyFits
  <2> QED BY <1>1, <1>3, <1>b, <2>1 DEF HandlerMoves, FrameFits
<1>11. \A g \in Handlers : Acts(g, u)' =>
          \/ g = h /\ chat'[g].mem = copy
          \/ g # h /\ Acts(g, u) /\ chat'[g].mem = chat[g].mem
  BY <1>0, <1>10, MovedFrames DEF Acts
<1>12. SessionTied(u)'
  <2>1. Open(u) /\ row[u].status = "waiting_approval"
    BY <1>1 DEF Open, HasStatus, Terminal
  <2>2. Tracks(u)' => Tracks(u)
    BY <1>10 DEF HandlerMoves, Tracks
  <2>3. CASE row[u].session
    BY <1>0, <1>4, <1>9, <1>11, <2>1, <2>3 DEF Tied, SessionTied
  <2>4. CASE ~row[u].session
    <3>1. ~Tracks(u) /\ \A g \in Handlers : Acts(g, u)' => g = h
      BY <1>0, <1>11, <2>1, <2>4 DEF Tied, SessionTied
    <3> QED BY <1>4, <1>9, <2>2, <2>4, <3>1 DEF SessionTied
  <2> QED BY <2>3, <2>4
<1>13. RejectionTied(u)'
  <2>1. ~HasStatus(u, {"waiting_approval"})'
    BY <1>4, <1>9 DEF HasStatus
  <2>2. Kind[u] = "run" => ~log[u].rejected
    BY <1>0, <1>1 DEF Tied, RejectionTied, HasStatus, Terminal
  <2> QED BY <1>5, <1>6, <2>1, <2>2 DEF RejectionTied
<1>14. ~HasStatus(u, {"running"})'
  BY <1>4, <1>9 DEF HasStatus
<1>15. OnlyRow(u) /\ (Exists(u)' => CopyFits(u, row'[u]))
  BY <1>0, <1>8, PutFits DEF Puts
<1>16. Tied(u)' /\ KeepsSession(u)
  BY <1>4, <1>9, <1>12, <1>13 DEF Tied, KeepsSession
<1> QED BY <1>1, <1>3, <1>5, <1>6, <1>10, <1>14, <1>15, <1>16, HandlerKeeps

\* A message becomes a task, with the handler that prepares it.
LEMMA ArrivesKeeps ==
    ASSUME RunnersInv, SoundStep, Inv', UNCHANGED <<research, jules, crashes>>,
           NEW h \in Handlers, NEW u \in Tasks, MessageArrives(h, u)
    PROVE  StepKeeps
<1>0. IndInv /\ Fit /\ Tied(u)
  BY DEF RunnersInv, Inv
<1>a. PICK copy : copy = advanceState(Pending, "parsed")
  OBVIOUS
<1>b. PICK f : f = [pc |-> "preparing", via |-> "message", task |-> u, mem |-> copy]
  OBVIOUS
<1>1. /\ up /\ chat[h].pc = "idle" /\ ~Exists(u) /\ Kind[u] # "research"
      /\ row' = [row EXCEPT ![u] = Saved(Pending, copy)]
      /\ chat' = [chat EXCEPT ![h] = f] /\ UNCHANGED <<up, log>>
  BY <1>a, <1>b DEF MessageArrives, At
<1>2. Pending \in CopiesInUse /\ Pending \in Copies /\ Pending # NoRow
  BY PendingInUse, InUseExists
<1>3. copy \in CopiesInUse /\ copy.status = "parsed" /\ ~copy.session
  <2>1. copy.status = "parsed" /\ copy.session = Pending.session
    BY <1>2, <1>a, AdvanceKeeps
  <2> QED BY <1>2, <1>a, <2>1, ParsedInUse DEF Pending
<1>4. Saved(Pending, copy) = copy
  <2>1. canTransition(Pending.status, copy.status)
    BY <1>3 DEF Pending, canTransition, TRANSITIONS
  <2> QED BY <1>2, <1>3, <2>1, SavedMerges DEF Merges
<1>5. CopyFits(u, copy)
  BY <1>1, <1>3 DEF CopyFits
<1>6. Puts(u, copy) /\ row'[u] = copy
  BY <1>0, <1>1, <1>3, <1>4, <1>5, WritePuts DEF IndInv, TypeOK
<1>7. HandlerMoves(h, f) /\ f.pc = "preparing" /\ f.task = u /\ f.mem = copy
  BY <1>1, <1>3, <1>b DEF HandlerMoves, FrameFits
<1>8. /\ \A g \in Handlers : ~Acts(g, u) /\ (Acts(g, u)' => g = h)
      /\ ~Tracks(u) /\ ~Tracks(u)'
  <2>1. (\A g \in Handlers : ~Acts(g, u)) /\ ~Tracks(u)
    BY <1>0, <1>1, FramesNow DEF FrameOK, Acts, Tracks
  <2> QED BY <1>0, <1>7, <2>1, MovedFrames DEF Acts, Tracks, HandlerMoves
<1>9. SessionTied(u)'
  BY <1>3, <1>6, <1>8 DEF SessionTied
<1>10. RejectionTied(u)'
  <2>1. ~HasStatus(u, {"waiting_approval"})'
    BY <1>3, <1>6 DEF HasStatus
  <2>2. Kind[u] = "run" => ~log[u].rejected
    BY <1>0, <1>1 DEF Tied, RejectionTied, HasStatus
  <2> QED BY <1>1, <2>1, <2>2 DEF RejectionTied
<1>11. ~HasStatus(u, {"running"})'
  BY <1>3, <1>6 DEF HasStatus
<1>12. OnlyRow(u) /\ (Exists(u)' => CopyFits(u, row'[u]))
  BY <1>0, <1>6, PutFits DEF Puts
<1>13. Tied(u)' /\ KeepsSession(u)
  BY <1>1, <1>9, <1>10 DEF Tied, KeepsSession
<1> QED BY <1>1, <1>7, <1>11, <1>12, <1>13, HandlerKeeps

-----------------------------------------------------------------------------
(* Steps of nobody, and decisions that take no task up.                    *)

\* A row is closed, and a waiting task may be rejected with it.
LEMMA ClosesKeep ==
    ASSUME RunnersInv, SoundStep, Inv', UNCHANGED <<up, chat, research, jules, crashes>>,
           NEW u \in Tasks, NEW copy, Puts(u, copy),
           copy.status \in Terminal \ {"completed"},
           \A t \in Tasks : /\ log'[t].launches = log[t].launches
                            /\ log'[t].sent = log[t].sent
                            /\ log'[t].faults = log[t].faults
                            /\ \/ log'[t].rejected = log[t].rejected
                               \/ t = u /\ HasStatus(u, {"waiting_approval"})
    PROVE  StepKeeps
<1>0. IndInv /\ Fit
  BY DEF RunnersInv, Inv
<1>1. row'[u] = copy /\ Exists(u)'
  BY TerminalLands DEF Exists
<1>2. \A t \in Tasks : t # u => row'[t] = row[t]
  BY DEF Puts, OnlyRow
<1>3. Fit'
  BY <1>0, PutFits DEF Fit, FrameFits, ResearchFits, JulesFits, CopyFits
<1>4. ASSUME NEW t \in Tasks PROVE Tied(t)'
  <2>1. CASE log'[t].rejected = log[t].rejected
    <3>1. CalmRow(t)
      BY <1>1, <1>2 DEF CalmRow
    <3>2. Calm(t)
      BY <2>1, <3>1 DEF Calm, Acts, Tracks
    <3> QED BY <3>2, CalmTied DEF RunnersInv
  <2>2. CASE t = u /\ HasStatus(u, {"waiting_approval"})
    <3>1. SessionTied(u)'
      BY <1>1 DEF SessionTied, Open
    <3>2. ASSUME Kind[u] = "run"
          PROVE  log[u].launches = 0 /\ \A h \in Handlers : ~Acts(h, u)
      <4>1. ~row[u].session /\ Tied(u)
        BY <1>0, <2>2, <3>2 DEF HasStatus, Fit, CopyFits, RunnersInv
      <4> QED BY <2>2, <3>2, <4>1 DEF Tied, SessionTied, RejectionTied, Open, HasStatus, Terminal
    <3>3. RejectionTied(u)'
      BY <1>1, <3>2 DEF RejectionTied, HasStatus, Acts, Terminal
    <3> QED BY <2>2, <3>1, <3>3 DEF Tied
  <2> QED BY <2>1, <2>2
<1>5. ASSUME NEW t \in Tasks PROVE SendsCounted(t)'
  <2>1. HasStatus(t, {"completed"})' => HasStatus(t, {"completed"})
    BY <1>1, <1>2 DEF HasStatus, Exists
  <2> QED BY <1>0, <2>1, SendsStay DEF RunnersInv
<1>6. RunningIsAlive'
  <2>1. \A t \in Tasks : HasStatus(t, {"running"})' =>
                            row'[t] = row[t] /\ HasStatus(t, {"running"})
    BY <1>1, <1>2 DEF HasStatus, Exists, Terminal
  <2> QED BY <2>1 DEF RunnersInv, RunningIsAlive
<1>7. \A t \in Tasks : KeepsSession(t)
  BY <1>1, <1>2 DEF KeepsSession
<1> QED BY <1>3, <1>4, <1>5, <1>6, <1>7 DEF RunnersInv, StepKeeps

\* A blocked message, a refused approval and a rejection close a row.
LEMMA DecisionKeeps ==
    ASSUME RunnersInv, SoundStep, Inv', UNCHANGED <<research, jules, crashes>>,
           NEW h \in Handlers, NEW u \in Tasks,
           MessageBlocked(h, u) \/ ApproveRefused(h, u) \/ Reject(h, u)
    PROVE  StepKeeps
<1>0. IndInv /\ Fit
  BY DEF RunnersInv, Inv
<1>1. CASE MessageBlocked(h, u)
  <2>a. PICK copy, failed : /\ copy = advanceState(Pending, "parsed")
                            /\ failed = advanceState(copy, "failed")
    OBVIOUS
  <2>1. /\ row' = [row EXCEPT ![u] = Saved(Saved(Pending, copy), failed)]
        /\ UNCHANGED <<up, log, chat>> /\ Kind[u] # "research"
    BY <1>1, <2>a DEF MessageBlocked
  <2>2. Pending \in CopiesInUse /\ Pending \in Copies
    BY PendingInUse, InUseExists
  <2>3. copy \in CopiesInUse /\ copy \in Copies /\ Saved(Pending, copy) \in CopiesInUse
    BY <2>2, <2>a, ParsedInUse, InUseExists
  <2>4. failed \in CopiesInUse /\ failed.status = "failed" /\ ~failed.session
    <3>1. failed.session = copy.session /\ copy.session = Pending.session
      BY <2>2, <2>3, <2>a, AdvanceKeeps
    <3> QED BY <2>3, <2>a, <3>1, AdvanceInUse DEF FlowStatuses, Pending
  <2>5. Saved(Saved(Pending, copy), failed) = failed
    BY <2>3, <2>4, SavedMerges DEF Merges, Terminal
  <2>6. CopyFits(u, failed)
    BY <2>1, <2>4 DEF CopyFits
  <2>7. Puts(u, failed)
    BY <1>0, <2>1, <2>4, <2>5, <2>6, WritePuts
  <2> QED BY <2>1, <2>4, <2>7, ClosesKeep DEF Terminal
<1>2. CASE ApproveRefused(h, u)
  <2>a. PICK x : x = advanceState(row[u], "failed")
    OBVIOUS
  <2>1. HasStatus(u, {"running"}) /\ FailIfRunning(u) /\ UNCHANGED <<up, log, chat>>
    BY <1>2 DEF ApproveRefused
  <2>2. Puts(u, x)
    <3>1. row[u] \in CopiesInUse /\ row[u] \in Copies /\ CopyFits(u, row[u])
      BY <1>0, <2>1, RowOf, InUseExists DEF HasStatus, Fit
    <3>2. x.status = "failed" /\ x.session = row[u].session /\ x \in CopiesInUse
      BY <2>a, <3>1, AdvanceKeeps, AdvanceInUse DEF FlowStatuses
    <3>3. CopyFits(u, x)
      BY <3>1, <3>2 DEF CopyFits, ResearchStatuses
    <3>4. Save(u, x)
      BY <2>1, <2>a DEF FailIfRunning, Save
    <3> QED BY <1>0, <3>2, <3>3, <3>4, SavePuts
  <2>3. x.status = "failed"
    BY <1>0, <2>1, <2>a, RowOf, InUseExists, AdvanceKeeps
  <2> QED BY <2>1, <2>2, <2>3, ClosesKeep DEF Terminal
<1>3. CASE Reject(h, u)
  <2>a. PICK x, entry : /\ x = advanceState(row[u], "rejected")
                        /\ entry = [log[u] EXCEPT !.rejected = TRUE]
    OBVIOUS
  <2>1. /\ HasStatus(u, {"waiting_approval"}) /\ Save(u, x) /\ Log(u, entry)
        /\ UNCHANGED <<up, chat>>
    BY <1>3, <2>a DEF Reject
  <2>2. /\ row[u] \in CopiesInUse /\ row[u] \in Copies /\ CopyFits(u, row[u])
        /\ log[u] \in Logs
    BY <1>0, <2>1, RowOf, InUseExists DEF HasStatus, Fit, IndInv, TypeOK
  <2>3. x.status = "rejected" /\ x.session = row[u].session /\ x \in CopiesInUse
    BY <2>a, <2>2, AdvanceKeeps, AdvanceInUse DEF FlowStatuses
  <2>4. CopyFits(u, x)
    BY <2>1, <2>2, <2>3 DEF CopyFits, ResearchStatuses, HasStatus
  <2>5. Puts(u, x)
    BY <1>0, <2>1, <2>3, <2>4, SavePuts
  <2>6. /\ entry.launches = log[u].launches /\ entry.sent = log[u].sent
        /\ entry.faults = log[u].faults
    BY <2>a, <2>2 DEF Logs
  <2>7. log'[u] = entry /\ \A t \in Tasks : t # u => log'[t] = log[t]
    BY <1>0, <2>1 DEF Log, IndInv, TypeOK
  <2> QED BY <2>1, <2>3, <2>5, <2>6, <2>7, ClosesKeep DEF Terminal
<1> QED BY <1>1, <1>2, <1>3

\* A step that leaves statuses and sessions as they are.
LEMMA StillKeeps ==
    ASSUME RunnersInv, SoundStep, Inv', UNCHANGED <<up, log, chat, research, jules, crashes>>,
           \A t \in Tasks : \/ row'[t] = row[t]
                            \/ /\ Exists(t) /\ Exists(t)'
                               /\ row'[t].status = row[t].status
                               /\ row'[t].session = row[t].session
    PROVE  StepKeeps
<1>0. IndInv /\ Fit
  BY DEF RunnersInv, Inv
<1>1. Fit'
  BY <1>0 DEF Fit, FrameFits, ResearchFits, JulesFits, CopyFits, Exists
<1>2. ASSUME NEW t \in Tasks PROVE Tied(t)' /\ SendsCounted(t)'
  <2>1. Calm(t)
    BY DEF Calm, CalmRow, Acts, Tracks
  <2>2. HasStatus(t, {"completed"})' => HasStatus(t, {"completed"})
    BY DEF HasStatus, Exists
  <2> QED BY <1>0, <2>1, <2>2, CalmTied, SendsStay DEF RunnersInv
<1>3. RunningIsAlive'
  <2>1. \A t \in Tasks : HasStatus(t, {"running"})' =>
           HasStatus(t, {"running"}) /\ (row[t].session => row'[t].session)
    BY DEF HasStatus, Exists
  <2> QED BY <2>1 DEF RunnersInv, RunningIsAlive
<1>4. \A t \in Tasks : KeepsSession(t)
  BY DEF KeepsSession
<1> QED BY <1>1, <1>2, <1>3, <1>4 DEF RunnersInv, StepKeeps

\* A lock that runs out changes neither.
LEMMA LockKeeps ==
    ASSUME RunnersInv, SoundStep, Inv', UNCHANGED <<chat, research, jules, crashes>>,
           NEW u \in Tasks, LockExpires(u)
    PROVE  StepKeeps
<1>a. PICK x : x = [row[u] EXCEPT !.lock = "free"]
  OBVIOUS
<1>0. IndInv
  BY DEF RunnersInv, Inv
<1>1. Exists(u) /\ row' = [row EXCEPT ![u] = x] /\ UNCHANGED <<up, log>>
  BY <1>0, <1>a DEF LockExpires, IndInv, TypeOK
<1>2. x.status = row[u].status /\ x.session = row[u].session /\ x # NoRow
  <2>1. row[u] \in CopiesInUse /\ row[u] \in Copies
    BY <1>0, <1>1, RowInUse, InUseExists DEF Exists
  <2> QED BY <1>a, <2>1, AmendInUse, InUseExists DEF Copies
<1>3. row'[u] = x /\ \A t \in Tasks : t # u => row'[t] = row[t]
  BY <1>0, <1>1 DEF IndInv, TypeOK
<1> QED BY <1>1, <1>2, <1>3, StillKeeps DEF Exists

\* A crash pays for the send that may have to be repeated.
LEMMA CrashKeeps ==
    ASSUME RunnersInv, SoundStep, Inv', Crash
    PROVE  StepKeeps
<1>0. IndInv /\ Fit /\ crashes \in Nat
  BY CrashAssumption DEF RunnersInv, Inv, IndInv, TypeOK
<1>1. /\ \A h \in Handlers : chat'[h].pc = "idle"
      /\ research'.pc = "idle" /\ jules'.pc = "idle"
      /\ ~up' /\ row' = row /\ log' = log /\ crashes' = crashes + 1
  BY DEF Crash, ResearchEnds, JulesEnds, IdleFrame, IdleResearch, IdleJules
<1>2. Fit'
  BY <1>0, <1>1 DEF Fit, FrameFits, ResearchFits, JulesFits, CopyFits, Exists
<1>3. ASSUME NEW t \in Tasks PROVE Tied(t)'
  <2>1. Calm(t)
    BY <1>1 DEF Calm, CalmRow, Acts, Tracks
  <2> QED BY <2>1, CalmTied DEF RunnersInv
<1>4. ASSUME NEW t \in Tasks PROVE SendsCounted(t)'
  <2>1. log[t].sent \in Nat /\ log[t].faults \in Nat
    BY <1>0 DEF IndInv, TypeOK, Logs
  <2>2. log[t].sent <= log[t].faults + crashes + 1
    BY <1>0, <2>1 DEF RunnersInv, SendsCounted, SendsPaid
  <2>3. SendsPaid(t)'
    BY <1>0, <1>1, <2>1, <2>2 DEF SendsPaid
  <2>4. CompletionSent(t)'
    BY <1>1 DEF RunnersInv, SendsCounted, CompletionSent, HasStatus, Exists, Taken
  <2> QED BY <2>3, <2>4 DEF SendsCounted
<1>5. RunningIsAlive'
  BY <1>1 DEF RunningIsAlive
<1>6. \A t \in Tasks : KeepsSession(t)
  BY <1>1 DEF KeepsSession
<1> QED BY <1>2, <1>3, <1>4, <1>5, <1>6 DEF RunnersInv, StepKeeps

\* The boot leaves no row running.
LEMMA BootKeeps ==
    ASSUME RunnersInv, SoundStep, Inv', Boot
    PROVE  StepKeeps
<1>0. IndInv /\ Fit
  BY DEF RunnersInv, Inv
<1>1. UNCHANGED <<log, chat, research, jules, crashes>>
  BY DEF Boot
<1>2. ASSUME NEW t \in Tasks, HasStatus(t, {"running"})
      PROVE  /\ Exists(t)' /\ row'[t].status = "failed"
             /\ row'[t].session = row[t].session
  <2>1. row[t] \in CopiesInUse /\ row[t] \in Copies
    BY <1>0, <1>2, RowOf, InUseExists
  <2>a. PICK x : x = advanceState(row[t], "failed")
    OBVIOUS
  <2>2. x \in CopiesInUse /\ x.status = "failed" /\ x.session = row[t].session
    BY <2>1, <2>a, AdvanceInUse, AdvanceKeeps DEF FlowStatuses
  <2>3. row'[t] = Saved(row[t], x)
    BY <1>2, <2>a DEF Boot
  <2>4. row'[t] = x
    BY <2>1, <2>2, <2>3, SavedMerges DEF Merges, Terminal
  <2> QED BY <2>2, <2>4, InUseExists DEF Exists
<1>3. \A t \in Tasks : ~HasStatus(t, {"running"}) => row'[t] = row[t]
  BY DEF Boot
<1>4. Fit'
  <2>1. \A t \in Tasks : Exists(t)' => CopyFits(t, row'[t])
    <3>1. ASSUME NEW t \in Tasks, HasStatus(t, {"running"}) PROVE CopyFits(t, row'[t])
      BY <1>0, <1>2, <3>1 DEF Fit, CopyFits, HasStatus, ResearchStatuses
    <3> QED BY <1>0, <1>3, <3>1 DEF Fit, Exists
  <2> QED BY <1>0, <1>1, <2>1 DEF Fit, FrameFits, ResearchFits, JulesFits, CopyFits
<1>5. ASSUME NEW t \in Tasks PROVE Tied(t)' /\ SendsCounted(t)'
  <2>1. CalmRow(t)
    BY <1>2, <1>3 DEF CalmRow, Terminal
  <2>2. Calm(t)
    BY <1>1, <2>1 DEF Calm, Acts, Tracks
  <2>3. HasStatus(t, {"completed"})' => HasStatus(t, {"completed"})
    BY <1>2, <1>3 DEF HasStatus, Exists
  <2> QED BY <1>0, <1>1, <2>2, <2>3, CalmTied, SendsStay DEF RunnersInv
<1>6. RunningIsAlive'
  BY <1>2, <1>3 DEF RunningIsAlive, HasStatus, Exists
<1>7. \A t \in Tasks : KeepsSession(t)
  BY <1>2, <1>3 DEF KeepsSession
<1> QED BY <1>4, <1>5, <1>6, <1>7 DEF RunnersInv, StepKeeps

\* Every step of a handler keeps the invariant.
LEMMA ChatKeeps ==
    ASSUME RunnersInv, SoundStep, Inv', ChatNext, UNCHANGED <<research, jules, crashes>>
    PROVE  StepKeeps
<1>1. PICK h \in Handlers :
         \/ \E t \in Tasks : \/ MessageArrives(h, t) \/ MessageBlocked(h, t)
                             \/ Approve(h, t) \/ ApproveRefused(h, t) \/ Reject(h, t)
         \/ PrepareThrows(h) \/ HoldForApproval(h) \/ LaunchNow(h)
         \/ PromptDone(h) \/ PromptThrows(h)
         \/ ResumeApproved(h) \/ NotifyThrows(h)
         \/ \E outcome \in {"success", "failure", "blocked", "awaiting", "pending"} :
               ExecutorReturns(h, outcome)
         \/ ExecutorThrows(h) \/ ReplyDone(h) \/ ReplyThrows(h)
         \/ ApologyDone(h) \/ ApologyThrows(h)
  BY DEF ChatNext
<1>2. ASSUME NEW t \in Tasks,
             \/ MessageArrives(h, t) \/ MessageBlocked(h, t)
             \/ Approve(h, t) \/ ApproveRefused(h, t) \/ Reject(h, t)
      PROVE  StepKeeps
  BY <1>2, ArrivesKeeps, ApproveKeeps, DecisionKeeps
<1>3. ASSUME NEW outcome \in {"success", "failure", "blocked", "awaiting", "pending"},
             ExecutorReturns(h, outcome)
      PROVE  StepKeeps
  BY <1>3, ReturnsClosed, ReturnsOpen
<1>4. CASE HoldForApproval(h) \/ LaunchNow(h) \/ ResumeApproved(h)
  BY <1>4, HoldKeeps, LaunchKeeps
<1>5. CASE \/ PrepareThrows(h) \/ PromptDone(h) \/ PromptThrows(h) \/ NotifyThrows(h)
           \/ ExecutorThrows(h) \/ ReplyDone(h) \/ ReplyThrows(h)
           \/ ApologyDone(h) \/ ApologyThrows(h)
  BY <1>5, LeavingSteps
<1> QED BY <1>1, <1>2, <1>3, <1>4, <1>5

-----------------------------------------------------------------------------
(* The account of one task in a step of a worker.                          *)

\* What the account of u allows.
LEMMA PaidFacts ==
    ASSUME RunnersInv, NEW u \in Tasks
    PROVE  /\ log[u] \in Logs /\ crashes \in Nat
           /\ log[u].sent \in Nat /\ log[u].faults \in Nat
           /\ log[u].sent <= log[u].faults + crashes + 1
           /\ ~Answered(u) => log[u].sent <= log[u].faults + crashes
<1>1. log[u] \in Logs /\ crashes \in Nat
  BY CrashAssumption DEF RunnersInv, Inv, IndInv, TypeOK
<1>2. log[u].sent \in Nat /\ log[u].faults \in Nat
  BY <1>1 DEF Logs
<1>3. log[u].sent <= log[u].faults + crashes + (IF Answered(u) THEN 1 ELSE 0)
  BY DEF RunnersInv, SendsCounted, SendsPaid
<1>4. CASE Answered(u)
  BY <1>1, <1>2, <1>3, <1>4
<1>5. CASE ~Answered(u)
  BY <1>1, <1>2, <1>3, <1>5
<1> QED BY <1>4, <1>5

\* What the entries written by the workers change.
LEMMA WorkerEntries ==
    ASSUME NEW e \in Logs
    PROVE  /\ [e EXCEPT !.told = TRUE].launches = e.launches
           /\ [e EXCEPT !.told = TRUE].rejected = e.rejected
           /\ [e EXCEPT !.told = TRUE].sent = e.sent
           /\ [e EXCEPT !.told = TRUE].faults = e.faults
           /\ [e EXCEPT !.faults = @ + 1].launches = e.launches
           /\ [e EXCEPT !.faults = @ + 1].rejected = e.rejected
           /\ [e EXCEPT !.faults = @ + 1].sent = e.sent
           /\ [e EXCEPT !.faults = @ + 1].faults = e.faults + 1
           /\ [e EXCEPT !.sent = @ + 1, !.told = TRUE].launches = e.launches
           /\ [e EXCEPT !.sent = @ + 1, !.told = TRUE].rejected = e.rejected
           /\ [e EXCEPT !.sent = @ + 1, !.told = TRUE].sent = e.sent + 1
           /\ [e EXCEPT !.sent = @ + 1, !.told = TRUE].faults = e.faults
<1>1. /\ [e EXCEPT !.told = TRUE].launches = e.launches
      /\ [e EXCEPT !.told = TRUE].rejected = e.rejected
      /\ [e EXCEPT !.told = TRUE].sent = e.sent
      /\ [e EXCEPT !.told = TRUE].faults = e.faults
  BY DEF Logs
<1>2. /\ [e EXCEPT !.faults = @ + 1].launches = e.launches
      /\ [e EXCEPT !.faults = @ + 1].rejected = e.rejected
      /\ [e EXCEPT !.faults = @ + 1].sent = e.sent
      /\ [e EXCEPT !.faults = @ + 1].faults = e.faults + 1
  BY DEF Logs
<1>3. /\ [e EXCEPT !.sent = @ + 1, !.told = TRUE].launches = e.launches
      /\ [e EXCEPT !.sent = @ + 1, !.told = TRUE].rejected = e.rejected
      /\ [e EXCEPT !.sent = @ + 1, !.told = TRUE].sent = e.sent + 1
      /\ [e EXCEPT !.sent = @ + 1, !.told = TRUE].faults = e.faults
  <2> DEFINE d == [e EXCEPT !.sent = @ + 1]
  <2>1. /\ d.launches = e.launches /\ d.rejected = e.rejected
        /\ d.sent = e.sent + 1 /\ d.faults = e.faults
    BY DEF Logs
  <2>2. [e EXCEPT !.sent = @ + 1, !.told = TRUE] = [d EXCEPT !.told = TRUE]
    BY DEF Logs
  <2>3. /\ [d EXCEPT !.told = TRUE].launches = d.launches
        /\ [d EXCEPT !.told = TRUE].rejected = d.rejected
        /\ [d EXCEPT !.told = TRUE].sent = d.sent
        /\ [d EXCEPT !.told = TRUE].faults = d.faults
    BY DEF Logs
  <2> QED BY <2>1, <2>2, <2>3
<1> QED BY <1>1, <1>2, <1>3

\* One entry of the log is written.
LEMMA WorkerLog ==
    ASSUME IndInv, NEW u \in Tasks, NEW e, Log(u, e)
    PROVE  log'[u] = e /\ \A t \in Tasks : t # u => log'[t] = log[t]
BY DEF Log, IndInv, TypeOK

\* A failed send is a fault, and nothing else.
LEMMA FaultLog ==
    ASSUME IndInv, NEW u \in Tasks, SendFailed(u)
    PROVE  /\ log'[u].launches = log[u].launches /\ log'[u].rejected = log[u].rejected
           /\ log'[u].sent = log[u].sent /\ log'[u].faults = log[u].faults + 1
           /\ \A t \in Tasks : t # u => log'[t] = log[t]
<1>1. log[u] \in Logs
  BY DEF IndInv, TypeOK
<1>2. PICK e : e = [log[u] EXCEPT !.faults = @ + 1]
  OBVIOUS
<1>3. log'[u] = e /\ \A t \in Tasks : t # u => log'[t] = log[t]
  <2>1. Log(u, e)
    BY <1>2 DEF SendFailed
  <2> QED BY <2>1, WorkerLog
<1>4. /\ e.launches = log[u].launches /\ e.rejected = log[u].rejected
      /\ e.sent = log[u].sent /\ e.faults = log[u].faults + 1
  BY <1>1, <1>2, WorkerEntries
<1> QED BY <1>3, <1>4

\* The chat took a result.
LEMMA SentLog ==
    ASSUME IndInv, NEW u \in Tasks, Log(u, [log[u] EXCEPT !.sent = @ + 1, !.told = TRUE])
    PROVE  /\ log'[u].launches = log[u].launches /\ log'[u].rejected = log[u].rejected
           /\ log'[u].sent = log[u].sent + 1 /\ log'[u].faults = log[u].faults
           /\ \A t \in Tasks : t # u => log'[t] = log[t]
<1>1. log[u] \in Logs
  BY DEF IndInv, TypeOK
<1>2. PICK e : e = [log[u] EXCEPT !.sent = @ + 1, !.told = TRUE]
  OBVIOUS
<1>3. log'[u] = e /\ \A t \in Tasks : t # u => log'[t] = log[t]
  <2>1. Log(u, e)
    BY <1>2
  <2> QED BY <2>1, WorkerLog
<1>4. /\ e.launches = log[u].launches /\ e.rejected = log[u].rejected
      /\ e.sent = log[u].sent + 1 /\ e.faults = log[u].faults
  BY <1>1, <1>2, WorkerEntries
<1> QED BY <1>3, <1>4

\* The chat was told of a failure, or that failed.
LEMMA ReportLog ==
    ASSUME IndInv, NEW u \in Tasks,
           Log(u, [log[u] EXCEPT !.told = TRUE]) \/ SendFailed(u)
    PROVE  /\ log'[u].launches = log[u].launches /\ log'[u].rejected = log[u].rejected
           /\ log'[u].sent = log[u].sent
           /\ log'[u].faults = log[u].faults \/ log'[u].faults = log[u].faults + 1
           /\ \A t \in Tasks : t # u => log'[t] = log[t]
<1>1. log[u] \in Logs
  BY DEF IndInv, TypeOK
<1>2. CASE SendFailed(u)
  BY <1>2, FaultLog
<1>3. CASE Log(u, [log[u] EXCEPT !.told = TRUE])
  <2>1. PICK e : e = [log[u] EXCEPT !.told = TRUE]
    OBVIOUS
  <2>2. log'[u] = e /\ \A t \in Tasks : t # u => log'[t] = log[t]
    <3>1. Log(u, e)
      BY <1>3, <2>1
    <3> QED BY <3>1, WorkerLog
  <2>3. /\ e.launches = log[u].launches /\ e.rejected = log[u].rejected
        /\ e.sent = log[u].sent /\ e.faults = log[u].faults
    BY <1>1, <2>1, WorkerEntries
  <2> QED BY <2>2, <2>3
<1> QED BY <1>2, <1>3

\* The account is in order when it covers the sends.
LEMMA PaidEnough ==
    ASSUME IndInv', NEW u \in Tasks,
           \/ log'[u].sent <= log'[u].faults + crashes'
           \/ log'[u].sent <= log'[u].faults + crashes' + 1 /\ Answered(u)'
    PROVE  SendsPaid(u)'
<1>1. log'[u] \in Logs /\ crashes' \in Nat
  BY CrashAssumption DEF IndInv, TypeOK
<1>2. log'[u].sent \in Nat /\ log'[u].faults \in Nat
  BY <1>1 DEF Logs
<1>3. CASE Answered(u)'
  <2>1. log'[u].sent <= log'[u].faults + crashes' + 1
    BY <1>1, <1>2
  <2> QED BY <1>3, <2>1 DEF SendsPaid
<1>4. CASE ~Answered(u)'
  <2>1. log'[u].sent <= log'[u].faults + crashes' + 0
    BY <1>1, <1>2, <1>4
  <2> QED BY <1>4, <2>1 DEF SendsPaid
<1> QED BY <1>3, <1>4

-----------------------------------------------------------------------------
(* Steps of the research worker.                                           *)

\* A step of the worker in its research task u keeps the invariant when it
\* keeps the account of u.
LEMMA ResearchKeeps ==
    ASSUME RunnersInv, SoundStep, Inv', UNCHANGED <<up, chat, jules, crashes>>, up,
           NEW u \in Tasks, Kind[u] = "research",
           research.pc # "idle" => research.task = u,
           research'.pc # "idle" => research'.task = u,
           ResearchFits(research'),
           OnlyRow(u), Exists(u)' => CopyFits(u, row'[u]),
           \A t \in Tasks : t # u => log'[t] = log[t],
           SendsCounted(u)',
           HasStatus(u, {"running"})' => Alive(u)'
    PROVE  StepKeeps
<1>0. IndInv /\ Fit
  BY DEF RunnersInv, Inv
<1>1. Fit'
  <2>1. \A t \in Tasks : Exists(t)' => CopyFits(t, row'[t])
    BY <1>0 DEF OnlyRow, Fit, Exists
  <2> QED BY <1>0, <2>1 DEF Fit, FrameFits, ResearchFits, JulesFits, CopyFits
<1>2. ASSUME NEW t \in Tasks, t # u
      PROVE  row'[t] = row[t] /\ Tied(t)' /\ SendsCounted(t)'
  <2>1. row'[t] = row[t] /\ log'[t] = log[t]
    BY <1>2 DEF OnlyRow
  <2>2. Calm(t)
    BY <2>1 DEF Calm, CalmRow, Acts, Tracks
  <2>3. InHand(t)' = InHand(t) /\ Taken(t)' = Taken(t)
    BY <1>2 DEF InHand, Taken
  <2>4. SendsCounted(t)'
    BY <2>1, <2>3 DEF RunnersInv, SendsCounted, SendsPaid, CompletionSent, Answered,
                      HasStatus, Exists
  <2> QED BY <2>1, <2>2, <2>4, CalmTied DEF RunnersInv
<1>3. Tied(u)'
  BY <1>1, ResearchTied
<1>4. RunningIsAlive'
  <2>1. ASSUME NEW t \in Tasks, t # u, HasStatus(t, {"running"})' PROVE Alive(t)'
    <3>1. HasStatus(t, {"running"}) /\ row'[t] = row[t]
      BY <1>2, <2>1 DEF HasStatus, Exists
    <3>2. Alive(t) /\ ~(research.pc = "searching" /\ research.task = t)
      BY <2>1, <3>1 DEF RunnersInv, RunningIsAlive, Alive
    <3> QED BY <3>1, <3>2 DEF Alive
  <2> QED BY <2>1 DEF RunningIsAlive, Alive
<1>5. \A t \in Tasks : KeepsSession(t)
  BY <1>0, <1>2 DEF KeepsSession, Fit, CopyFits
<1> QED BY <1>1, <1>2, <1>3, <1>4, <1>5 DEF RunnersInv, StepKeeps

\* A research is not running unless the worker searches for it.
LEMMA NotRunning ==
    ASSUME RunnersInv, up, NEW u \in Tasks, Kind[u] = "research",
           research.pc # "searching"
    PROVE  ~HasStatus(u, {"running"})
<1> SUFFICES ASSUME HasStatus(u, {"running"}) PROVE FALSE
  OBVIOUS
<1>1. Alive(u)
  BY DEF RunnersInv, RunningIsAlive, Alive
<1>2. \A h \in Handlers : ~(chat[h].pc = "executing" /\ chat[h].task = u)
  BY DEF RunnersInv, Fit, FrameFits
<1>3. ~row[u].session
  BY DEF RunnersInv, Fit, CopyFits, HasStatus
<1> QED BY <1>1, <1>2, <1>3 DEF Alive

\* The worker with task u has no other, and jules has another.
LEMMA ResearchHas ==
    ASSUME RunnersInv, research.pc # "idle"
    PROVE  /\ research.task \in Tasks /\ Kind[research.task] = "research"
           /\ Exists(research.task) /\ row[research.task] \in CopiesInUse
           /\ research.mem \in CopiesInUse /\ research.mem \in Copies
           /\ ~research.mem.session
BY FramesNow, RowInUse, InUseExists DEF RunnersInv, Inv, Fit, ResearchFits, FrameOK, Exists

\* No handler and no jules frame has a research task in hand.
LEMMA NoJules ==
    ASSUME Fit, NEW u \in Tasks, Kind[u] = "research"
    PROVE  /\ InHand(u) = (research.pc \in {"searching", "delivering"} /\ research.task = u)
           /\ Taken(u) = (research.pc = "accepted" /\ research.task = u)
<1>1. jules.pc # "idle" => jules.task # u
  BY DEF Fit, JulesFits
<1> QED BY <1>1 DEF InHand, Taken

\* A copy that waits for its delivery leaves no running row, and closes none
\* as completed that was not.
LEMMA PendingPut ==
    ASSUME NEW u \in Tasks, NEW copy, Puts(u, copy), copy.status = "delivery_pending"
    PROVE  /\ ~HasStatus(u, {"running"})'
           /\ HasStatus(u, {"completed"})' => HasStatus(u, {"completed"})
<1>1. canTransition("running", "delivery_pending")
  BY DEF canTransition, TRANSITIONS
<1> QED BY <1>1 DEF Puts, Merges, HasStatus, Exists

\* A research is enqueued.
LEMMA EnqueueKeeps ==
    ASSUME RunnersInv, SoundStep, Inv', UNCHANGED <<chat, jules, crashes>>,
           NEW u \in Tasks, Enqueue(u)
    PROVE  StepKeeps
<1>0. IndInv /\ Fit
  BY DEF RunnersInv, Inv
<1>1. /\ ~Exists(u) /\ Kind[u] = "research" /\ UNCHANGED <<up, log, research>>
      /\ row' = [row EXCEPT ![u] = Pending]
  BY DEF Enqueue
<1>2. Pending \in CopiesInUse /\ CopyFits(u, Pending) /\ Pending.status = "pending"
  BY <1>1, PendingInUse DEF CopyFits, Pending, ResearchStatuses
<1>3. /\ row'[u] = Pending /\ OnlyRow(u)
      /\ \A t \in Tasks : Exists(t)' => CopyFits(t, row'[t])
  BY <1>0, <1>1, <1>2, WritePuts, PutFits, SavesOneRow DEF IndInv, TypeOK
<1>4. Fit'
  BY <1>0, <1>1, <1>3 DEF Fit, FrameFits, ResearchFits, JulesFits, CopyFits
<1>5. ASSUME NEW t \in Tasks PROVE Tied(t)'
  <2>1. CASE t = u
    BY <1>1, <1>4, <2>1, ResearchTied
  <2>2. CASE t # u
    <3>1. Calm(t)
      BY <1>1, <1>3, <2>2 DEF Calm, CalmRow, OnlyRow, Acts, Tracks
    <3> QED BY <3>1, CalmTied DEF RunnersInv
  <2> QED BY <2>1, <2>2
<1>6. ASSUME NEW t \in Tasks PROVE SendsCounted(t)'
  <2>1. HasStatus(t, {"completed"})' => HasStatus(t, {"completed"})
    BY <1>2, <1>3 DEF HasStatus, Exists, OnlyRow
  <2> QED BY <1>0, <1>1, <2>1, SendsStay DEF RunnersInv
<1>7. RunningIsAlive'
  <2>1. \A t \in Tasks : HasStatus(t, {"running"})' =>
                            row'[t] = row[t] /\ HasStatus(t, {"running"})
    BY <1>2, <1>3 DEF HasStatus, Exists, OnlyRow
  <2> QED BY <1>1, <2>1 DEF RunnersInv, RunningIsAlive
<1>8. \A t \in Tasks : KeepsSession(t)
  BY <1>1, <1>3 DEF KeepsSession, OnlyRow
<1> QED BY <1>4, <1>5, <1>6, <1>7, <1>8 DEF RunnersInv, StepKeeps

\* The claimed copy of a row differs in its lock only.
LEMMA ClaimedCopy ==
    ASSUME IndInv, NEW u \in Tasks, Exists(u), NEW c, c = Claimed(u)
    PROVE  /\ c \in CopiesInUse /\ c \in Copies /\ Unlock(c) \in CopiesInUse
           /\ Unlock(c) \in Copies
           /\ c.status = row[u].status /\ c.session = row[u].session
           /\ Unlock(c).status = row[u].status /\ Unlock(c).session = row[u].session
<1>1. row[u] \in CopiesInUse /\ row[u] \in Copies
  BY RowInUse, InUseExists DEF Exists
<1>2. c \in CopiesInUse /\ c.status = row[u].status /\ c.session = row[u].session
  BY <1>1, AmendInUse DEF Claimed, Copies
<1>3. c \in Copies
  BY <1>2, InUseExists
<1>4. /\ Unlock(c) \in CopiesInUse /\ Unlock(c).status = c.status
      /\ Unlock(c).session = c.session
  BY <1>2, <1>3, UnlockInUse DEF Unlock, Copies
<1> QED BY <1>2, <1>3, <1>4, InUseExists

\* The worker claims a task to search, to send again, or to fail.
LEMMA ResearchClaimKeeps ==
    ASSUME RunnersInv, SoundStep, Inv', UNCHANGED <<chat, jules, crashes>>,
           NEW u \in Tasks,
           ResearchStarts(u) \/ ResearchRetries(u) \/ ResearchRerunFails(u)
    PROVE  StepKeeps
<1>0. IndInv /\ Fit /\ IndInv'
  BY DEF RunnersInv, Inv
<1>a. PICK c : c = Claimed(u)
  OBVIOUS
<1>1. /\ up /\ research.pc = "idle" /\ Kind[u] = "research" /\ Exists(u)
      /\ HasStatus(u, {"pending", "delivery_pending"}) /\ UNCHANGED <<up, log>>
  BY DEF ResearchStarts, ResearchRetries, ResearchRerunFails, ResearchAt, Claimable, HasStatus
<1>2. /\ c \in CopiesInUse /\ c \in Copies /\ Unlock(c) \in CopiesInUse
      /\ Unlock(c) \in Copies
      /\ c.status = row[u].status /\ c.session = row[u].session
      /\ Unlock(c).status = row[u].status /\ Unlock(c).session = row[u].session
  BY <1>0, <1>1, <1>a, ClaimedCopy
<1>3. ~row[u].session
  BY <1>0, <1>1 DEF Fit, CopyFits
<1>4. ~InHand(u) /\ ~Taken(u) /\ ~Answered(u) /\ ~HasStatus(u, Terminal)
  BY <1>0, <1>1, NoJules DEF Answered, HasStatus, Terminal
<1>5. /\ log[u].sent <= log[u].faults + crashes /\ log'[u] = log[u]
      /\ crashes' = crashes
  BY <1>1, <1>4, PaidFacts
<1>6. SendsPaid(u)'
  BY <1>0, <1>5, PaidEnough
<1>7. ASSUME NEW copy, Puts(u, copy), copy.status \in {"running", "delivery_pending", "failed"},
             ~Taken(u)', ResearchFits(research'), research'.task = u,
             HasStatus(u, {"running"})' => research'.pc = "searching"
      PROVE  StepKeeps
  <2>1. OnlyRow(u) /\ (Exists(u)' => CopyFits(u, row'[u]))
    BY <1>0, <1>7, PutFits DEF Puts
  <2>2. ~HasStatus(u, {"completed"})'
    <3>1. ~HasStatus(u, {"completed"})
      BY <1>4 DEF HasStatus, Terminal
    <3> QED BY <1>1, <1>7, <3>1 DEF Puts, Merges, HasStatus
  <2>3. SendsCounted(u)'
    BY <1>6, <1>7, <2>2 DEF SendsCounted, CompletionSent
  <2>4. HasStatus(u, {"running"})' => Alive(u)'
    BY <1>7 DEF Alive
  <2> QED BY <1>1, <1>7, <2>1, <2>3, <2>4, ResearchKeeps
<1>8. \A pc, x : ResearchGoto(pc, u, x) =>
         /\ research'.pc = pc /\ research'.task = u /\ research'.mem = x
         /\ pc # "accepted" => ~Taken(u)'
  <2>1. \A pc, x : ResearchGoto(pc, u, x) =>
           research'.pc = pc /\ research'.task = u /\ research'.mem = x
    BY DEF ResearchGoto
  <2>2. jules'.pc # "idle" => jules'.task # u
    BY <1>0, <1>1 DEF Fit, JulesFits
  <2> QED BY <2>1, <2>2 DEF Taken
<1>9. CASE ResearchStarts(u)
  <2>a. PICK parsed, copy : /\ parsed = advanceState(c, "parsed")
                            /\ copy = advanceState(parsed, "running")
    OBVIOUS
  <2>1. /\ row' = [row EXCEPT ![u] = Saved(Saved(c, parsed), copy)]
        /\ ResearchGoto("searching", u, copy) /\ HasStatus(u, {"pending"})
    BY <1>9, <1>a, <2>a DEF ResearchStarts, Claimable
  <2>2. /\ parsed \in CopiesInUse /\ parsed.status = "parsed"
        /\ parsed.session = row[u].session /\ parsed \in Copies
    BY <1>2, <2>a, AdvanceInUse, AdvanceKeeps, InUseExists DEF FlowStatuses
  <2>3. /\ copy \in CopiesInUse /\ copy.status = "running" /\ ~copy.session
    BY <1>3, <2>2, <2>a, AdvanceInUse, AdvanceKeeps DEF FlowStatuses
  <2>4. Saved(c, parsed) = parsed
    <3>1. canTransition(c.status, parsed.status)
      BY <1>2, <2>1, <2>2 DEF HasStatus, canTransition, TRANSITIONS
    <3> QED BY <1>2, <2>2, <3>1, SavedMerges DEF Merges
  <2>5. Saved(parsed, copy) = copy
    <3>1. canTransition(parsed.status, copy.status)
      BY <2>2, <2>3 DEF canTransition, TRANSITIONS
    <3> QED BY <2>2, <2>3, <3>1, SavedMerges DEF Merges
  <2>6. CopyFits(u, copy)
    BY <1>1, <2>3 DEF CopyFits, ResearchStatuses
  <2>7. Puts(u, copy)
    BY <1>0, <2>1, <2>3, <2>4, <2>5, <2>6, WritePuts
  <2>8. ResearchFits(research')
    BY <1>1, <1>8, <2>1, <2>3 DEF ResearchFits
  <2> QED BY <1>7, <1>8, <2>1, <2>3, <2>7, <2>8
<1>10. CASE ResearchRetries(u)
  <2>1. Save(u, c) /\ ResearchGoto("delivering", u, c) /\ HasStatus(u, {"delivery_pending"})
    BY <1>10, <1>a DEF ResearchRetries, Claimable
  <2>2. c.status = "delivery_pending" /\ ~c.session
    BY <1>2, <1>3, <2>1 DEF HasStatus
  <2>3. CopyFits(u, c)
    BY <1>1, <2>2 DEF CopyFits, ResearchStatuses
  <2>4. Puts(u, c)
    BY <1>0, <1>2, <2>1, <2>3, SavePuts
  <2>5. ResearchFits(research')
    BY <1>1, <1>8, <2>1, <2>2 DEF ResearchFits
  <2> QED BY <1>7, <1>8, <2>1, <2>2, <2>4, <2>5, PendingPut
<1>11. CASE ResearchRerunFails(u)
  <2>a. PICK first, copy : first = Unlock(c) /\ copy = advanceState(first, "failed")
    OBVIOUS
  <2>1. /\ SaveTwice(u, first, copy) /\ ResearchGoto("reporting", u, copy)
        /\ HasStatus(u, {"delivery_pending"})
    BY <1>11, <1>a, <2>a DEF ResearchRerunFails, Claimable
  <2>2. /\ first \in CopiesInUse /\ copy \in CopiesInUse /\ copy.status = "failed"
        /\ ~first.session /\ copy.session = first.session /\ first.status = "delivery_pending"
    BY <1>2, <1>3, <2>1, <2>a, AdvanceInUse, AdvanceKeeps DEF FlowStatuses, HasStatus
  <2>3. CopyFits(u, copy)
    BY <1>1, <2>2 DEF CopyFits, ResearchStatuses
  <2>4. canTransition(first.status, copy.status)
    BY <2>2 DEF canTransition, TRANSITIONS
  <2>5. Puts(u, copy)
    BY <1>0, <2>1, <2>2, <2>3, <2>4, TwicePuts
  <2>6. ~HasStatus(u, {"running"})'
    BY <2>2, <2>5, TerminalLands DEF HasStatus, Terminal
  <2>7. ResearchFits(research')
    BY <1>1, <1>8, <2>1, <2>2 DEF ResearchFits
  <2> QED BY <1>7, <1>8, <2>1, <2>2, <2>5, <2>6, <2>7
<1> QED BY <1>9, <1>10, <1>11

\* The search ends: its result is delivered next, or its failure reported.
LEMMA SearchKeeps ==
    ASSUME RunnersInv, SoundStep, Inv', UNCHANGED <<chat, jules, crashes>>,
           SearchThrows \/ \E found \in BOOLEAN : SearchDone(found)
    PROVE  StepKeeps
<1>0. IndInv /\ Fit /\ IndInv'
  BY DEF RunnersInv, Inv
<1>a. PICK u, m : u = research.task /\ m = research.mem
  OBVIOUS
<1>1. PICK first, copy, pc, s :
         /\ up /\ research.pc = "searching" /\ UNCHANGED <<up, log>>
         /\ SaveTwice(u, first, copy) /\ ResearchGoto(pc, u, copy)
         /\ copy = advanceState(first, s)
         /\ \E b \in BOOLEAN : first \in {Unlock(m), [Unlock(m) EXCEPT !.result = b]}
         /\ \/ pc = "delivering" /\ s = "delivery_pending"
            \/ pc = "reporting" /\ s = "failed"
  BY <1>a DEF SearchThrows, SearchDone, ResearchAt
<1>2. /\ u \in Tasks /\ Kind[u] = "research" /\ Exists(u)
      /\ m \in CopiesInUse /\ m \in Copies /\ ~m.session /\ m.status = "running"
  BY <1>0, <1>1, <1>a, ResearchHas DEF Fit, ResearchFits
<1>3. /\ first \in CopiesInUse /\ first \in Copies
      /\ first.status = "running" /\ ~first.session
  <2>1. /\ Unlock(m) \in CopiesInUse /\ Unlock(m) \in Copies
        /\ Unlock(m).status = "running" /\ ~Unlock(m).session
    BY <1>2, UnlockInUse, InUseExists DEF Unlock, Copies
  <2>2. PICK x : x = Unlock(m)
    OBVIOUS
  <2>3. ASSUME NEW b \in BOOLEAN
        PROVE  /\ [x EXCEPT !.result = b] \in CopiesInUse
               /\ [x EXCEPT !.result = b].status = x.status
               /\ [x EXCEPT !.result = b].session = x.session
    BY <2>1, <2>2, AmendInUse DEF Copies
  <2> QED BY <1>1, <2>1, <2>2, <2>3, InUseExists
<1>4. /\ copy \in CopiesInUse /\ copy.status = s /\ ~copy.session
  BY <1>1, <1>3, AdvanceInUse, AdvanceKeeps DEF FlowStatuses
<1>5. CopyFits(u, copy)
  BY <1>1, <1>2, <1>4 DEF CopyFits, ResearchStatuses
<1>6. canTransition(first.status, copy.status)
  BY <1>1, <1>3, <1>4 DEF canTransition, TRANSITIONS
<1>7. Puts(u, copy)
  BY <1>0, <1>1, <1>2, <1>3, <1>4, <1>5, <1>6, TwicePuts
<1>8. /\ ~HasStatus(u, {"running"})'
      /\ HasStatus(u, {"completed"})' => HasStatus(u, {"completed"})
  <2>1. CASE s = "delivery_pending"
    BY <1>2, <1>4, <1>7, <2>1, PendingPut
  <2>2. CASE s = "failed"
    <3>1. row'[u].status = "failed"
      BY <1>2, <1>4, <1>7, <2>2, TerminalLands DEF Terminal
    <3> QED BY <3>1 DEF HasStatus
  <2> QED BY <1>1, <2>1, <2>2
<1>9. /\ research'.pc = pc /\ research'.task = u /\ research'.mem = copy
  BY <1>1 DEF ResearchGoto
<1>10. ResearchFits(research')
  BY <1>1, <1>2, <1>4, <1>9 DEF ResearchFits
<1>11. SendsCounted(u)'
  <2>1. InHand(u) /\ ~Answered(u)
    BY <1>1, <1>a DEF InHand, Answered
  <2>2. /\ log[u].sent <= log[u].faults + crashes /\ log'[u] = log[u]
        /\ crashes' = crashes
    BY <1>1, <1>2, <2>1, PaidFacts
  <2>3. SendsPaid(u)'
    BY <1>0, <1>2, <2>2, PaidEnough
  <2>4. ~Taken(u)'
    <3>1. jules'.pc # "idle" => jules'.task # u
      BY <1>0, <1>2 DEF Fit, JulesFits
    <3> QED BY <1>1, <1>9, <3>1 DEF Taken
  <2>5. CompletionSent(u)'
    BY <1>2, <1>8, <2>2, <2>4 DEF RunnersInv, SendsCounted, CompletionSent
  <2> QED BY <2>3, <2>5 DEF SendsCounted
<1>12. OnlyRow(u) /\ (Exists(u)' => CopyFits(u, row'[u]))
  BY <1>0, <1>2, <1>7, PutFits DEF Puts
<1> QED BY <1>1, <1>2, <1>8, <1>9, <1>10, <1>11, <1>12, <1>a, ResearchKeeps

\* The chat took the result: the send is paid by the delivery.
LEMMA AcceptedKeeps ==
    ASSUME RunnersInv, SoundStep, Inv', UNCHANGED <<chat, jules, crashes>>,
           ResearchAccepted
    PROVE  StepKeeps
<1>0. IndInv /\ Fit /\ IndInv'
  BY DEF RunnersInv, Inv
<1>a. PICK u, m : u = research.task /\ m = research.mem
  OBVIOUS
<1>1. /\ up /\ research.pc = "delivering" /\ ResearchGoto("accepted", u, m)
      /\ Log(u, [log[u] EXCEPT !.sent = @ + 1, !.told = TRUE]) /\ UNCHANGED <<row, up>>
  BY <1>a DEF ResearchAccepted, ResearchAt
<1>2. /\ u \in Tasks /\ Kind[u] = "research" /\ Exists(u)
      /\ ~m.session /\ m.status = "delivery_pending"
  BY <1>0, <1>1, <1>a, ResearchHas DEF Fit, ResearchFits
<1>3. /\ log'[u].sent = log[u].sent + 1 /\ log'[u].faults = log[u].faults
      /\ \A t \in Tasks : t # u => log'[t] = log[t]
  BY <1>0, <1>1, <1>2, SentLog
<1>4. research'.pc = "accepted" /\ research'.task = u /\ research'.mem = m
  BY <1>1 DEF ResearchGoto
<1>5. ResearchFits(research')
  BY <1>2, <1>4 DEF ResearchFits
<1>6. ~HasStatus(u, {"running"})'
  <2>1. ~HasStatus(u, {"running"})
    BY <1>1, <1>2, NotRunning
  <2> QED BY <1>1, <2>1 DEF HasStatus, Exists
<1>7. SendsCounted(u)'
  <2>1. InHand(u) /\ ~Answered(u)
    BY <1>1, <1>a DEF InHand, Answered
  <2>2. /\ log[u].sent \in Nat /\ log[u].faults \in Nat /\ crashes \in Nat
        /\ log[u].sent <= log[u].faults + crashes /\ crashes' = crashes
    BY <1>2, <2>1, PaidFacts
  <2>3. log'[u].sent <= log'[u].faults + crashes' + 1 /\ log'[u].sent > 0
    BY <1>3, <2>2
  <2>4. jules'.pc # "idle" => jules'.task # u
    BY <1>0, <1>2 DEF Fit, JulesFits
  <2>5. Answered(u)'
    BY <1>4, <2>4 DEF Answered, InHand, Taken
  <2>6. SendsPaid(u)'
    BY <1>0, <1>2, <2>3, <2>5, PaidEnough
  <2> QED BY <2>3, <2>6 DEF SendsCounted, CompletionSent
<1>8. OnlyRow(u) /\ (Exists(u)' => CopyFits(u, row'[u]))
  BY <1>0, <1>1, <1>2 DEF OnlyRow, Fit, Exists
<1> QED BY <1>1, <1>2, <1>3, <1>4, <1>5, <1>6, <1>7, <1>8, <1>a, ResearchKeeps

\* The worker ends its tick.
LEMMA ResearchEndKeeps ==
    ASSUME RunnersInv, SoundStep, Inv', UNCHANGED <<chat, jules, crashes>>,
           ResearchDelivered \/ ResearchSendThrows \/ ResearchReported
    PROVE  StepKeeps
<1>0. IndInv /\ Fit /\ IndInv'
  BY DEF RunnersInv, Inv
<1>a. PICK u, m : u = research.task /\ m = research.mem
  OBVIOUS
<1>1. up /\ research.pc # "idle" /\ research.pc # "searching" /\ ResearchEnds /\ UNCHANGED up
  BY DEF ResearchDelivered, ResearchSendThrows, ResearchReported, ResearchAt
<1>2. /\ u \in Tasks /\ Kind[u] = "research" /\ Exists(u)
      /\ m \in CopiesInUse /\ m \in Copies /\ ~m.session
  BY <1>0, <1>1, <1>a, ResearchHas
<1>3. research'.pc = "idle" /\ ResearchFits(research')
  BY <1>1 DEF ResearchEnds, IdleResearch, ResearchFits
<1>4. ~InHand(u)' /\ ~Taken(u)'
  <2>1. jules'.pc # "idle" => jules'.task # u
    BY <1>0, <1>2 DEF Fit, JulesFits
  <2> QED BY <1>3, <2>1 DEF InHand, Taken
<1>5. /\ log[u].sent \in Nat /\ log[u].faults \in Nat /\ crashes \in Nat
      /\ log[u].sent <= log[u].faults + crashes + 1 /\ crashes' = crashes
      /\ ~Answered(u) => log[u].sent <= log[u].faults + crashes
  BY <1>2, PaidFacts
<1>6. ~HasStatus(u, {"running"})
  BY <1>1, <1>2, NotRunning
<1>7. HasStatus(u, {"completed"}) \/ Taken(u) => log[u].sent > 0
  BY <1>2 DEF RunnersInv, SendsCounted, CompletionSent
<1>8. CASE ResearchDelivered
  <2>a. PICK first, copy : first = Unlock(m) /\ copy = advanceState(first, "completed")
    OBVIOUS
  <2>1. SaveTwice(u, first, copy) /\ research.pc = "accepted" /\ UNCHANGED log
    BY <1>8, <1>a, <2>a DEF ResearchDelivered, ResearchAt
  <2>2. m.status = "delivery_pending"
    BY <1>0, <1>a, <2>1 DEF Fit, ResearchFits
  <2>3. /\ first \in CopiesInUse /\ first \in Copies
        /\ first.status = "delivery_pending" /\ ~first.session
    BY <1>2, <2>a, <2>2, UnlockInUse, InUseExists DEF Unlock, Copies
  <2>4. copy \in CopiesInUse /\ copy.status = "completed" /\ ~copy.session
    BY <2>3, <2>a, AdvanceInUse, AdvanceKeeps DEF FlowStatuses
  <2>5. CopyFits(u, copy)
    BY <1>2, <2>4 DEF CopyFits, ResearchStatuses
  <2>6. canTransition(first.status, copy.status)
    BY <2>3, <2>4 DEF canTransition, TRANSITIONS
  <2>7. Puts(u, copy)
    BY <1>0, <1>2, <2>1, <2>3, <2>4, <2>5, <2>6, TwicePuts
  <2>8. row'[u] = copy /\ Exists(u)'
    BY <1>2, <2>4, <2>7, TerminalLands DEF Terminal, Exists
  <2>9. Answered(u)' /\ ~HasStatus(u, {"running"})'
    BY <1>4, <2>4, <2>8 DEF Answered, HasStatus, Terminal
  <2>10. SendsCounted(u)'
    <3>1. log[u].sent > 0
      BY <1>7, <1>a, <2>1 DEF Taken
    <3>2. SendsPaid(u)'
      BY <1>0, <1>2, <1>5, <2>1, <2>9, PaidEnough
    <3> QED BY <2>1, <3>1, <3>2 DEF SendsCounted, CompletionSent
  <2>11. OnlyRow(u) /\ (Exists(u)' => CopyFits(u, row'[u]))
    BY <1>0, <1>2, <2>7, PutFits DEF Puts
  <2> QED BY <1>1, <1>2, <1>3, <2>1, <2>9, <2>10, <2>11, <1>a, ResearchKeeps
<1>9. CASE ResearchSendThrows
  <2>1. /\ Save(u, m) /\ SendFailed(u) /\ research.pc \in {"delivering", "accepted"}
    BY <1>9, <1>a DEF ResearchSendThrows, ResearchAt
  <2>2. m.status = "delivery_pending"
    BY <1>0, <1>a, <2>1 DEF Fit, ResearchFits
  <2>3. CopyFits(u, m)
    BY <1>2, <2>2 DEF CopyFits, ResearchStatuses
  <2>4. Puts(u, m)
    BY <1>0, <1>2, <2>1, <2>3, SavePuts
  <2>5. /\ ~HasStatus(u, {"running"})'
        /\ HasStatus(u, {"completed"})' => HasStatus(u, {"completed"})
    BY <1>2, <2>2, <2>4, PendingPut
  <2>6. /\ log'[u].sent = log[u].sent /\ log'[u].faults = log[u].faults + 1
        /\ \A t \in Tasks : t # u => log'[t] = log[t]
    BY <1>0, <1>2, <2>1, FaultLog
  <2>7. SendsCounted(u)'
    <3>1. log'[u].sent <= log'[u].faults + crashes'
      BY <1>5, <2>6
    <3>2. SendsPaid(u)'
      BY <1>0, <1>2, <3>1, PaidEnough
    <3>3. CompletionSent(u)'
      BY <1>4, <1>7, <2>5, <2>6 DEF CompletionSent
    <3> QED BY <3>2, <3>3 DEF SendsCounted
  <2>8. OnlyRow(u) /\ (Exists(u)' => CopyFits(u, row'[u]))
    BY <1>0, <1>2, <2>4, PutFits DEF Puts
  <2> QED BY <1>1, <1>2, <1>3, <2>5, <2>6, <2>7, <2>8, <1>a, ResearchKeeps
<1>10. CASE ResearchReported
  <2>1. /\ research.pc = "reporting" /\ UNCHANGED row
        /\ Log(u, [log[u] EXCEPT !.told = TRUE]) \/ SendFailed(u)
    BY <1>10, <1>a DEF ResearchReported, ResearchAt
  <2>2. /\ log'[u].sent = log[u].sent
        /\ log'[u].faults = log[u].faults \/ log'[u].faults = log[u].faults + 1
        /\ \A t \in Tasks : t # u => log'[t] = log[t]
    BY <1>0, <1>2, <2>1, ReportLog
  <2>3. \A s \in {"running", "completed"} : HasStatus(u, {s})' => HasStatus(u, {s})
    BY <2>1 DEF HasStatus, Exists
  <2>4. SendsCounted(u)'
    <3>1. CASE Answered(u)
      <4>1. ~Taken(u)
        BY <1>0, <1>2, <2>1, NoJules
      <4>2. Answered(u)'
        BY <1>4, <2>1, <3>1, <4>1 DEF Answered, HasStatus, Exists
      <4>3. log'[u].sent <= log'[u].faults + crashes' + 1
        BY <1>5, <2>2
      <4> QED BY <1>0, <1>2, <1>4, <1>7, <2>2, <2>3, <4>2, <4>3, PaidEnough
              DEF SendsCounted, CompletionSent
    <3>2. CASE ~Answered(u)
      <4>1. log'[u].sent <= log'[u].faults + crashes'
        BY <1>5, <2>2, <3>2
      <4> QED BY <1>0, <1>2, <1>4, <1>7, <2>2, <2>3, <4>1, PaidEnough
              DEF SendsCounted, CompletionSent
    <3> QED BY <3>1, <3>2
  <2>5. OnlyRow(u) /\ (Exists(u)' => CopyFits(u, row'[u]))
    BY <1>0, <1>2, <2>1 DEF OnlyRow, Fit, Exists
  <2>6. ~HasStatus(u, {"running"})'
    BY <1>6, <2>3
  <2> QED BY <1>1, <1>2, <1>3, <2>2, <2>4, <2>5, <2>6, <1>a, ResearchKeeps
<1> QED BY <1>8, <1>9, <1>10

-----------------------------------------------------------------------------
(* Steps of the jules worker.                                              *)

\* A step of the worker in its task u closes the row, writes a copy with the
\* session the row has too, or leaves the row alone.
LEMMA JulesKeeps ==
    ASSUME RunnersInv, SoundStep, Inv', UNCHANGED <<up, chat, research, crashes>>, up,
           NEW u \in Tasks, Kind[u] = "jules",
           jules.pc # "idle" => jules.task = u,
           jules'.pc # "idle" => jules'.task = u,
           JulesFits(jules'), NEW copy,
           \/ Puts(u, copy) /\ copy.status \in Terminal
           \/ Puts(u, copy) /\ copy.session /\ (Open(u) => row[u].session)
           \/ row' = row /\ (Tracks(u)' => Tracks(u)),
           \A t \in Tasks : t # u => log'[t] = log[t],
           log'[u].launches = log[u].launches, log'[u].rejected = log[u].rejected,
           SendsPaid(u)'
    PROVE  StepKeeps
<1>0. IndInv /\ Fit
  BY DEF RunnersInv, Inv
<1>1. OnlyRow(u) /\ \A t \in Tasks : Exists(t)' => CopyFits(t, row'[t])
  BY <1>0, PutFits DEF OnlyRow, Puts, Fit, Exists
<1>2. Fit'
  BY <1>0, <1>1 DEF Fit, FrameFits, ResearchFits, JulesFits, CopyFits
<1>3. ASSUME NEW t \in Tasks, t # u
      PROVE  row'[t] = row[t] /\ Tied(t)' /\ SendsCounted(t)'
  <2>1. row'[t] = row[t] /\ log'[t] = log[t]
    BY <1>1, <1>3 DEF OnlyRow
  <2>2. Calm(t)
    BY <1>3, <2>1 DEF Calm, CalmRow, Acts, Tracks
  <2>3. InHand(t)' = InHand(t) /\ Taken(t)' = Taken(t)
    BY <1>3 DEF InHand, Taken
  <2>4. SendsCounted(t)'
    BY <2>1, <2>3 DEF RunnersInv, SendsCounted, SendsPaid, CompletionSent, Answered,
                      HasStatus, Exists
  <2> QED BY <2>1, <2>2, <2>4, CalmTied DEF RunnersInv
<1>4. Tied(u)' /\ (HasStatus(u, {"running"})' => Alive(u)')
  <2>1. RejectionTied(u)'
    BY DEF RejectionTied
  <2>2. ASSUME Puts(u, copy), copy.status \in Terminal
        PROVE  SessionTied(u)' /\ ~HasStatus(u, {"running"})'
    <3>1. row'[u].status \in Terminal
      BY <2>2, TerminalLands
    <3> QED BY <3>1 DEF SessionTied, Open, HasStatus, Terminal
  <2>3. ASSUME Puts(u, copy), copy.session, Open(u) => row[u].session, copy.status \notin Terminal
        PROVE  SessionTied(u)' /\ Alive(u)'
    <3>1. row'[u].session
      BY <2>3 DEF Puts, Merges
    <3>2. Open(u)' /\ Exists(u) => Open(u)
      BY DEF SoundStep, RowStep, Open, HasStatus, Exists
    <3>3. ASSUME NEW h \in Handlers, Acts(h, u), Open(u)'
          PROVE  chat[h].mem.session
      <4>1. Exists(u)
        BY <1>0, <3>3, FramesNow DEF Acts, FrameOK
      <4> QED BY <2>3, <3>2, <3>3, <4>1 DEF RunnersInv, Tied, SessionTied
    <3>4. SessionTied(u)'
      BY <3>1, <3>3 DEF SessionTied, Acts
    <3> QED BY <3>1, <3>4 DEF Alive
  <2>4. ASSUME row' = row, Tracks(u)' => Tracks(u)
        PROVE  SessionTied(u)' /\ (HasStatus(u, {"running"})' => Alive(u)')
    <3>1. SessionTied(u)'
      BY <2>4 DEF RunnersInv, Tied, SessionTied, Open, Exists, Acts
    <3>2. HasStatus(u, {"running"})' => HasStatus(u, {"running"})
      BY <2>4 DEF HasStatus, Exists
    <3> QED BY <2>4, <3>1, <3>2 DEF RunnersInv, RunningIsAlive, Alive
  <2> QED BY <2>1, <2>2, <2>3, <2>4 DEF Tied
<1>5. CompletionSent(u)'
  BY DEF CompletionSent
<1>6. RunningIsAlive'
  <2>1. ASSUME NEW t \in Tasks, t # u, HasStatus(t, {"running"})' PROVE Alive(t)'
    <3>1. HasStatus(t, {"running"}) /\ row'[t] = row[t]
      BY <1>3, <2>1 DEF HasStatus, Exists
    <3>2. Alive(t)
      BY <3>1 DEF RunnersInv, RunningIsAlive, Alive
    <3> QED BY <3>1, <3>2 DEF Alive
  <2> QED BY <1>4, <2>1 DEF RunningIsAlive, Alive
<1>7. \A t \in Tasks : KeepsSession(t)
  <2>1. CASE row' = row
    BY <2>1 DEF KeepsSession
  <2>2. CASE Puts(u, copy) /\ copy.status \in Terminal
    BY <1>3, <2>2, TerminalLands DEF KeepsSession
  <2>3. CASE Puts(u, copy) /\ copy.session
    BY <1>3, <2>3 DEF KeepsSession, Puts, Merges
  <2> QED BY <2>1, <2>2, <2>3
<1> QED BY <1>2, <1>3, <1>4, <1>5, <1>6, <1>7 DEF RunnersInv, SendsCounted, StepKeeps

\* What the worker has in hand: a copy with the session of an open row.
LEMMA JulesHas ==
    ASSUME RunnersInv, jules.pc # "idle"
    PROVE  /\ jules.task \in Tasks /\ Kind[jules.task] = "jules"
           /\ Exists(jules.task) /\ jules.mem \in CopiesInUse /\ jules.mem \in Copies
           /\ jules.pc # "reporting" =>
                 /\ jules.mem.session
                 /\ Open(jules.task) => row[jules.task].session
<1>1. /\ jules.task \in Tasks /\ Kind[jules.task] = "jules"
      /\ Exists(jules.task) /\ jules.mem \in CopiesInUse /\ jules.mem \in Copies
  BY FramesNow, InUseExists DEF RunnersInv, Inv, Fit, JulesFits, FrameOK
<1>2. jules.pc # "reporting" => Tracks(jules.task) /\ jules.mem.session
  BY DEF RunnersInv, Inv, IndInv, TypeOK, JulesFrames, JulesPC, Fit, JulesFits, Tracks
<1> QED BY <1>1, <1>2 DEF RunnersInv, Tied, SessionTied

\* No research frame has a jules task in hand.
LEMMA NoResearch ==
    ASSUME Fit, NEW u \in Tasks, Kind[u] = "jules"
    PROVE  /\ InHand(u) = (jules.pc \in {"inspecting", "delivering"} /\ jules.task = u)
           /\ Taken(u) = (jules.pc = "accepted" /\ jules.task = u)
<1>1. research.pc # "idle" => research.task # u
  BY DEF Fit, ResearchFits
<1> QED BY <1>1 DEF InHand, Taken

\* The worker claims a task to poll, to send again, or to fail.
LEMMA JulesClaimKeeps ==
    ASSUME RunnersInv, SoundStep, Inv', UNCHANGED <<chat, research, crashes>>,
           NEW u \in Tasks,
           JulesRetries(u) \/ JulesUntracked(u) \/ JulesPolls(u)
    PROVE  StepKeeps
<1>0. IndInv /\ Fit /\ IndInv'
  BY DEF RunnersInv, Inv
<1>a. PICK c : c = Claimed(u)
  OBVIOUS
<1>1. /\ up /\ jules.pc = "idle" /\ Kind[u] = "jules" /\ Exists(u)
      /\ HasStatus(u, {"waiting_approval", "running", "delivery_pending"})
      /\ UNCHANGED <<up, log>>
  BY DEF JulesRetries, JulesUntracked, JulesPolls, JulesAt, JulesClaimable, Claimable, HasStatus
<1>2. /\ c \in CopiesInUse /\ c \in Copies /\ Unlock(c) \in CopiesInUse
      /\ Unlock(c) \in Copies
      /\ c.status = row[u].status /\ c.session = row[u].session
      /\ Unlock(c).status = row[u].status /\ Unlock(c).session = row[u].session
  BY <1>0, <1>1, <1>a, ClaimedCopy
<1>3. ~Answered(u)
  BY <1>0, <1>1, NoResearch DEF Answered, HasStatus, Terminal
<1>4. /\ log[u].sent <= log[u].faults + crashes /\ log'[u] = log[u]
      /\ crashes' = crashes
  BY <1>1, <1>3, PaidFacts
<1>5. SendsPaid(u)'
  BY <1>0, <1>4, PaidEnough
<1>6. \A pc, x : JulesGoto(pc, u, x) =>
         jules'.pc = pc /\ jules'.task = u /\ jules'.mem = x
  BY DEF JulesGoto
<1>7. ASSUME NEW pc \in {"inspecting", "delivering"}, row[u].session, Save(u, c),
             JulesGoto(pc, u, c), pc = "delivering" => c.status = "delivery_pending"
      PROVE  StepKeeps
  <2>1. CopyFits(u, c)
    BY <1>1, <1>2, <1>7 DEF CopyFits
  <2>2. Puts(u, c)
    BY <1>0, <1>2, <1>7, <2>1, SavePuts
  <2>3. c.status \in {"waiting_approval", "running", "delivery_pending"}
    BY <1>1, <1>2 DEF HasStatus
  <2>4. JulesFits(jules')
    BY <1>1, <1>2, <1>6, <1>7, <2>3 DEF JulesFits
  <2>5. jules'.task = u
    BY <1>6, <1>7
  <2> QED BY <1>1, <1>2, <1>5, <1>7, <2>2, <2>4, <2>5, JulesKeeps
<1>8. CASE JulesRetries(u)
  <2>1. /\ Save(u, c) /\ JulesGoto("delivering", u, c)
        /\ row[u].status = "delivery_pending"
    BY <1>8, <1>a DEF JulesRetries, Undelivered
  <2>2. row[u].session
    BY <1>0, <1>1, <2>1 DEF Fit, CopyFits
  <2> QED BY <1>2, <1>7, <2>1, <2>2
<1>9. CASE JulesPolls(u)
  <2>1. Save(u, c) /\ JulesGoto("inspecting", u, c) /\ row[u].session
    BY <1>9, <1>a DEF JulesPolls
  <2> QED BY <1>7, <2>1
<1>10. CASE JulesUntracked(u)
  <2>a. PICK first, copy : first = Unlock(c) /\ copy = advanceState(first, "failed")
    OBVIOUS
  <2>1. SaveTwice(u, first, copy) /\ JulesGoto("reporting", u, copy)
    BY <1>10, <1>a, <2>a DEF JulesUntracked
  <2>2. /\ first \in CopiesInUse /\ copy \in CopiesInUse /\ copy.status = "failed"
        /\ copy.session = first.session
        /\ first.status \in {"waiting_approval", "running", "delivery_pending"}
    BY <1>1, <1>2, <2>a, AdvanceInUse, AdvanceKeeps DEF FlowStatuses, HasStatus
  <2>3. CopyFits(u, copy)
    BY <1>1, <2>2 DEF CopyFits
  <2>4. canTransition(first.status, copy.status)
    BY <2>2 DEF canTransition, TRANSITIONS
  <2>5. Puts(u, copy)
    BY <1>0, <2>1, <2>2, <2>3, <2>4, TwicePuts
  <2>6. JulesFits(jules') /\ jules'.task = u
    BY <1>1, <1>6, <2>1 DEF JulesFits
  <2>7. copy.status \in Terminal
    BY <2>2 DEF Terminal
  <2> QED BY <1>1, <1>5, <2>5, <2>6, <2>7, JulesKeeps
<1> QED BY <1>8, <1>9, <1>10

\* The copy of the worker without its lock.
LEMMA JulesUnlocks ==
    ASSUME RunnersInv, jules.pc # "idle", NEW m, m = Unlocked
    PROVE  /\ m \in CopiesInUse /\ m \in Copies
           /\ m.status = jules.mem.status /\ m.session = jules.mem.session
           /\ jules.pc # "reporting" => m.session
<1>1. jules.mem \in CopiesInUse /\ jules.mem \in Copies
  BY JulesHas
<1>2. m \in CopiesInUse /\ m.status = jules.mem.status /\ m.session = jules.mem.session
  BY <1>1, UnlockInUse DEF Unlocked, Unlock, Copies
<1> QED BY <1>2, InUseExists, JulesHas

\* The session is inspected: the worker delivers, reports, or ends its tick.
LEMMA InspectKeeps ==
    ASSUME RunnersInv, SoundStep, Inv', UNCHANGED <<chat, research, crashes>>,
           \/ SessionCompleted \/ SessionFailed \/ SessionInReview \/ SessionWorks
           \/ InspectThrows
    PROVE  StepKeeps
<1>0. IndInv /\ Fit /\ IndInv'
  BY DEF RunnersInv, Inv
<1>a. PICK u, m : u = jules.task /\ m = Unlocked
  OBVIOUS
<1>1. up /\ jules.pc = "inspecting" /\ UNCHANGED <<up, log>>
  BY DEF SessionCompleted, SessionFailed, SessionInReview, SessionWorks, InspectThrows, JulesAt
<1>2. /\ u \in Tasks /\ Kind[u] = "jules" /\ Exists(u)
      /\ m \in CopiesInUse /\ m \in Copies /\ m.session
      /\ m.status \in {"waiting_approval", "running", "delivery_pending"}
      /\ Open(u) => row[u].session
  <2>1. jules.mem.status \in {"waiting_approval", "running", "delivery_pending"}
    BY <1>0, <1>1 DEF Fit, JulesFits
  <2> QED BY <1>1, <1>a, <2>1, JulesHas, JulesUnlocks
<1>3. InHand(u) /\ ~Answered(u)
  BY <1>1, <1>a DEF InHand, Answered
<1>4. /\ log[u].sent <= log[u].faults + crashes /\ log'[u] = log[u]
      /\ crashes' = crashes
  BY <1>1, <1>2, <1>3, PaidFacts
<1>5. SendsPaid(u)'
  BY <1>0, <1>2, <1>4, PaidEnough
<1>6. \A pc, x : JulesGoto(pc, u, x) =>
         jules'.pc = pc /\ jules'.task = u /\ jules'.mem = x
  BY DEF JulesGoto
<1>7. JulesEnds => JulesFits(jules') /\ jules'.pc = "idle"
  BY DEF JulesEnds, IdleJules, JulesFits
<1>8. ASSUME NEW copy, Puts(u, copy), copy.status \in Terminal \/ copy.session,
             JulesFits(jules'), jules'.pc # "idle" => jules'.task = u
      PROVE  StepKeeps
  BY <1>1, <1>2, <1>5, <1>8, <1>a, JulesKeeps
<1>9. ASSUME NEW first \in CopiesInUse, NEW copy \in CopiesInUse,
             SaveTwice(u, first, copy), copy.session,
             canTransition(first.status, copy.status)
      PROVE  Puts(u, copy)
  <2>1. CopyFits(u, copy)
    BY <1>2, <1>9 DEF CopyFits
  <2> QED BY <1>0, <1>2, <1>9, <2>1, TwicePuts
<1>10. CASE SessionCompleted
  <2>a. PICK done : done = [m EXCEPT !.result = TRUE]
    OBVIOUS
  <2>b. PICK running : running = IF done.status = "waiting_approval"
                                 THEN advanceState(done, "running") ELSE done
    OBVIOUS
  <2>c. PICK copy : copy = advanceState(running, "delivery_pending")
    OBVIOUS
  <2>1. SaveTwice(u, running, copy) /\ JulesGoto("delivering", u, copy)
    BY <1>10, <1>a, <2>a, <2>b, <2>c DEF SessionCompleted
  <2>2. done \in CopiesInUse /\ done.status = m.status /\ done.session = m.session
    BY <1>2, <2>a, AmendInUse DEF Copies
  <2>3. /\ running \in CopiesInUse /\ running.session
        /\ running.status \in {"running", "delivery_pending"}
    <3>1. done \in Copies
      BY <2>2, InUseExists
    <3>2. CASE done.status = "waiting_approval"
      <4>1. running = advanceState(done, "running")
        BY <2>b, <3>2
      <4> QED BY <1>2, <2>2, <3>1, <4>1, AdvanceInUse, AdvanceKeeps DEF FlowStatuses
    <3>3. CASE done.status # "waiting_approval"
      <4>1. running = done
        BY <2>b, <3>3
      <4> QED BY <1>2, <2>2, <3>3, <4>1
    <3> QED BY <3>2, <3>3
  <2>4. copy \in CopiesInUse /\ copy.session /\ copy.status = "delivery_pending"
    <3>1. running \in Copies
      BY <2>3, InUseExists
    <3> QED BY <2>3, <2>c, <3>1, AdvanceInUse, AdvanceKeeps DEF FlowStatuses
  <2>5. canTransition(running.status, copy.status)
    BY <2>3, <2>4 DEF canTransition, TRANSITIONS
  <2>6. Puts(u, copy)
    BY <1>9, <2>1, <2>3, <2>4, <2>5
  <2>7. JulesFits(jules') /\ jules'.task = u
    BY <1>2, <1>6, <2>1, <2>4 DEF JulesFits
  <2> QED BY <1>8, <2>4, <2>6, <2>7
<1>11. CASE SessionFailed
  <2>a. PICK copy : copy = advanceState(m, "failed")
    OBVIOUS
  <2>1. SaveTwice(u, m, copy) /\ JulesGoto("reporting", u, copy)
    BY <1>11, <1>a, <2>a DEF SessionFailed
  <2>2. copy \in CopiesInUse /\ copy.session /\ copy.status = "failed"
    BY <1>2, <2>a, AdvanceInUse, AdvanceKeeps DEF FlowStatuses
  <2>3. canTransition(m.status, copy.status)
    BY <1>2, <2>2 DEF canTransition, TRANSITIONS
  <2>4. Puts(u, copy)
    BY <1>2, <1>9, <2>1, <2>2, <2>3
  <2>5. JulesFits(jules') /\ jules'.task = u
    BY <1>2, <1>6, <2>1 DEF JulesFits
  <2> QED BY <1>8, <2>2, <2>4, <2>5
<1>12. CASE SessionInReview \/ SessionWorks
  <2>a. PICK s \in {"waiting_approval", "running"} :
            /\ JulesEnds
            /\ \/ Save(u, m)
               \/ /\ SaveTwice(u, m, advanceState(m, s))
                  /\ \/ m.status = "running" /\ s = "waiting_approval"
                     \/ m.status = "waiting_approval" /\ s = "running"
    <3>1. CASE SessionInReview
      <4>1. /\ JulesEnds
            /\ IF m.status = "running"
               THEN SaveTwice(u, m, advanceState(m, "waiting_approval"))
               ELSE Save(u, m)
        BY <1>a, <3>1 DEF SessionInReview
      <4> QED BY <4>1
    <3>2. CASE SessionWorks
      <4>1. /\ JulesEnds
            /\ IF m.status = "waiting_approval"
               THEN SaveTwice(u, m, advanceState(m, "running"))
               ELSE Save(u, m)
        BY <1>a, <3>2 DEF SessionWorks
      <4> QED BY <4>1
    <3> QED BY <1>12, <3>1, <3>2
  <2>b. PICK copy : copy = advanceState(m, s)
    OBVIOUS
  <2>1. CASE Save(u, m)
    <3>1. CopyFits(u, m)
      BY <1>2 DEF CopyFits
    <3>2. Puts(u, m)
      BY <1>0, <1>2, <2>1, <3>1, SavePuts
    <3> QED BY <1>2, <1>7, <1>8, <2>a, <3>2
  <2>2. CASE ~Save(u, m)
    <3>1. SaveTwice(u, m, copy)
      BY <2>2, <2>a, <2>b
    <3>2. copy \in CopiesInUse /\ copy.session /\ copy.status = s
      BY <1>2, <2>b, AdvanceInUse, AdvanceKeeps DEF FlowStatuses
    <3>3. canTransition(m.status, copy.status)
      BY <2>2, <2>a, <3>2 DEF canTransition, TRANSITIONS
    <3>4. Puts(u, copy)
      BY <1>2, <1>9, <3>1, <3>2, <3>3
    <3> QED BY <1>7, <1>8, <2>a, <3>2, <3>4
  <2> QED BY <2>1, <2>2
<1>13. CASE InspectThrows
  <2>1. row' = row /\ JulesEnds
    BY <1>13 DEF InspectThrows
  <2>2. ~Tracks(u)'
    BY <1>7, <2>1 DEF Tracks
  <2> QED BY <1>1, <1>2, <1>5, <1>7, <1>a, <2>1, <2>2, JulesKeeps
<1> QED BY <1>10, <1>11, <1>12, <1>13

\* The chat took the result, or the worker ends the delivery or the report.
LEMMA JulesSendKeeps ==
    ASSUME RunnersInv, SoundStep, Inv', UNCHANGED <<chat, research, crashes>>,
           JulesAccepted \/ JulesDelivered \/ JulesSendThrows \/ JulesReported
    PROVE  StepKeeps
<1>0. IndInv /\ Fit /\ IndInv'
  BY DEF RunnersInv, Inv
<1>a. PICK u, m : u = jules.task /\ m = Unlocked
  OBVIOUS
<1>1. up /\ jules.pc \in {"delivering", "accepted", "reporting"} /\ UNCHANGED up
  BY DEF JulesAccepted, JulesDelivered, JulesSendThrows, JulesReported, JulesAt
<1>2. /\ u \in Tasks /\ Kind[u] = "jules" /\ Exists(u)
      /\ m \in CopiesInUse /\ m \in Copies
      /\ jules.pc # "reporting" =>
            m.session /\ m.status = "delivery_pending" /\ (Open(u) => row[u].session)
  <2>1. jules.pc # "reporting" => jules.mem.status = "delivery_pending"
    BY <1>0, <1>1 DEF Fit, JulesFits
  <2> QED BY <1>1, <1>a, <2>1, JulesHas, JulesUnlocks
<1>3. /\ log[u].sent \in Nat /\ log[u].faults \in Nat /\ crashes \in Nat
      /\ log[u].sent <= log[u].faults + crashes + 1 /\ crashes' = crashes
      /\ ~Answered(u) => log[u].sent <= log[u].faults + crashes
  BY <1>2, PaidFacts
<1>4. JulesEnds => JulesFits(jules') /\ jules'.pc = "idle"
  BY DEF JulesEnds, IdleJules, JulesFits
<1>5. jules'.pc \in {"idle", "accepted"} =>
         ~InHand(u)' /\ (Taken(u)' <=> jules'.pc = "accepted" /\ jules'.task = u)
  <2>1. research'.pc # "idle" => research'.task # u
    BY <1>0, <1>2 DEF Fit, ResearchFits
  <2> QED BY <1>0, <2>1 DEF InHand, Taken
<1>6. CASE JulesAccepted
  <2>1. /\ jules.pc = "delivering" /\ JulesGoto("accepted", u, jules.mem)
        /\ Log(u, [log[u] EXCEPT !.sent = @ + 1, !.told = TRUE]) /\ row' = row
    BY <1>6, <1>a DEF JulesAccepted, JulesAt
  <2>2. /\ log'[u].launches = log[u].launches /\ log'[u].rejected = log[u].rejected
        /\ log'[u].sent = log[u].sent + 1 /\ log'[u].faults = log[u].faults
        /\ \A t \in Tasks : t # u => log'[t] = log[t]
    BY <1>0, <1>2, <2>1, SentLog
  <2>3. jules'.pc = "accepted" /\ jules'.task = u /\ jules'.mem = jules.mem
    BY <2>1 DEF JulesGoto
  <2>4. JulesFits(jules') /\ Tracks(u)
    BY <1>0, <1>a, <2>1, <2>3 DEF Fit, JulesFits, Tracks
  <2>5. SendsPaid(u)'
    <3>1. ~Answered(u)
      BY <1>a, <2>1 DEF InHand, Answered
    <3>2. log'[u].sent <= log'[u].faults + crashes' + 1
      BY <1>3, <2>2, <3>1
    <3>3. Answered(u)'
      BY <1>5, <2>3 DEF Answered
    <3> QED BY <1>0, <1>2, <3>2, <3>3, PaidEnough
  <2> QED BY <1>1, <1>2, <1>a, <2>1, <2>2, <2>3, <2>4, <2>5, JulesKeeps
<1>7. CASE JulesDelivered
  <2>a. PICK copy : copy = advanceState(m, "completed")
    OBVIOUS
  <2>1. SaveTwice(u, m, copy) /\ jules.pc = "accepted" /\ UNCHANGED log /\ JulesEnds
    BY <1>7, <1>a, <2>a DEF JulesDelivered, JulesAt
  <2>2. copy \in CopiesInUse /\ copy.status = "completed" /\ copy.session
    BY <1>2, <2>1, <2>a, AdvanceInUse, AdvanceKeeps DEF FlowStatuses
  <2>3. CopyFits(u, copy)
    BY <1>2, <2>2 DEF CopyFits
  <2>4. canTransition(m.status, copy.status)
    BY <1>2, <2>1, <2>2 DEF canTransition, TRANSITIONS
  <2>5. Puts(u, copy)
    BY <1>0, <1>2, <2>1, <2>2, <2>3, <2>4, TwicePuts
  <2>6. row'[u] = copy /\ Exists(u)' /\ copy.status \in Terminal
    BY <1>2, <2>2, <2>5, TerminalLands DEF Terminal, Exists
  <2>7. Answered(u)'
    BY <1>4, <1>5, <2>1, <2>6 DEF Answered, HasStatus
  <2>8. SendsPaid(u)'
    BY <1>0, <1>2, <1>3, <2>1, <2>7, PaidEnough
  <2> QED BY <1>1, <1>2, <1>4, <1>a, <2>1, <2>5, <2>6, <2>8, JulesKeeps
<1>8. CASE JulesSendThrows
  <2>1. /\ Save(u, m) /\ SendFailed(u) /\ JulesEnds
        /\ jules.pc # "reporting"
    BY <1>8, <1>a DEF JulesSendThrows, JulesAt
  <2>2. CopyFits(u, m)
    BY <1>2, <2>1 DEF CopyFits
  <2>3. Puts(u, m)
    BY <1>0, <1>2, <2>1, <2>2, SavePuts
  <2>4. /\ log'[u].launches = log[u].launches /\ log'[u].rejected = log[u].rejected
        /\ log'[u].sent = log[u].sent /\ log'[u].faults = log[u].faults + 1
        /\ \A t \in Tasks : t # u => log'[t] = log[t]
    BY <1>0, <1>2, <2>1, FaultLog
  <2>5. SendsPaid(u)'
    <3>1. log'[u].sent <= log'[u].faults + crashes'
      BY <1>3, <2>4
    <3> QED BY <1>0, <1>2, <3>1, PaidEnough
  <2> QED BY <1>1, <1>2, <1>4, <1>a, <2>1, <2>3, <2>4, <2>5, JulesKeeps
<1>9. CASE JulesReported
  <2>1. /\ jules.pc = "reporting" /\ row' = row /\ JulesEnds
        /\ Log(u, [log[u] EXCEPT !.told = TRUE]) \/ SendFailed(u)
    BY <1>9, <1>a DEF JulesReported, JulesAt
  <2>2. /\ log'[u].launches = log[u].launches /\ log'[u].rejected = log[u].rejected
        /\ log'[u].sent = log[u].sent
        /\ log'[u].faults = log[u].faults \/ log'[u].faults = log[u].faults + 1
        /\ \A t \in Tasks : t # u => log'[t] = log[t]
    BY <1>0, <1>2, <2>1, ReportLog
  <2>3. SendsPaid(u)'
    <3>1. CASE Answered(u)
      <4>1. ~Taken(u)
        BY <1>0, <1>2, <2>1, NoResearch
      <4>2. Answered(u)'
        BY <1>4, <1>5, <2>1, <3>1, <4>1 DEF Answered, HasStatus, Exists
      <4>3. log'[u].sent <= log'[u].faults + crashes' + 1
        BY <1>3, <2>2
      <4> QED BY <1>0, <1>2, <4>2, <4>3, PaidEnough
    <3>2. CASE ~Answered(u)
      <4>1. log'[u].sent <= log'[u].faults + crashes'
        BY <1>3, <2>2, <3>2
      <4> QED BY <1>0, <1>2, <4>1, PaidEnough
    <3> QED BY <3>1, <3>2
  <2>4. ~Tracks(u)'
    BY <1>4, <2>1 DEF Tracks
  <2> QED BY <1>1, <1>2, <1>4, <1>a, <2>1, <2>2, <2>3, <2>4, JulesKeeps
<1> QED BY <1>6, <1>7, <1>8, <1>9

-----------------------------------------------------------------------------
(* All steps, and the theorems.                                            *)

\* Every step of the research worker keeps the invariant.
LEMMA AllResearchKeeps ==
    ASSUME RunnersInv, SoundStep, Inv', ResearchNext, UNCHANGED <<chat, jules, crashes>>
    PROVE  StepKeeps
BY EnqueueKeeps, ResearchClaimKeeps, SearchKeeps, AcceptedKeeps, ResearchEndKeeps
   DEF ResearchNext

\* So does every step of the jules worker.
LEMMA AllJulesKeeps ==
    ASSUME RunnersInv, SoundStep, Inv', JulesNext, UNCHANGED <<chat, research, crashes>>
    PROVE  StepKeeps
BY JulesClaimKeeps, InspectKeeps, JulesSendKeeps DEF JulesNext

\* And every step of the system.
LEMMA NextKeeps ==
    ASSUME RunnersInv, [Next]_vars
    PROVE  StepKeeps
<1>1. SoundStep /\ Inv'
  BY NextSound, StepAccounted DEF RunnersInv, Inv
<1>2. CASE UNCHANGED vars
  <2>1. UNCHANGED <<row, up, log, chat, research, jules, crashes>>
    BY <1>2 DEF vars
  <2> QED BY <1>1, <2>1, StillKeeps
<1>3. CASE Next
  BY <1>1, <1>3, ChatKeeps, AllResearchKeeps, AllJulesKeeps, LockKeeps, CrashKeeps, BootKeeps
     DEF Next
<1> QED BY <1>2, <1>3

\* At the start there is nothing to keep.
LEMMA InitRunners == Init => RunnersInv
<1> SUFFICES ASSUME Init PROVE RunnersInv
  OBVIOUS
<1>1. Inv
  BY InitInvariant, InitAccounted DEF Inv
<1>2. /\ \A h \in Handlers : chat[h].pc = "idle"
      /\ research.pc = "idle" /\ jules.pc = "idle" /\ crashes = 0
  BY DEF Init, ChatInit, IdleFrame, ResearchInit, IdleResearch, JulesInit, IdleJules
<1>3. \A t \in Tasks : ~Exists(t) /\ log[t] = EmptyLog
  BY DEF Init, StoreInit, Exists
<1>4. Fit
  BY <1>2, <1>3 DEF Fit, FrameFits, ResearchFits, JulesFits
<1>5. ASSUME NEW t \in Tasks PROVE Tied(t) /\ SendsCounted(t)
  <2>1. Tied(t)
    BY <1>3 DEF Tied, SessionTied, RejectionTied, Open, HasStatus, EmptyLog
  <2>2. log[t].sent = 0 /\ log[t].faults = 0 /\ ~Answered(t)
    BY <1>2, <1>3 DEF EmptyLog, Answered, HasStatus, Taken
  <2>3. SendsPaid(t)
    BY <1>2, <2>2 DEF SendsPaid
  <2>4. CompletionSent(t)
    BY <1>2, <1>3 DEF CompletionSent, HasStatus, Taken
  <2> QED BY <2>1, <2>3, <2>4 DEF SendsCounted
<1>6. RunningIsAlive
  BY <1>3 DEF RunningIsAlive, HasStatus
<1> QED BY <1>1, <1>4, <1>5, <1>6 DEF RunnersInv

\* RunnersInv is inductive.
LEMMA RunnersInvariant == Spec => []RunnersInv
<1>1. RunnersInv /\ [Next]_vars => RunnersInv'
  BY NextKeeps DEF StepKeeps
<1> QED BY <1>1, InitRunners, PTL DEF Spec

\* No row says running while nobody works on it: the boot, the catches and
\* the workers leave none behind, for any number of handlers and tasks.
THEOREM RunningStaysAlive == Spec => []RunningIsAlive
<1>1. RunnersInv => RunningIsAlive
  BY DEF RunnersInv
<1> QED BY <1>1, RunnersInvariant, PTL

\* Handlers that still hold the waiting copy never start a /run task that
\* the operator has rejected.
THEOREM RejectedNeverLaunched == Spec => []RejectedRunNeverLaunched
<1>1. RunnersInv => RejectedRunNeverLaunched
  BY DEF RunnersInv, Tied, RejectionTied, RejectedRunNeverLaunched
<1> QED BY <1>1, RunnersInvariant, PTL

\* A research is closed as completed only after the chat took its result.
THEOREM CompletionWasSent == Spec => []CompletedResearchWasSent
<1>1. RunnersInv => CompletedResearchWasSent
  BY DEF RunnersInv, SendsCounted, CompletionSent, CompletedResearchWasSent
<1> QED BY <1>1, RunnersInvariant, PTL

\* Every send of a result but one is paid by a failed send or a crash, over
\* any number of claims, lock timeouts and retries.
THEOREM DuplicatesArePaid == Spec => []DuplicateNeedsFault
<1>1. RunnersInv => DuplicateNeedsFault
  <2> SUFFICES ASSUME RunnersInv, NEW t \in Tasks
               PROVE  log[t].sent <= 1 + log[t].faults + crashes
    BY DEF DuplicateNeedsFault
  <2> QED BY PaidFacts
<1> QED BY <1>1, RunnersInvariant, PTL

\* A jules row in delivery always has the session its worker polls.
THEOREM DeliveryStaysTracked == Spec => []JulesDeliveryIsTracked
<1>1. RunnersInv => JulesDeliveryIsTracked
  BY DEF RunnersInv, Fit, CopyFits, JulesDeliveryIsTracked, HasStatus
<1> QED BY <1>1, RunnersInvariant, PTL

\* No write of a stale copy loses the session of a task that stays open.
THEOREM SessionsAreKept == Spec => SessionKeptWhileOpen
<1>1. RunnersInv /\ [Next]_vars =>
        [\A t \in Tasks :
            Exists(t) /\ row[t].session /\ row'[t].status \notin Terminal
               => row'[t].session]_vars
  BY NextKeeps DEF StepKeeps, KeepsSession
<1> QED BY <1>1, RunnersInvariant, PTL DEF Spec, SessionKeptWhileOpen
=============================================================================
