----------------------------- MODULE ProcessLock -----------------------------
(***************************************************************************)
(* ProcessLockService: the lock file by which the host supervisor, the     *)
(* runtime and the minimal kernel refuse to run twice over one workspace.  *)
(* The calls are synchronous, but the processes are not synchronised: each *)
(* system call (read, kill, rm, open, write) is a step, and the steps of   *)
(* several processes interleave.  A process has a pid of its own, and a    *)
(* pid is not used again.                                                  *)
(***************************************************************************)
EXTENDS Naturals

CONSTANTS
    Procs,       \* the processes, named by their pids
    Missing,     \* the value of file when there is none
    Torn,        \* the value of file when its text does not parse
    Overlap,     \* may two processes be in acquire at the same time?
    MaxVanish    \* bound: how often somebody else deletes the file

ASSUME LockAssumption ==
    /\ Missing \notin Procs /\ Torn \notin Procs /\ Missing # Torn
    /\ Overlap \in BOOLEAN
    /\ MaxVanish \in Nat

VARIABLES
    file,        \* whose payload the lock file has, or Missing or Torn
    open,        \* the processes that have this file open for writing
    pc,          \* the call each process makes next
    seen,        \* the pid it read last
    acquired,    \* its field acquired
    vanished     \* how often the file was deleted from outside

vars == <<file, open, pc, seen, acquired, vanished>>

Acquiring == {"reading", "probing", "removing", "creating", "rereading",
              "reprobing", "truncating", "writing"}

Gone == {"refused", "dead"}

LockPC == Acquiring \cup {"idle", "releasing"} \cup Gone

Init ==
    /\ file = Missing /\ open = {}
    /\ pc       = [p \in Procs |-> "idle"]
    /\ seen     = [p \in Procs |-> p]
    /\ acquired = [p \in Procs |-> FALSE]
    /\ vanished = 0

\* kill(pid, 0)
isProcessAlive(p) == pc[p] \notin Gone

Owns(p) == acquired[p] /\ isProcessAlive(p)

Goto(p, next) == pc' = [pc EXCEPT ![p] = next]

\* readLock finds a payload, or takes a missing or torn file for no lock.
ReadsTo(p, found, none) ==
    IF file \in Procs
    THEN seen' = [seen EXCEPT ![p] = file] /\ Goto(p, found)
    ELSE Goto(p, none) /\ UNCHANGED seen

\* removeLockFileSafely: what is open under the name stays open without it;
\* when the file is kept busy, the failure is logged and the file stays.
Removes ==
    \/ file' = Missing /\ open' = {}
    \/ UNCHANGED <<file, open>>

-----------------------------------------------------------------------------
(* acquire                                                                 *)

Start(p) ==
    /\ pc[p] = "idle" /\ ~acquired[p]
    /\ Overlap \/ \A q \in Procs : pc[q] \notin Acquiring
    /\ Goto(p, "reading")
    /\ UNCHANGED <<file, open, seen, acquired, vanished>>

\* releaseStaleLock
ReadStale(p) ==
    /\ pc[p] = "reading"
    /\ ReadsTo(p, "probing", "creating")
    /\ UNCHANGED <<file, open, acquired, vanished>>

\* Mutant: a lock file that was read is removed, whoever it names.
ProbeStale_Always(p) ==
    /\ pc[p] = "probing"
    /\ Goto(p, "removing")
    /\ UNCHANGED <<file, open, seen, acquired, vanished>>

ProbeStale(p) ==
    /\ pc[p] = "probing"
    /\ Goto(p, IF isProcessAlive(seen[p]) THEN "creating" ELSE "removing")
    /\ UNCHANGED <<file, open, seen, acquired, vanished>>

RemoveStale(p) ==
    /\ pc[p] = "removing" /\ Removes
    /\ Goto(p, "creating")
    /\ UNCHANGED <<seen, acquired, vanished>>

\* The exclusive open: the new file is empty until it is written.
Create(p) ==
    /\ pc[p] = "creating"
    /\ \/ /\ file = Missing
          /\ file' = Torn /\ open' = {p}
          /\ Goto(p, "writing")
       \/ /\ file # Missing
          /\ Goto(p, "rereading")
          /\ UNCHANGED <<file, open>>
    /\ UNCHANGED <<seen, acquired, vanished>>

Reread(p) ==
    /\ pc[p] = "rereading"
    /\ ReadsTo(p, "reprobing", "truncating")
    /\ UNCHANGED <<file, open, acquired, vanished>>

\* Mutant: the pid in the file is taken for a running process.
Reprobe_Trusts(p) ==
    /\ pc[p] = "reprobing"
    /\ Goto(p, IF seen[p] # p THEN "refused" ELSE "truncating")
    /\ UNCHANGED <<file, open, seen, acquired, vanished>>

\* The conflict error ends the process; any other lock is overwritten.
Reprobe(p) ==
    /\ pc[p] = "reprobing"
    /\ Goto(p, IF isProcessAlive(seen[p]) /\ seen[p] # p
               THEN "refused" ELSE "truncating")
    /\ UNCHANGED <<file, open, seen, acquired, vanished>>

Truncate(p) ==
    /\ pc[p] = "truncating"
    /\ file' = Torn /\ open' = open \cup {p}
    /\ Goto(p, "writing")
    /\ UNCHANGED <<seen, acquired, vanished>>

\* The text goes to the file that was opened, which may have lost its name,
\* and may mix with what another process writes to it.
Write(p) ==
    /\ pc[p] = "writing"
    /\ file' \in IF p \notin open THEN {file}
                 ELSE IF open = {p} /\ file = Torn THEN {p}
                 ELSE {p, Torn}
    /\ open' = open \ {p}
    /\ acquired' = [acquired EXCEPT ![p] = TRUE]
    /\ Goto(p, "idle")
    /\ UNCHANGED <<seen, vanished>>

-----------------------------------------------------------------------------
(* ensure and release                                                      *)

\* Mutant: a lock that is missing is not written again.
Ensure_Missing(p) ==
    /\ pc[p] = "idle" /\ acquired[p] /\ file \in Procs \ {p}
    /\ Goto(p, "truncating")
    /\ UNCHANGED <<file, open, seen, acquired, vanished>>

\* A file that does not name its owner is written again.
Ensure(p) ==
    /\ pc[p] = "idle" /\ acquired[p] /\ file # p
    /\ Goto(p, "truncating")
    /\ UNCHANGED <<file, open, seen, acquired, vanished>>

\* The file is removed when it names this process or nobody.
Release(p) ==
    /\ pc[p] = "idle" /\ acquired[p]
    /\ \/ /\ file \in Procs \ {p}
          /\ acquired' = [acquired EXCEPT ![p] = FALSE]
          /\ UNCHANGED pc
       \/ /\ file \notin Procs \ {p}
          /\ Goto(p, "releasing")
          /\ UNCHANGED acquired
    /\ UNCHANGED <<file, open, seen, vanished>>

ReleaseRemoves(p) ==
    /\ pc[p] = "releasing" /\ Removes
    /\ acquired' = [acquired EXCEPT ![p] = FALSE]
    /\ Goto(p, "idle")
    /\ UNCHANGED <<seen, vanished>>

-----------------------------------------------------------------------------
(* What happens to the processes and to the file.                          *)

\* A process ends at any point, with its release behind it or not.
Dies(p) ==
    /\ isProcessAlive(p)
    /\ Goto(p, "dead")
    /\ open' = open \ {p}
    /\ UNCHANGED <<file, seen, acquired, vanished>>

Vanish ==
    /\ file # Missing /\ vanished < MaxVanish
    /\ file' = Missing /\ open' = {}
    /\ vanished' = vanished + 1
    /\ UNCHANGED <<pc, seen, acquired>>

\* The calls of a process that is in acquire, in ensure or in release.
Step(p) ==
    \/ ReadStale(p) \/ ProbeStale(p) \/ RemoveStale(p) \/ Create(p)
    \/ Reread(p) \/ Reprobe(p) \/ Truncate(p) \/ Write(p)
    \/ ReleaseRemoves(p)

Next ==
    \/ \E p \in Procs : Start(p) \/ Step(p) \/ Ensure(p) \/ Release(p) \/ Dies(p)
    \/ Vanish

Spec == Init /\ [][Next]_vars

\* A running process goes on, and the supervisor's heartbeat calls ensure.
FairSpec == Spec /\ \A p \in Procs : WF_vars(Step(p) \/ Ensure(p))

-----------------------------------------------------------------------------
TypeOK ==
    /\ file \in Procs \cup {Missing, Torn}
    /\ open \in SUBSET Procs
    /\ pc \in [Procs -> LockPC]
    /\ seen \in [Procs -> Procs]
    /\ acquired \in [Procs -> BOOLEAN]
    /\ vanished \in 0..MaxVanish

\* At most one process runs that believes it has the lock: the lock "prevents
\* duplicate minimal-kernel instances in the same workspace"
\* (MinimalCapabilityRegistry.ts:128).  A file that somebody else deletes lets
\* the next process in; otherwise it needs starts that do not overlap.
Exclusion ==
    vanished = 0 => \A p, q \in Procs : Owns(p) /\ Owns(q) => p = q

\* While a process removes or overwrites the lock, nobody owns it.
Clear == \A q \in Procs : ~Owns(q)

\* The strengthening of Exclusion: the file names its owner, one process at
\* most is in acquire, and what it read about the owner is still true.
ExclusionInv ==
    vanished = 0 =>
        /\ \A p \in Procs : Owns(p) => file = p
        /\ \A p \in Procs : pc[p] \in Acquiring =>
              /\ ~acquired[p]
              /\ \A q \in Procs : pc[q] \in Acquiring => p = q
              /\ pc[p] \in {"probing", "reprobing"} =>
                    \A q \in Procs : Owns(q) => q = seen[p]
              /\ pc[p] \in {"removing", "truncating", "writing"} => Clear
              /\ pc[p] = "writing" => open = {p} /\ file = Torn
        /\ \A p \in open : pc[p] = "writing"
        /\ \A p \in Procs : pc[p] = "releasing" => acquired[p]

\* A process that starts after all others are gone gets the lock, whatever
\* file they left behind, unless it dies itself.
StaleLockNeverBlocks ==
    \A p \in Procs :
        pc[p] \in Acquiring /\ (\A q \in Procs \ {p} : pc[q] \in Gone)
            ~> Owns(p) \/ pc[p] = "dead"

\* When the lock file of a process that runs alone is deleted or torn, it
\* comes back while the process owns it.
LockIsRestored ==
    \A p \in Procs :
        Owns(p) /\ (\A q \in Procs \ {p} : pc[q] \in Gone)
            ~> file = p \/ ~Owns(p)
=============================================================================
