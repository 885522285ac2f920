----------------------------- MODULE TaskLedger -----------------------------
(***************************************************************************)
(* What the task runtime promises about a task, without its handlers,      *)
(* workers, copies and statuses: a task is opened once and closed for      *)
(* good, it may be held for the operator, and its execution is started     *)
(* either once when it was never held, or once per approval.               *)
(***************************************************************************)
EXTENDS Naturals

CONSTANT Tasks

VARIABLES phase,     \* "absent", "open" or "closed"
          held,      \* was the task held for approval?
          granted,   \* approvals recorded
          started    \* executions started

vars == <<phase, held, granted, started>>

Init ==
    /\ phase   = [t \in Tasks |-> "absent"]
    /\ held    = [t \in Tasks |-> FALSE]
    /\ granted = [t \in Tasks |-> 0]
    /\ started = [t \in Tasks |-> 0]

\* A task comes to exist; one that is refused at once is closed at once.
Open(t) ==
    /\ phase[t] = "absent"
    /\ \E p \in {"open", "closed"} : phase' = [phase EXCEPT ![t] = p]
    /\ UNCHANGED <<held, granted, started>>

(***************************************************************************)
(* Work on some tasks ends: one by its handler or its worker, several at   *)
(* once when the process boots after a crash.  Nothing opens them again.   *)
(***************************************************************************)
Close(T) ==
    /\ T # {} /\ \A t \in T : phase[t] = "open"
    /\ phase' = [t \in Tasks |-> IF t \in T THEN "closed" ELSE phase[t]]
    /\ UNCHANGED <<held, granted, started>>

\* The operator is asked before the task was ever started.
Hold(t) ==
    /\ phase[t] = "open" /\ ~held[t] /\ started[t] = 0
    /\ held' = [held EXCEPT ![t] = TRUE]
    /\ UNCHANGED <<phase, granted, started>>

Grant(t) ==
    /\ phase[t] = "open"
    /\ granted' = [granted EXCEPT ![t] = @ + 1]
    /\ UNCHANGED <<phase, held, started>>

Start(t) ==
    /\ phase[t] # "absent"
    /\ started[t] < granted[t] + (IF held[t] THEN 0 ELSE 1)
    /\ started' = [started EXCEPT ![t] = @ + 1]
    /\ UNCHANGED <<phase, held, granted>>

Next ==
    \/ \E t \in Tasks : Open(t) \/ Hold(t) \/ Grant(t) \/ Start(t)
    \/ \E T \in SUBSET Tasks : Close(T)

Spec == Init /\ [][Next]_vars
=============================================================================
