---------------------------- MODULE MailboxLedger ----------------------------
(***************************************************************************)
(* What the bridge mailbox promises for a message: whoever deposits it,    *)
(* however often, it is claimed at most once, becomes one task at most,    *)
(* and is answered at most once (the replay guard of MailboxWatcher,       *)
(* lines 130-137, and the markers it keeps on disk).  A claimed message    *)
(* that never becomes a task, and a task that is never answered, are       *)
(* allowed: the mailbox may lose a message, it never repeats one.          *)
(***************************************************************************)
CONSTANTS
    Messages,    \* the message ids
    Tasks        \* the tasks that may be made from messages

VARIABLES
    phase,    \* how far each message is
    tasks     \* the tasks made from each message

Init ==
    /\ phase = [m \in Messages |-> "new"]
    /\ tasks = [m \in Messages |-> {}]

Claim(m) ==
    /\ phase[m] = "new"
    /\ phase' = [phase EXCEPT ![m] = "claimed"]
    /\ UNCHANGED tasks

Open(m, t) ==
    /\ phase[m] = "claimed"
    /\ phase' = [phase EXCEPT ![m] = "open"]
    /\ tasks' = [tasks EXCEPT ![m] = {t}]

Answer(m) ==
    /\ phase[m] = "open"
    /\ phase' = [phase EXCEPT ![m] = "answered"]
    /\ UNCHANGED tasks

Next ==
    \E m \in Messages :
        Claim(m) \/ Answer(m) \/ \E t \in Tasks : Open(m, t)

Spec == Init /\ [][Next]_<<phase, tasks>>
=============================================================================
