---------------------------- MODULE OutboxLedger ----------------------------
(***************************************************************************)
(* What an outbox promises for each message, whatever its files look like: *)
(* the caller waits for a first send; a message that is stored then is     *)
(* sent again until it counts as delivered, which needs that the channel   *)
(* accepted it, or until it had all its attempts in vain (lines 92-122 of  *)
(* OutboxRetryService).  Nothing is sent once it is closed.  A message may *)
(* stay queued for ever; when it may not is a matter of fairness.          *)
(***************************************************************************)
EXTENDS Naturals

CONSTANTS
    Messages,     \* the messages sent to one channel
    MaxAttempts   \* the attempts after which the outbox gives up

VARIABLES
    phase,    \* how far each message is
    log       \* retries, accepted, unanswered and faults

Init ==
    /\ phase = [m \in Messages |-> "new"]
    /\ log   = [retries    |-> [m \in Messages |-> 0],
                accepted   |-> [m \in Messages |-> 0],
                unanswered |-> [m \in Messages |-> 0],
                faults     |-> 0]

Move(m, from, to) == phase[m] = from /\ phase' = [phase EXCEPT ![m] = to]

\* The acceptances beyond those that were paid for by a lost answer or a fault.
Paid(m) == log.accepted[m] <= log.unanswered[m] + log.faults

Post(m) == Move(m, "new", "sending") /\ UNCHANGED log

Queue(m) == Move(m, "sending", "queued") /\ UNCHANGED log

\* The error goes back to the caller.
Refuse(m) == Move(m, "sending", "failed") /\ UNCHANGED log

\* The channel accepts a message, and says so.
Accept(m) ==
    /\ Paid(m)
    /\ log' = [log EXCEPT !.accepted[m] = @ + 1]
    /\ \/ Move(m, "sending", "delivered")
       \/ phase[m] = "queued" /\ UNCHANGED phase

\* It accepts a message, and the answer is lost.
AcceptUnanswered(m) ==
    /\ log' = [log EXCEPT !.accepted[m] = @ + 1, !.unanswered[m] = @ + 1]
    /\ \/ phase[m] \in {"sending", "queued"} /\ UNCHANGED phase
       \/ Move(m, "sending", "failed")

Retry(m) ==
    /\ phase[m] = "queued" /\ UNCHANGED phase
    /\ log.retries[m] < MaxAttempts + log.faults
    /\ log' = [log EXCEPT !.retries[m] = @ + 1]

Deliver(m) ==
    /\ Move(m, "queued", "delivered")
    /\ log.accepted[m] > 0
    /\ UNCHANGED log

Reject(m) ==
    /\ Move(m, "queued", "rejected")
    /\ log.retries[m] >= MaxAttempts /\ Paid(m)
    /\ UNCHANGED log

\* A fault is counted; callers that wait may learn that their send failed,
\* and what is stored stays.
Fault ==
    /\ log' = [log EXCEPT !.faults = @ + 1]
    /\ \E told \in SUBSET {m \in Messages : phase[m] = "sending"} :
          phase' = [m \in Messages |-> IF m \in told THEN "failed" ELSE phase[m]]

Next ==
    \/ \E m \in Messages :
          \/ Post(m) \/ Queue(m) \/ Refuse(m)
          \/ Accept(m) \/ AcceptUnanswered(m) \/ Retry(m)
          \/ Deliver(m) \/ Reject(m)
    \/ Fault

Spec == Init /\ [][Next]_<<phase, log>>
=============================================================================
