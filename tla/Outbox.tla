-------------------------------- MODULE Outbox --------------------------------
(***************************************************************************)
(* The outbox of a channel: WebhookGateway.sendMessage stores a message it *)
(* cannot send as one file, and OutboxRetryService sends the files again   *)
(* until the channel accepts them or the attempts run out.  A send is the  *)
(* only await, in which the other calls go on; a segment between two       *)
(* awaits is cut at its file operations, where the process may crash or    *)
(* the operation may fail.                                                 *)
(***************************************************************************)
EXTENDS Naturals

CONSTANTS
    Messages,     \* the messages sent to one channel
    Missing,      \* a file that does not exist
    Torn,         \* a file that does not parse
    MaxAttempts,  \* maxAttempts
    MaxFaults     \* bound: crashes and failing file operations

ASSUME OutboxAssumption ==
    /\ MaxAttempts \in Nat \ {0}
    /\ MaxFaults \in Nat
    /\ Missing # Torn

VARIABLES
    up,           \* is the process running?
    configured,   \* gateway.resolveConfigured(), read from the environment
    pc,           \* where each message is
    file,         \* the file of each message in the outbox
    rejected,     \* the messages that have a whole file in the directory rejected
    log           \* history: retries, accepted, unanswered and faults

vars == <<up, configured, pc, file, rejected, log>>

Envelopes == [attempts : 0..(MaxAttempts - 1), due : BOOLEAN]

ASSUME EnvelopeAssumption == Missing \notin Envelopes /\ Torn \notin Envelopes

\* Segments between two awaits: nobody else runs in the process meanwhile.
Segment == {"persisting", "unlinking", "rewriting", "rejecting", "discarding"}

\* The worker has the message in hand.
InHand == {"retrying", "unlinking", "rewriting", "rejecting", "discarding"}

\* sendMessage returned queued, and the worker is not done with the message.
InOutbox == {"queued", "listed"} \cup InHand

OutboxPC == {"new", "sending", "persisting", "delivered", "failed", "rejected"}
                \cup InOutbox

Init ==
    /\ up = TRUE /\ configured \in BOOLEAN
    /\ pc       = [m \in Messages |-> "new"]
    /\ file     = [m \in Messages |-> Missing]
    /\ rejected = {}
    /\ log      = [retries    |-> [m \in Messages |-> 0],
                   accepted   |-> [m \in Messages |-> 0],
                   unanswered |-> [m \in Messages |-> 0],
                   faults     |-> 0]

Free == up /\ \A m \in Messages : pc[m] \notin Segment

Goto(m, next) == pc' = [pc EXCEPT ![m] = next]

Stored(m, content) == file' = [file EXCEPT ![m] = content]

\* The channel accepted the message and the answer arrived.
Answered(m) == log' = [log EXCEPT !.accepted[m] = @ + 1]

\* An error or no answer: the channel accepted the message all the same, or not.
Unanswered(m) ==
    \/ UNCHANGED log
    \/ log' = [log EXCEPT !.accepted[m] = @ + 1, !.unanswered[m] = @ + 1]

\* A write that ends before its end tears the file it was writing.
Cut(m) ==
    \/ UNCHANGED <<file, rejected>>
    \/ /\ pc[m] \in {"persisting", "rewriting"}
       /\ Stored(m, Torn)
       /\ UNCHANGED rejected
    \/ /\ pc[m] = "rejecting"
       /\ rejected' = rejected \ {m}
       /\ UNCHANGED file

Fault ==
    /\ log.faults < MaxFaults
    /\ log' = [log EXCEPT !.faults = @ + 1]

-----------------------------------------------------------------------------
(* WebhookGateway.sendMessage                                              *)

\* A channel that is not configured stores every message.
SendMessage(m) ==
    /\ Free /\ pc[m] = "new"
    /\ Goto(m, IF configured THEN "sending" ELSE "persisting")
    /\ UNCHANGED <<up, configured, file, rejected, log>>

SentLive(m) ==
    /\ Free /\ pc[m] = "sending"
    /\ Answered(m)
    /\ Goto(m, "delivered")
    /\ UNCHANGED <<up, configured, file, rejected>>

\* Mutant: a transient error is reported as queued, and nothing is stored.
SendFails_NotStored(m) ==
    /\ Free /\ pc[m] = "sending"
    /\ Unanswered(m)
    /\ \E next \in {"queued", "failed"} : Goto(m, next)
    /\ UNCHANGED <<up, configured, file, rejected>>

\* Transient errors are stored, others go back to the caller.
SendFails(m) ==
    /\ Free /\ pc[m] = "sending"
    /\ Unanswered(m)
    /\ \E next \in {"persisting", "failed"} : Goto(m, next)
    /\ UNCHANGED <<up, configured, file, rejected>>

Persist(m) ==
    /\ up /\ pc[m] = "persisting"
    /\ Stored(m, [attempts |-> 0, due |-> TRUE])
    /\ Goto(m, "queued")
    /\ UNCHANGED <<up, configured, rejected, log>>

\* The exception reaches the caller.
PersistFails(m) ==
    /\ up /\ pc[m] = "persisting"
    /\ Fault /\ Cut(m)
    /\ Goto(m, "failed")
    /\ UNCHANGED <<up, configured>>

-----------------------------------------------------------------------------
(* OutboxRetryService.processOutbox                                        *)

\* The next tick is set when the last one ended, and lists the directory.
Tick ==
    /\ Free /\ configured
    /\ \A m \in Messages : pc[m] \notin {"listed"} \cup InHand
    /\ \E m \in Messages : pc[m] = "queued"
    /\ pc' = [m \in Messages |-> IF pc[m] = "queued" THEN "listed" ELSE pc[m]]
    /\ UNCHANGED <<up, configured, file, rejected, log>>

NoneInHand == \A m \in Messages : pc[m] \notin InHand

\* Mutant: a file is left alone when its time has come.
Skip_Inverted(m) ==
    /\ Free /\ NoneInHand /\ pc[m] = "listed"
    /\ file[m] \in Envelopes => file[m].due
    /\ Goto(m, "queued")
    /\ UNCHANGED <<up, configured, file, rejected, log>>

\* A file that does not parse, or whose next attempt is in the future.
Skip(m) ==
    /\ Free /\ NoneInHand /\ pc[m] = "listed"
    /\ file[m] \in Envelopes => ~file[m].due
    /\ Goto(m, "queued")
    /\ UNCHANGED <<up, configured, file, rejected, log>>

Retry(m) ==
    /\ Free /\ NoneInHand /\ pc[m] = "listed"
    /\ file[m] \in Envelopes /\ file[m].due
    /\ log' = [log EXCEPT !.retries[m] = @ + 1]
    /\ Goto(m, "retrying")
    /\ UNCHANGED <<up, configured, file, rejected>>

\* Mutant: the file of a message that was sent is kept.
RetrySent_Keeps(m) ==
    /\ Free /\ pc[m] = "retrying"
    /\ Answered(m)
    /\ Goto(m, "queued")
    /\ UNCHANGED <<up, configured, file, rejected>>

RetrySent(m) ==
    /\ Free /\ pc[m] = "retrying"
    /\ Answered(m)
    /\ Goto(m, "unlinking")
    /\ UNCHANGED <<up, configured, file, rejected>>

\* Mutant: an error that a first send gives up on ends the retries, too.
RetryFails_Permanent(m) ==
    /\ Free /\ pc[m] = "retrying"
    /\ Unanswered(m)
    /\ \E next \in {"rejecting", "rewriting"} :
          /\ file[m].attempts + 1 >= MaxAttempts => next = "rejecting"
          /\ Goto(m, next)
    /\ UNCHANGED <<up, configured, file, rejected>>

\* Every error counts, the transient ones and the others.
RetryFails(m) ==
    /\ Free /\ pc[m] = "retrying"
    /\ Unanswered(m)
    /\ Goto(m, IF file[m].attempts + 1 >= MaxAttempts
               THEN "rejecting" ELSE "rewriting")
    /\ UNCHANGED <<up, configured, file, rejected>>

Unlink(m) ==
    /\ up /\ pc[m] = "unlinking"
    /\ Stored(m, Missing)
    /\ Goto(m, "delivered")
    /\ UNCHANGED <<up, configured, rejected, log>>

\* Mutant: the attempt is not counted.
Rewrite_ForgetsAttempt(m) ==
    /\ up /\ pc[m] = "rewriting"
    /\ Stored(m, [file[m] EXCEPT !.due = FALSE])
    /\ Goto(m, "queued")
    /\ UNCHANGED <<up, configured, rejected, log>>

Rewrite(m) ==
    /\ up /\ pc[m] = "rewriting"
    /\ Stored(m, [attempts |-> file[m].attempts + 1, due |-> FALSE])
    /\ Goto(m, "queued")
    /\ UNCHANGED <<up, configured, rejected, log>>

RejectWrites(m) ==
    /\ up /\ pc[m] = "rejecting"
    /\ rejected' = rejected \cup {m}
    /\ Goto(m, "discarding")
    /\ UNCHANGED <<up, configured, file, log>>

Discard(m) ==
    /\ up /\ pc[m] = "discarding"
    /\ Stored(m, Missing)
    /\ Goto(m, "rejected")
    /\ UNCHANGED <<up, configured, rejected, log>>

\* The exception is caught, and the file stays for the next tick.
RetryFileFails(m) ==
    /\ up /\ pc[m] \in Segment \ {"persisting"}
    /\ Fault /\ Cut(m)
    /\ Goto(m, "queued")
    /\ UNCHANGED <<up, configured>>

-----------------------------------------------------------------------------
(* Time, and the process.                                                  *)

\* nextAttemptAt passes.
BecomesDue(m) ==
    /\ file[m] \in Envelopes /\ ~file[m].due
    /\ Stored(m, [file[m] EXCEPT !.due = TRUE])
    /\ UNCHANGED <<up, configured, pc, rejected, log>>

\* The callers of sendMessage are lost; the files stay.
Crash ==
    /\ up /\ up' = FALSE
    /\ Fault
    /\ \E m \in Messages : Cut(m)
    /\ pc' = [m \in Messages |->
                 CASE pc[m] \in {"sending", "persisting"} -> "failed"
                   [] pc[m] \in InOutbox                  -> "queued"
                   [] OTHER                               -> pc[m]]
    /\ UNCHANGED configured

\* The process starts again, with the environment it is given.
Boot ==
    /\ ~up /\ up' = TRUE
    /\ configured' \in BOOLEAN
    /\ UNCHANGED <<pc, file, rejected, log>>

Sender(m) == SendMessage(m) \/ SentLive(m) \/ SendFails(m) \/ Persist(m)

Worker(m) ==
    \/ Skip(m) \/ Retry(m) \/ RetrySent(m) \/ RetryFails(m)
    \/ Unlink(m) \/ Rewrite(m) \/ RejectWrites(m) \/ Discard(m)

Next ==
    \/ \E m \in Messages : \/ Sender(m) \/ PersistFails(m)
                           \/ Worker(m) \/ RetryFileFails(m)
                           \/ BecomesDue(m)
    \/ Tick \/ Crash \/ Boot

Spec == Init /\ [][Next]_vars

\* Sends return, the timer ticks, time passes, and a supervisor restarts the
\* process; nothing is assumed of faults.
FairSpec ==
    /\ Spec
    /\ \A m \in Messages :
          /\ WF_vars(pc[m] # "new" /\ Sender(m))
          /\ WF_vars(BecomesDue(m))
    /\ WF_vars(Tick \/ \E m \in Messages : Worker(m))
    /\ WF_vars(Boot)

-----------------------------------------------------------------------------
TypeOK ==
    /\ up \in BOOLEAN /\ configured \in BOOLEAN
    /\ pc \in [Messages -> OutboxPC]
    /\ file \in [Messages -> Envelopes \cup {Missing, Torn}]
    /\ rejected \in SUBSET Messages
    /\ log \in [retries : [Messages -> Nat], accepted : [Messages -> Nat],
                unanswered : [Messages -> Nat], faults : 0..MaxFaults]

\* A message is retried five times, and once more for each crash or failing
\* file operation, whatever the interleaving: processOutbox counts in the file.
RetriesBounded ==
    \A m \in Messages : log.retries[m] <= MaxAttempts + log.faults

\* A message reaches the channel once, and once more only for an answer that
\* was lost or for a fault between the send and the deletion of its file.
DuplicateNeedsFault ==
    \A m \in Messages : log.accepted[m] <= 1 + log.unanswered[m] + log.faults

\* A message is rejected after all its attempts, none of which was answered.
RejectedWasTried ==
    \A m \in rejected :
        /\ log.retries[m] >= MaxAttempts
        /\ log.accepted[m] <= log.unanswered[m] + log.faults

\* A queued message keeps a file that the worker can read, unless a fault
\* tore it.
QueuedNeedsFault ==
    \A m \in Messages :
        pc[m] \in InOutbox =>
            file[m] \in Envelopes \/ (file[m] = Torn /\ log.faults > 0)

\* To its callers a message is with the sender, in the outbox, or closed.
PhaseOf(place) ==
    IF place \in {"sending", "persisting"} THEN "sending"
    ELSE IF place \in InOutbox THEN "queued" ELSE place

phase == [m \in Messages |-> PhaseOf(pc[m])]

Ledger == INSTANCE OutboxLedger

\* The files keep the promise of the ledger: a message is closed as delivered
\* only when the channel accepted it, as rejected only after all its attempts,
\* and is never sent or reported again once it is closed.
LedgerSpec == Ledger!Spec

\* A message in the outbox is delivered or rejected in the end, as long as the
\* channel is configured and its file is whole.
OutboxDrains ==
    \A m \in Messages :
        pc[m] \in InOutbox
            ~> pc[m] \in {"delivered", "rejected"} \/ file[m] = Torn \/ ~configured
=============================================================================
