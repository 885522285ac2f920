----------------------------- MODULE Outbox_proofs -----------------------------
(***************************************************************************)
(* The accounts of Outbox, for every set of messages and every value of    *)
(* the bounds: how often a message is retried and how often the channel    *)
(* accepts it, against the attempts in its file and the faults so far; and *)
(* that Outbox implements OutboxLedger.                                    *)
(***************************************************************************)
EXTENDS Outbox, TLAPS

AtRest == {"queued", "listed"}

Unused == {"new", "sending", "persisting"}

\* The attempts in a file are the retries made, up to one lost count for
\* each fault; a retry under way is one more.
Counted(m) ==
    /\ log.retries[m] <= MaxAttempts + log.faults
    /\ pc[m] \in Unused => log.retries[m] = 0
    /\ pc[m] \in AtRest /\ file[m] \in Envelopes =>
          /\ file[m].attempts <= log.retries[m]
          /\ log.retries[m] <= file[m].attempts + log.faults
    /\ pc[m] \in InHand =>
          /\ file[m] \in Envelopes
          /\ file[m].attempts + 1 <= log.retries[m]
          /\ log.retries[m] <= file[m].attempts + 1 + log.faults
    /\ pc[m] = "rewriting" => file[m].attempts + 1 < MaxAttempts
    /\ pc[m] \in {"rejecting", "discarding"} => file[m].attempts + 1 >= MaxAttempts
    /\ m \in rejected => log.retries[m] >= MaxAttempts

\* An acceptance whose answer arrived is the last one, or a fault follows it;
\* a rejected message that is at rest again has had a fault for itself.  What the
\* worker deletes was accepted.
Paid(m) ==
    /\ log.accepted[m] <= 1 + log.unanswered[m] + log.faults
    /\ pc[m] \notin {"unlinking", "delivered"} =>
          log.accepted[m] <= log.unanswered[m] + log.faults
    /\ pc[m] \in Unused \cup {"failed"} => m \notin rejected
    /\ m \in rejected => log.accepted[m] <= log.unanswered[m] + log.faults
    /\ m \in rejected /\ pc[m] \in AtRest \cup {"retrying", "rewriting", "rejecting"} =>
          log.accepted[m] + 1 <= log.unanswered[m] + log.faults
    /\ pc[m] = "unlinking" => log.accepted[m] > 0

Kept(m) ==
    /\ pc[m] \in InOutbox =>
          file[m] \in Envelopes \/ (file[m] = Torn /\ log.faults > 0)
    /\ pc[m] \in {"discarding", "rejected"} => m \in rejected

OutboxInv == TypeOK /\ \A m \in Messages : Counted(m) /\ Paid(m) /\ Kept(m)

-----------------------------------------------------------------------------
\* At the first start there is no file and nothing was sent.
LEMMA OutboxInit == Init => OutboxInv
  BY OutboxAssumption
     DEF Init, OutboxInv, TypeOK, Counted, Paid, Kept, OutboxPC, InOutbox,
         InHand, AtRest, Unused

\* What an error does to the log: an acceptance without an answer, or nothing.
LEMMA UnansweredAdds ==
    ASSUME TypeOK, NEW m \in Messages, Unanswered(m)
    PROVE  /\ log' \in [retries : [Messages -> Nat], accepted : [Messages -> Nat],
                        unanswered : [Messages -> Nat], faults : 0..MaxFaults]
           /\ log'.retries = log.retries /\ log'.faults = log.faults
           /\ \A k \in Messages :
                 /\ log'.accepted[k] >= log.accepted[k]
                 /\ log'.accepted[k] - log'.unanswered[k] =
                       log.accepted[k] - log.unanswered[k]
<1>1. CASE UNCHANGED log
  BY <1>1 DEF TypeOK
<1>2. CASE log' = [log EXCEPT !.accepted[m] = @ + 1, !.unanswered[m] = @ + 1]
  <2>1. log' = [retries    |-> log.retries,
                accepted   |-> [log.accepted EXCEPT ![m] = @ + 1],
                unanswered |-> [log.unanswered EXCEPT ![m] = @ + 1],
                faults     |-> log.faults]
    BY <1>2 DEF TypeOK
  <2> QED BY <2>1 DEF TypeOK
<1> QED BY <1>1, <1>2 DEF Unanswered

\* Types: a rewritten file has a count below MaxAttempts, since the last
\* attempt is rejected in its place.
LEMMA TypeStep ==
    ASSUME OutboxInv, [Next]_vars
    PROVE  TypeOK'
<1> USE OutboxAssumption, EnvelopeAssumption
    DEF OutboxInv, TypeOK, Counted, OutboxPC, InOutbox, InHand, Segment,
        Envelopes, Free, Goto, Stored, Fault, Cut
<1>1. ASSUME NEW m \in Messages, SendMessage(m) PROVE TypeOK'
  BY <1>1 DEF SendMessage
<1>2. ASSUME NEW m \in Messages, SentLive(m) PROVE TypeOK'
  BY <1>2 DEF SentLive, Answered
<1>3. ASSUME NEW m \in Messages, SendFails(m) PROVE TypeOK'
  BY <1>3, UnansweredAdds DEF SendFails
<1>4. ASSUME NEW m \in Messages, Persist(m) PROVE TypeOK'
  BY <1>4 DEF Persist
<1>5. ASSUME NEW m \in Messages, PersistFails(m) PROVE TypeOK'
  BY <1>5 DEF PersistFails
<1>6. ASSUME NEW m \in Messages, Skip(m) PROVE TypeOK'
  BY <1>6 DEF Skip
<1>7. ASSUME NEW m \in Messages, Retry(m) PROVE TypeOK'
  BY <1>7 DEF Retry
<1>8. ASSUME NEW m \in Messages, RetrySent(m) PROVE TypeOK'
  BY <1>8 DEF RetrySent, Answered
<1>9. ASSUME NEW m \in Messages, RetryFails(m) PROVE TypeOK'
  BY <1>9, UnansweredAdds DEF RetryFails
<1>10. ASSUME NEW m \in Messages, Unlink(m) PROVE TypeOK'
  BY <1>10 DEF Unlink
<1>11. ASSUME NEW m \in Messages, Rewrite(m) PROVE TypeOK'
  BY <1>11 DEF Rewrite
<1>12. ASSUME NEW m \in Messages, RejectWrites(m) PROVE TypeOK'
  BY <1>12 DEF RejectWrites
<1>13. ASSUME NEW m \in Messages, Discard(m) PROVE TypeOK'
  BY <1>13 DEF Discard
<1>14. ASSUME NEW m \in Messages, RetryFileFails(m) PROVE TypeOK'
  BY <1>14 DEF RetryFileFails
<1>15. ASSUME NEW m \in Messages, BecomesDue(m) PROVE TypeOK'
  BY <1>15 DEF BecomesDue
<1>16. CASE Tick
  BY <1>16 DEF Tick
<1>17. CASE Crash
  <2>1. pc' \in [Messages -> OutboxPC] /\ up' \in BOOLEAN /\ configured' \in BOOLEAN
    BY <1>17 DEF Crash
  <2>2. PICK m \in Messages : Cut(m)
    BY <1>17 DEF Crash
  <2>3. file' \in [Messages -> Envelopes \cup {Missing, Torn}] /\ rejected' \in SUBSET Messages
    BY <2>2
  <2>4. log' \in [retries : [Messages -> Nat], accepted : [Messages -> Nat],
                unanswered : [Messages -> Nat], faults : 0..MaxFaults]
    BY <1>17 DEF Crash
  <2> QED BY <2>1, <2>3, <2>4
<1>18. CASE Boot
  BY <1>18 DEF Boot
<1>19. CASE UNCHANGED vars
  BY <1>19 DEF vars
<1> QED
  <2> HIDE DEF OutboxInv
  <2> QED BY <1>1, <1>2, <1>3, <1>4, <1>5, <1>6, <1>7, <1>8, <1>9, <1>10, <1>11, <1>12, <1>13, <1>14, <1>15, <1>16, <1>17, <1>18, <1>19 DEF Next, Sender, Worker

\* A retry is counted when it begins, its file when it ends; in between a fault
\* may lose the file's count, never the retry's.
LEMMA CountedStep ==
    ASSUME OutboxInv, [Next]_vars
    PROVE  \A k \in Messages : Counted(k)'
<1> USE OutboxAssumption, EnvelopeAssumption
    DEF OutboxInv, TypeOK, Counted, AtRest, Unused, OutboxPC, InOutbox, InHand, Segment,
        Envelopes, Free, Goto, Stored, Fault, Cut
<1>1. ASSUME NEW m \in Messages, SendMessage(m) PROVE \A k \in Messages : Counted(k)'
  BY <1>1 DEF SendMessage
<1>2. ASSUME NEW m \in Messages, SentLive(m) PROVE \A k \in Messages : Counted(k)'
  BY <1>2 DEF SentLive, Answered
<1>3. ASSUME NEW m \in Messages, SendFails(m) PROVE \A k \in Messages : Counted(k)'
  BY <1>3, UnansweredAdds DEF SendFails
<1>4. ASSUME NEW m \in Messages, Persist(m) PROVE \A k \in Messages : Counted(k)'
  BY <1>4 DEF Persist
<1>5. ASSUME NEW m \in Messages, PersistFails(m) PROVE \A k \in Messages : Counted(k)'
  BY <1>5 DEF PersistFails
<1>6. ASSUME NEW m \in Messages, Skip(m) PROVE \A k \in Messages : Counted(k)'
  BY <1>6 DEF Skip
<1>7. ASSUME NEW m \in Messages, Retry(m) PROVE \A k \in Messages : Counted(k)'
  BY <1>7 DEF Retry
<1>8. ASSUME NEW m \in Messages, RetrySent(m) PROVE \A k \in Messages : Counted(k)'
  BY <1>8 DEF RetrySent, Answered
<1>9. ASSUME NEW m \in Messages, RetryFails(m) PROVE \A k \in Messages : Counted(k)'
  BY <1>9, UnansweredAdds DEF RetryFails
<1>10. ASSUME NEW m \in Messages, Unlink(m) PROVE \A k \in Messages : Counted(k)'
  BY <1>10 DEF Unlink
<1>11. ASSUME NEW m \in Messages, Rewrite(m) PROVE \A k \in Messages : Counted(k)'
  BY <1>11 DEF Rewrite
<1>12. ASSUME NEW m \in Messages, RejectWrites(m) PROVE \A k \in Messages : Counted(k)'
  BY <1>12 DEF RejectWrites
<1>13. ASSUME NEW m \in Messages, Discard(m) PROVE \A k \in Messages : Counted(k)'
  BY <1>13 DEF Discard
<1>14. ASSUME NEW m \in Messages, RetryFileFails(m) PROVE \A k \in Messages : Counted(k)'
  BY <1>14 DEF RetryFileFails
<1>15. ASSUME NEW m \in Messages, BecomesDue(m) PROVE \A k \in Messages : Counted(k)'
  BY <1>15 DEF BecomesDue
<1>16. CASE Tick
  BY <1>16 DEF Tick
<1>17. CASE Crash
  BY <1>17 DEF Crash
<1>18. CASE Boot
  BY <1>18 DEF Boot
<1>19. CASE UNCHANGED vars
  BY <1>19 DEF vars
<1> QED
  <2> HIDE DEF OutboxInv
  <2> QED BY <1>1, <1>2, <1>3, <1>4, <1>5, <1>6, <1>7, <1>8, <1>9, <1>10, <1>11, <1>12, <1>13, <1>14, <1>15, <1>16, <1>17, <1>18, <1>19 DEF Next, Sender, Worker

\* Only the step from retrying to unlinking takes the one acceptance that is
\* free; to be retried after it, the message needs a fault.
LEMMA PaidStep ==
    ASSUME OutboxInv, [Next]_vars
    PROVE  \A k \in Messages : Paid(k)'
<1> USE OutboxAssumption, EnvelopeAssumption
    DEF OutboxInv, TypeOK, Paid, AtRest, Unused, OutboxPC, InOutbox, InHand, Segment,
        Envelopes, Free, Goto, Stored, Fault, Cut
<1>1. ASSUME NEW m \in Messages, SendMessage(m) PROVE \A k \in Messages : Paid(k)'
  BY <1>1 DEF SendMessage
<1>2. ASSUME NEW m \in Messages, SentLive(m) PROVE \A k \in Messages : Paid(k)'
  BY <1>2 DEF SentLive, Answered
<1>3. ASSUME NEW m \in Messages, SendFails(m) PROVE \A k \in Messages : Paid(k)'
  BY <1>3, UnansweredAdds DEF SendFails
<1>4. ASSUME NEW m \in Messages, Persist(m) PROVE \A k \in Messages : Paid(k)'
  BY <1>4 DEF Persist
<1>5. ASSUME NEW m \in Messages, PersistFails(m) PROVE \A k \in Messages : Paid(k)'
  BY <1>5 DEF PersistFails
<1>6. ASSUME NEW m \in Messages, Skip(m) PROVE \A k \in Messages : Paid(k)'
  BY <1>6 DEF Skip
<1>7. ASSUME NEW m \in Messages, Retry(m) PROVE \A k \in Messages : Paid(k)'
  BY <1>7 DEF Retry
<1>8. ASSUME NEW m \in Messages, RetrySent(m) PROVE \A k \in Messages : Paid(k)'
  BY <1>8 DEF RetrySent, Answered
<1>9. ASSUME NEW m \in Messages, RetryFails(m) PROVE \A k \in Messages : Paid(k)'
  BY <1>9, UnansweredAdds DEF RetryFails
<1>10. ASSUME NEW m \in Messages, Unlink(m) PROVE \A k \in Messages : Paid(k)'
  BY <1>10 DEF Unlink
<1>11. ASSUME NEW m \in Messages, Rewrite(m) PROVE \A k \in Messages : Paid(k)'
  BY <1>11 DEF Rewrite
<1>12. ASSUME NEW m \in Messages, RejectWrites(m) PROVE \A k \in Messages : Paid(k)'
  BY <1>12 DEF RejectWrites
<1>13. ASSUME NEW m \in Messages, Discard(m) PROVE \A k \in Messages : Paid(k)'
  BY <1>13 DEF Discard
<1>14. ASSUME NEW m \in Messages, RetryFileFails(m) PROVE \A k \in Messages : Paid(k)'
  BY <1>14 DEF RetryFileFails
<1>15. ASSUME NEW m \in Messages, BecomesDue(m) PROVE \A k \in Messages : Paid(k)'
  BY <1>15 DEF BecomesDue
<1>16. CASE Tick
  BY <1>16 DEF Tick
<1>17. CASE Crash
  BY <1>17 DEF Crash
<1>18. CASE Boot
  BY <1>18 DEF Boot
<1>19. CASE UNCHANGED vars
  BY <1>19 DEF vars
<1> QED
  <2> HIDE DEF OutboxInv
  <2> QED BY <1>1, <1>2, <1>3, <1>4, <1>5, <1>6, <1>7, <1>8, <1>9, <1>10, <1>11, <1>12, <1>13, <1>14, <1>15, <1>16, <1>17, <1>18, <1>19 DEF Next, Sender, Worker

\* A file in the outbox is removed in the step that closes its message.
LEMMA KeptStep ==
    ASSUME OutboxInv, [Next]_vars
    PROVE  \A k \in Messages : Kept(k)'
<1> USE OutboxAssumption, EnvelopeAssumption
    DEF OutboxInv, TypeOK, Counted, Kept, AtRest, Unused, OutboxPC, InOutbox, InHand, Segment,
        Envelopes, Free, Goto, Stored, Fault, Cut
<1>1. ASSUME NEW m \in Messages, SendMessage(m) PROVE \A k \in Messages : Kept(k)'
  BY <1>1 DEF SendMessage
<1>2. ASSUME NEW m \in Messages, SentLive(m) PROVE \A k \in Messages : Kept(k)'
  BY <1>2 DEF SentLive, Answered
<1>3. ASSUME NEW m \in Messages, SendFails(m) PROVE \A k \in Messages : Kept(k)'
  BY <1>3, UnansweredAdds DEF SendFails
<1>4. ASSUME NEW m \in Messages, Persist(m) PROVE \A k \in Messages : Kept(k)'
  BY <1>4 DEF Persist
<1>5. ASSUME NEW m \in Messages, PersistFails(m) PROVE \A k \in Messages : Kept(k)'
  BY <1>5 DEF PersistFails
<1>6. ASSUME NEW m \in Messages, Skip(m) PROVE \A k \in Messages : Kept(k)'
  BY <1>6 DEF Skip
<1>7. ASSUME NEW m \in Messages, Retry(m) PROVE \A k \in Messages : Kept(k)'
  BY <1>7 DEF Retry
<1>8. ASSUME NEW m \in Messages, RetrySent(m) PROVE \A k \in Messages : Kept(k)'
  BY <1>8 DEF RetrySent, Answered
<1>9. ASSUME NEW m \in Messages, RetryFails(m) PROVE \A k \in Messages : Kept(k)'
  BY <1>9, UnansweredAdds DEF RetryFails
<1>10. ASSUME NEW m \in Messages, Unlink(m) PROVE \A k \in Messages : Kept(k)'
  BY <1>10 DEF Unlink
<1>11. ASSUME NEW m \in Messages, Rewrite(m) PROVE \A k \in Messages : Kept(k)'
  BY <1>11 DEF Rewrite
<1>12. ASSUME NEW m \in Messages, RejectWrites(m) PROVE \A k \in Messages : Kept(k)'
  BY <1>12 DEF RejectWrites
<1>13. ASSUME NEW m \in Messages, Discard(m) PROVE \A k \in Messages : Kept(k)'
  BY <1>13 DEF Discard
<1>14. ASSUME NEW m \in Messages, RetryFileFails(m) PROVE \A k \in Messages : Kept(k)'
  BY <1>14 DEF RetryFileFails
<1>15. ASSUME NEW m \in Messages, BecomesDue(m) PROVE \A k \in Messages : Kept(k)'
  BY <1>15 DEF BecomesDue
<1>16. CASE Tick
  BY <1>16 DEF Tick
<1>17. CASE Crash
  BY <1>17 DEF Crash
<1>18. CASE Boot
  BY <1>18 DEF Boot
<1>19. CASE UNCHANGED vars
  BY <1>19 DEF vars
<1> QED
  <2> HIDE DEF OutboxInv
  <2> QED BY <1>1, <1>2, <1>3, <1>4, <1>5, <1>6, <1>7, <1>8, <1>9, <1>10, <1>11, <1>12, <1>13, <1>14, <1>15, <1>16, <1>17, <1>18, <1>19 DEF Next, Sender, Worker

-----------------------------------------------------------------------------
\* The accounts hold in every reachable state: types, attempts against files,
\* acceptances against answers and faults, and a file for what is queued.
THEOREM OutboxAccounts == Spec => []OutboxInv
<1>1. OutboxInv /\ [Next]_vars => OutboxInv'
  BY TypeStep, CountedStep, PaidStep, KeptStep DEF OutboxInv
<1> QED BY <1>1, OutboxInit, PTL DEF Spec

\* OutboxRetryService stops: five retries, and one more for each fault.
THEOREM RetriesStayBounded == Spec => []RetriesBounded
<1>1. OutboxInv => RetriesBounded
  BY DEF OutboxInv, Counted, RetriesBounded
<1> QED BY <1>1, OutboxAccounts, PTL

\* Every acceptance beyond the first one goes back to a lost answer or a fault.
THEOREM DuplicatesNeedFaults == Spec => []DuplicateNeedsFault
<1>1. OutboxInv => DuplicateNeedsFault
  BY DEF OutboxInv, Paid, DuplicateNeedsFault
<1> QED BY <1>1, OutboxAccounts, PTL

\* What is moved to the directory rejected had all its attempts.
THEOREM RejectedHadItsTries == Spec => []RejectedWasTried
<1>1. OutboxInv => RejectedWasTried
  BY DEF OutboxInv, TypeOK, Counted, Paid, RejectedWasTried
<1> QED BY <1>1, OutboxAccounts, PTL

\* Without a fault no queued message loses its file.
THEOREM QueuedStaysStored == Spec => []QueuedNeedsFault
<1>1. OutboxInv => QueuedNeedsFault
  BY DEF OutboxInv, Kept, QueuedNeedsFault
<1> QED BY <1>1, OutboxAccounts, PTL

-----------------------------------------------------------------------------
(* The ledger.                                                             *)

\* A message that goes on moves in the ledger, and no other one does.
LEMMA PhaseGoes ==
    ASSUME TypeOK, NEW m \in Messages, NEW next, Goto(m, next)
    PROVE  /\ phase' = [phase EXCEPT ![m] = PhaseOf(next)]
           /\ PhaseOf(next) = PhaseOf(pc[m]) => phase' = phase
BY DEF TypeOK, Goto, phase

\* What the places of a message are in the ledger.
LEMMA Places ==
    /\ PhaseOf("new") = "new" /\ PhaseOf("failed") = "failed"
    /\ PhaseOf("delivered") = "delivered" /\ PhaseOf("rejected") = "rejected"
    /\ PhaseOf("sending") = "sending" /\ PhaseOf("persisting") = "sending"
    /\ \A place \in InOutbox : PhaseOf(place) = "queued"
BY DEF PhaseOf, InOutbox, InHand

\* An error from the channel, by the names of the ledger.
LEMMA UnansweredIs ==
    ASSUME NEW m \in Messages, Unanswered(m), phase[m] \in {"sending", "queued"},
           phase' = phase
    PROVE  Ledger!AcceptUnanswered(m) \/ UNCHANGED <<phase, log>>
BY DEF Unanswered, Ledger!AcceptUnanswered

\* The steps of a caller.
LEMMA SenderLedger ==
    ASSUME OutboxInv, NEW m \in Messages, Sender(m)
    PROVE  Ledger!Next \/ UNCHANGED <<phase, log>>
<1>1. TypeOK /\ Paid(m) /\ \A k \in Messages : phase[k] = PhaseOf(pc[k])
  BY DEF OutboxInv, phase
<1>2. CASE SendMessage(m)
  <2>1. PICK next \in {"sending", "persisting"} : Goto(m, next)
    BY <1>2 DEF SendMessage
  <2>2. phase[m] = "new" /\ phase' = [phase EXCEPT ![m] = "sending"] /\ log' = log
    BY <1>1, <1>2, <2>1, PhaseGoes, Places DEF SendMessage
  <2> QED BY <2>2 DEF Ledger!Next, Ledger!Post, Ledger!Move
<1>3. CASE SentLive(m)
  <2>1. phase[m] = "sending" /\ phase' = [phase EXCEPT ![m] = "delivered"]
    BY <1>1, <1>3, PhaseGoes, Places DEF SentLive
  <2>2. Ledger!Paid(m) /\ log' = [log EXCEPT !.accepted[m] = @ + 1]
    BY <1>1, <1>3 DEF SentLive, Answered, Paid, Ledger!Paid
  <2> QED BY <2>1, <2>2 DEF Ledger!Next, Ledger!Accept, Ledger!Move
<1>4. CASE SendFails(m)
  <2>1. PICK next \in {"persisting", "failed"} : Goto(m, next)
    BY <1>4 DEF SendFails
  <2>2. phase[m] = "sending" /\ Unanswered(m)
    BY <1>1, <1>4, Places DEF SendFails
  <2>3. CASE next = "persisting"
    <3>1. phase' = phase
      BY <1>1, <1>4, <2>1, <2>3, PhaseGoes, Places DEF SendFails
    <3> QED BY <2>2, <3>1, UnansweredIs DEF Ledger!Next
  <2>4. CASE next = "failed"
    <3>1. phase' = [phase EXCEPT ![m] = "failed"]
      BY <1>1, <2>1, <2>4, PhaseGoes, Places
    <3> QED BY <2>2, <3>1 DEF Unanswered, Ledger!Next, Ledger!Refuse, Ledger!Move,
                             Ledger!AcceptUnanswered
  <2> QED BY <2>1, <2>3, <2>4
<1>5. CASE Persist(m)
  <2>1. "queued" \in InOutbox
    BY DEF InOutbox
  <2>2. phase[m] = "sending" /\ phase' = [phase EXCEPT ![m] = "queued"] /\ log' = log
    BY <1>1, <1>5, <2>1, PhaseGoes, Places DEF Persist
  <2> QED BY <2>2 DEF Ledger!Next, Ledger!Queue, Ledger!Move
<1> QED BY <1>2, <1>3, <1>4, <1>5 DEF Sender

\* The steps of the worker.
LEMMA WorkerLedger ==
    ASSUME OutboxInv, NEW m \in Messages, Worker(m)
    PROVE  Ledger!Next \/ UNCHANGED <<phase, log>>
<1>1. /\ TypeOK /\ Counted(m) /\ Paid(m) /\ Kept(m)
      /\ \A k \in Messages : phase[k] = PhaseOf(pc[k])
  BY DEF OutboxInv, phase
<1>2. {"queued", "listed", "retrying", "unlinking", "rewriting", "rejecting", "discarding"}
          \subseteq InOutbox
  BY DEF InOutbox, InHand
<1>3. ASSUME pc[m] \in InOutbox, NEW next \in InOutbox, Goto(m, next)
      PROVE  phase[m] = "queued" /\ phase' = phase
  BY <1>1, <1>3, PhaseGoes, Places
<1>4. CASE Skip(m) \/ Rewrite(m) \/ RejectWrites(m)
  <2>1. phase' = phase /\ log' = log
    BY <1>2, <1>3, <1>4 DEF Skip, Rewrite, RejectWrites
  <2> QED BY <2>1
<1>5. CASE Retry(m)
  <2>1. phase[m] = "queued" /\ phase' = phase
    BY <1>2, <1>3, <1>5 DEF Retry
  <2>2. log' = [log EXCEPT !.retries[m] = @ + 1]
    BY <1>5 DEF Retry
  <2>3. log.retries[m] < MaxAttempts + log.faults
    <3>1. file[m] \in Envelopes /\ log.retries[m] <= file[m].attempts + log.faults
      BY <1>1, <1>5 DEF Retry, Counted, AtRest
    <3>2. file[m].attempts \in 0 .. (MaxAttempts - 1)
      BY <3>1 DEF Envelopes
    <3> QED BY <1>1, <3>1, <3>2, OutboxAssumption DEF TypeOK
  <2> QED BY <2>1, <2>2, <2>3 DEF Ledger!Next, Ledger!Retry
<1>6. CASE RetrySent(m)
  <2>1. phase[m] = "queued" /\ phase' = phase
    BY <1>2, <1>3, <1>6 DEF RetrySent
  <2>2. Ledger!Paid(m) /\ log' = [log EXCEPT !.accepted[m] = @ + 1]
    BY <1>1, <1>6 DEF RetrySent, Answered, Paid, Ledger!Paid
  <2> QED BY <2>1, <2>2 DEF Ledger!Next, Ledger!Accept
<1>7. CASE RetryFails(m)
  <2>1. PICK next \in {"rejecting", "rewriting"} : Goto(m, next)
    BY <1>7 DEF RetryFails
  <2>2. phase[m] = "queued" /\ phase' = phase
    BY <1>2, <1>3, <1>7, <2>1 DEF RetryFails
  <2> QED BY <1>7, <2>2, UnansweredIs DEF RetryFails, Ledger!Next
<1>8. CASE Unlink(m)
  <2>1. phase[m] = "queued" /\ phase' = [phase EXCEPT ![m] = "delivered"] /\ log' = log
    BY <1>1, <1>2, <1>8, PhaseGoes, Places DEF Unlink
  <2>2. log.accepted[m] > 0
    BY <1>1, <1>8 DEF Unlink, Paid
  <2> QED BY <2>1, <2>2 DEF Ledger!Next, Ledger!Deliver, Ledger!Move
<1>9. CASE Discard(m)
  <2>1. phase[m] = "queued" /\ phase' = [phase EXCEPT ![m] = "rejected"] /\ log' = log
    BY <1>1, <1>2, <1>9, PhaseGoes, Places DEF Discard
  <2>2. m \in rejected
    BY <1>1, <1>9 DEF Discard, Kept
  <2>3. log.retries[m] >= MaxAttempts /\ Ledger!Paid(m)
    BY <1>1, <2>2 DEF Counted, Paid, Ledger!Paid
  <2> QED BY <2>1, <2>3 DEF Ledger!Next, Ledger!Reject, Ledger!Move
<1> QED BY <1>4, <1>5, <1>6, <1>7, <1>8, <1>9 DEF Worker

\* A fault, in one file operation or of the whole process.
LEMMA FaultLedger ==
    ASSUME TypeOK, (\E m \in Messages : PersistFails(m) \/ RetryFileFails(m)) \/ Crash
    PROVE  Ledger!Fault
<1> DEFINE told == {m \in Messages : phase[m] = "sending" /\ pc'[m] = "failed"}
<1>1. log' = [log EXCEPT !.faults = @ + 1]
  BY DEF PersistFails, RetryFileFails, Crash, Fault
<1>2. \A k \in Messages : \/ PhaseOf(pc'[k]) = PhaseOf(pc[k])
                          \/ PhaseOf(pc[k]) = "sending" /\ pc'[k] = "failed"
  <2>1. ASSUME NEW m \in Messages, PersistFails(m), NEW k \in Messages
        PROVE  \/ PhaseOf(pc'[k]) = PhaseOf(pc[k])
               \/ PhaseOf(pc[k]) = "sending" /\ pc'[k] = "failed"
    BY <2>1, Places DEF PersistFails, Goto, TypeOK
  <2>2. ASSUME NEW m \in Messages, RetryFileFails(m), NEW k \in Messages
        PROVE  PhaseOf(pc'[k]) = PhaseOf(pc[k])
    BY <2>2, Places DEF RetryFileFails, Segment, InOutbox, InHand, Goto, TypeOK
  <2>3. ASSUME Crash, NEW k \in Messages
        PROVE  \/ PhaseOf(pc'[k]) = PhaseOf(pc[k])
               \/ PhaseOf(pc[k]) = "sending" /\ pc'[k] = "failed"
    <3>1. "queued" \in InOutbox
      BY DEF InOutbox
    <3>2. CASE pc[k] \in {"sending", "persisting"}
      BY <2>3, <3>2, Places DEF Crash
    <3>3. CASE pc[k] \in InOutbox
      <4>1. pc[k] \notin {"sending", "persisting"}
        BY <3>3 DEF InOutbox, InHand
      <4> QED BY <2>3, <3>1, <3>3, <4>1, Places DEF Crash
    <3>4. CASE pc[k] \notin {"sending", "persisting"} /\ pc[k] \notin InOutbox
      BY <2>3, <3>4 DEF Crash
    <3> QED BY <3>2, <3>3, <3>4
  <2> QED BY <2>1, <2>2, <2>3
<1>3. phase' = [m \in Messages |-> IF m \in told THEN "failed" ELSE phase[m]]
  BY <1>2, Places DEF phase
<1>4. told \in SUBSET {m \in Messages : phase[m] = "sending"}
  OBVIOUS
<1> HIDE DEF told
<1> QED BY <1>1, <1>3, <1>4 DEF Ledger!Fault

\* Every step is one of the ledger, or none.
LEMMA LedgerStep ==
    ASSUME OutboxInv, [Next]_vars
    PROVE  [Ledger!Next]_<<phase, log>>
<1>1. TypeOK
  BY DEF OutboxInv
<1>2. CASE \E m \in Messages : Sender(m) \/ Worker(m)
  BY <1>2, SenderLedger, WorkerLedger
<1>3. CASE (\E m \in Messages : PersistFails(m) \/ RetryFileFails(m)) \/ Crash
  BY <1>1, <1>3, FaultLedger DEF Ledger!Next
<1>4. CASE Tick
  <2>1. \A m \in Messages : PhaseOf(pc'[m]) = PhaseOf(pc[m])
    <3>1. "queued" \in InOutbox /\ "listed" \in InOutbox
      BY DEF InOutbox
    <3> QED BY <1>4, <3>1, Places DEF Tick
  <2> QED BY <1>4, <2>1 DEF Tick, phase
<1>5. CASE (\E m \in Messages : BecomesDue(m)) \/ Boot \/ UNCHANGED vars
  BY <1>5 DEF BecomesDue, Boot, vars, phase
<1> QED BY <1>2, <1>3, <1>4, <1>5 DEF Next

\* The outbox implements its ledger, for every set of messages and whatever
\* crashes, torn files and lost answers come together: what is delivered was
\* accepted, what is rejected had all its attempts, and what is closed stays so.
THEOREM ImplementsLedger == Spec => LedgerSpec
<1>1. Init => Ledger!Init
  <2>1. Init => \A m \in Messages : PhaseOf(pc[m]) = "new"
    BY Places DEF Init
  <2> QED BY <2>1 DEF Init, Ledger!Init, phase
<1>2. OutboxInv /\ [Next]_vars => [Ledger!Next]_<<phase, log>>
  BY LedgerStep
<1> QED BY <1>1, <1>2, OutboxAccounts, PTL DEF Spec, LedgerSpec, Ledger!Spec
================================================================================
