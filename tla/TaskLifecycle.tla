--------------------------- MODULE TaskLifecycle ---------------------------
(***************************************************************************)
(* The task state machine and the merge that every write of a task row     *)
(* goes through: StateMachine.ts, TaskManager.advanceState and             *)
(* TaskRepository.save.  There is no state here, only operators on copies. *)
(*                                                                         *)
(* A task lives in one row of the table system_tasks, but every handler    *)
(* works on a copy of its own, read at some moment and written back later. *)
(* A copy keeps what those flows tell apart: the status, the status of the *)
(* approval, whether there is a result (result_summary), whether a remote  *)
(* session is known (metadata.jules_session_id), and the queue lock        *)
(* (metadata.queue_lock: free when absent, null or past its timeout).      *)
(***************************************************************************)
EXTENDS Naturals

Statuses == {"pending", "parsed", "planned", "waiting_approval", "approved",
             "running", "validating", "delivery_pending", "completed",
             "failed", "rejected", "reverted", "cancelled", "rollback_pending"}

ApprovalStatuses ==
    {"not_required", "pending", "approved", "rejected", "expired"}

Copies == [status: Statuses, approval: ApprovalStatuses, result: BOOLEAN,
           session: BOOLEAN, lock: {"free", "held"}]

Terminal == {"completed", "failed", "rejected", "reverted", "cancelled"}

\* The rank of a status in DESCRIPTORS; every terminal status has rank 9.
getRank(s) ==
    CASE s = "pending"          -> 1
      [] s = "parsed"           -> 2
      [] s = "planned"          -> 3
      [] s = "waiting_approval" -> 4
      [] s = "approved"         -> 5
      [] s = "running"          -> 6
      [] s = "validating"       -> 7
      [] s = "delivery_pending" -> 8
      [] s \in Terminal         -> 9
      [] OTHER                  -> 10

TRANSITIONS(s) ==
    CASE s = "pending"          -> {"parsed", "cancelled", "failed"}
      [] s = "parsed"           -> {"planned", "waiting_approval", "running",
                                    "failed", "cancelled"}
      [] s = "planned"          -> {"waiting_approval", "running", "failed",
                                    "cancelled"}
      [] s = "waiting_approval" -> {"approved", "rejected", "cancelled",
                                    "failed", "running"}
      [] s = "approved"         -> {"running", "failed", "cancelled"}
      [] s = "running"          -> {"waiting_approval", "validating",
                                    "delivery_pending", "completed", "failed",
                                    "cancelled"}
      [] s = "validating"       -> {"delivery_pending", "completed", "failed",
                                    "cancelled"}
      [] s = "delivery_pending" -> {"completed", "failed", "cancelled"}
      [] s \in {"completed", "failed"} -> {"rollback_pending"}
      [] s = "rollback_pending" -> {"reverted", "failed"}
      [] OTHER                  -> {}

canTransition(current, next) == next = current \/ next \in TRANSITIONS(current)

\* Is a write of status incoming ignored when the row has status existing?
shouldPreservePersistedStatus(existing, incoming) ==
    /\ ~canTransition(existing, incoming)
    /\ \/ existing \in Terminal /\ incoming \notin Terminal
       \/ getRank(existing) > getRank(incoming)

\* Mutant: the copy always replaces the row.
mergeTaskForPersistence_Overwrites(existing, incoming) == incoming

\* Mutant: the row keeps its status only, the copy gives the other fields.
mergeTaskForPersistence_KeepsStatusOnly(existing, incoming) ==
    IF shouldPreservePersistedStatus(existing.status, incoming.status)
    THEN [incoming EXCEPT !.status = existing.status]
    ELSE incoming

(***************************************************************************)
(* What the row holds after a handler wrote its copy.  The copy replaces   *)
(* the row, except that a row that is further on keeps its own fields and  *)
(* takes from the copy only the result and the metadata it has none of.    *)
(***************************************************************************)
mergeTaskForPersistence(existing, incoming) ==
    IF shouldPreservePersistedStatus(existing.status, incoming.status)
    THEN [existing EXCEPT !.result  = @ \/ incoming.result,
                          !.session = @ \/ incoming.session]
    ELSE incoming

\* Mutant: a word that is no approval status.
resolveApprovalStatus_Typo(copy, next) ==
    IF next = "approved" THEN "granted" ELSE copy.approval

\* The approval status that goes with a status change of a copy.
resolveApprovalStatus(copy, next) ==
    CASE next = "waiting_approval" -> "pending"
      [] next = "approved"         -> "approved"
      [] next = "rejected"         -> "rejected"
      [] copy.status = "waiting_approval" /\ next = "running" -> "approved"
      [] /\ copy.status = "waiting_approval"
         /\ next \in {"failed", "cancelled"}
         /\ copy.approval = "pending" -> "expired"
      [] OTHER -> copy.approval

\* The copy after advanceState; where the change is not allowed the code
\* throws, which the actions that can meet it say in their guards.
advanceState(copy, next) ==
    [copy EXCEPT !.status   = next,
                 !.approval = resolveApprovalStatus(copy, next)]

\* Mutant: the metadata is rebuilt without the session.
Unlock_ForgetsSession(copy) == [copy EXCEPT !.lock = "free", !.session = FALSE]

Unlock(copy) == [copy EXCEPT !.lock = "free"]
=============================================================================
