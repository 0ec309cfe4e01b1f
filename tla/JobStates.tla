----------------------------- MODULE JobStates -----------------------------
(***************************************************************************)
(* The states of one record of the upload queue and the classes of states  *)
(* that the controller's operations test for.  A record that is not in the *)
(* queue (not added yet, or removed) is "absent".                          *)
(***************************************************************************)
EXTENDS Naturals

\* Every state a record of the queue can have (model.JobState).
JobState ==
  {"absent", "queued", "oversize", "uploading", "sending", "confirming",
   "sent", "cancelled", "failed", "skipped", "moving", "moved",
   "interrupted"}

\* nextJob and hasRunnableJob: what the upload goroutine may start.
Runnable == {"queued", "interrupted"}

\* What CancelJob and CancelAll turn into "cancelled".
Cancellable == {"queued", "interrupted", "failed", "skipped"}

\* What the per-job Retry puts back in the queue.
Retryable == {"failed", "interrupted", "cancelled", "skipped", "confirming"}

\* What the per-job Skip accepts.
Skippable == {"failed", "confirming"}

\* Mutant of Recoverable: an unconfirmed record counts as a finished one.
RecoverableConfirming ==
  {"cancelled", "failed", "interrupted", "skipped", "confirming"}

\* isRecoverableJobState: what the bulk ResetJobs may touch.
Recoverable == {"cancelled", "failed", "interrupted", "skipped"}

\* isRemovableJobState.
Removable ==
  JobState \ {"absent", "uploading", "sending", "confirming", "moving"}

\* pendingRemovalEligibleState: an active record in one of these states is
\* marked for removal instead of being removed at once.
PendingEligible ==
  {"uploading", "sending", "sent", "cancelled", "interrupted", "failed"}

\* RemoveCompleted.
Completed == {"sent", "moved"}

\* Mutant of LimitEditable: an upload in progress is included.
LimitEditableActive == {"queued", "interrupted", "oversize", "uploading"}

\* ApplyUploadLimit: eligibility can still change.
LimitEditable == {"queued", "interrupted", "oversize"}

ResetModes == {"selected", "cancelled", "failed", "skipped", "all"}

\* matchesResetMode for a record in state s; isSelected tells whether the
\* caller listed it.
MatchesReset(mode, s, isSelected) ==
  /\ s \in Recoverable
  /\ mode = "selected"  => isSelected
  /\ mode = "cancelled" => s = "cancelled"
  /\ mode = "failed"    => s \in {"failed", "interrupted"}
  /\ mode = "skipped"   => s = "skipped"

\* Mutant of Recovered: a submission in progress is resumed like an upload.
RecoveredForResend(s) == IF s \in {"uploading", "sending"} THEN "interrupted" ELSE s

\* Store.Load: work that was active when the process stopped.
Recovered(s) ==
  CASE s = "uploading" -> "interrupted"
    [] s = "sending"   -> "confirming"
    [] OTHER           -> s

\* A record in one of these states is never started without a decision of the
\* user on that record: "absent" because ids are never reused.
Settled == {"absent", "sending", "confirming", "sent"}
=============================================================================
