---------------------------- MODULE QueueRunner ----------------------------
(***************************************************************************)
(* The upload goroutine, runQueue: it selects a record, uploads it with    *)
(* retries, submits the message and records the outcome, until nothing is  *)
(* left to do or it is told to stop.                                       *)
(***************************************************************************)
EXTENDS QueueState

-----------------------------------------------------------------------------
(* The upload goroutine: selection and one attempt.                        *)

\* A step of the goroutine that only moves it on.
RunnerOnly(l) ==
  /\ Goto(Runner, l)
  /\ UNCHANGED <<mem, disk, ctl, call, cand, revs, pown, opMu, outcome, used, budget>>

\* uploadJobWithRetry returns with the error err.
End(err) == RunnerOnly("ended") /\ run' = [run EXCEPT !.err = err]

\* A locked step of the goroutine that changes the queue and then persists it.
RunnerPersist ==
  /\ Touch(Runner)
  /\ Goto(Runner, "snap")
  /\ UNCHANGED <<disk, call, cand, pown, opMu, used, budget>>

Persisted(at, result) == pc[Runner] = result /\ run.at = at

\* Mutant of NothingToStart: the pause is left to the attempt.
NothingRunnable == RunnableJobs = {}

NothingToStart == IsPaused \/ RunnableJobs = {}

NextJob ==
  /\ pc[Runner] = "next"
  /\ IF NothingToStart
     THEN RunnerOnly("cleanup") /\ UNCHANGED run
     ELSE /\ RunnerOnly("selected")
          /\ \E j \in RunnableJobs :
               /\ \A k \in RunnableJobs : j <= k
               /\ run' = [NoRun EXCEPT !.job = j, !.chan = mem.channel]

\* ctx.Err() of the run, and the context of the next file.
JobContext ==
  /\ pc[Runner] = "selected"
  /\ IF ctl.runDead
     THEN RunnerOnly("cleanup") /\ UNCHANGED run
     ELSE /\ ctl' = [ctl EXCEPT !.jobDead = FALSE]
          /\ call' = Forget("job")
          /\ Goto(Runner, "attempt")
          /\ UNCHANGED <<mem, disk, run, cand, revs, pown, opMu, outcome, used, budget>>

BeginAttempt ==
  /\ pc[Runner] = "attempt"
  /\ CASE ContextDead             -> End("ctx")
       [] IsPaused /\ ~ContextDead -> End("paused")
       [] OTHER                   -> RunnerOnly("open") /\ UNCHANGED run

\* openVerifiedJob accepts the file, or reports that it changed.
OpenVerifiedJob ==
  /\ pc[Runner] = "open"
  /\ \/ RunnerOnly("reserve") /\ UNCHANGED run
     \/ End("failed")

\* The record becomes active under the lock that Pause and the edits use.
MayReserve ==
  /\ ~ContextDead /\ ~IsPaused
  /\ mem.st[run.job] \in (IF run.retry = 0 THEN Runnable ELSE {"uploading", "sending"})

Reserve ==
  /\ pc[Runner] = "reserve"
  /\ MayReserve
  /\ SetJob(run.job, "uploading")
  /\ ctl' = [ctl EXCEPT !.active = run.job, !.canCancel = TRUE, !.retryWait = FALSE]
  /\ run' = [run EXCEPT !.at = "uploading"]
  /\ RunnerPersist
  /\ UNCHANGED outcome

ReserveRefused ==
  /\ pc[Runner] = "reserve"
  /\ ~MayReserve
  /\ End(CASE ContextDead                                -> "ctx"
           [] ~ContextDead /\ IsPaused                   -> "paused"
           [] ~ContextDead /\ ~IsPaused
              /\ mem.st[run.job] = "cancelled"           -> "cancelled"
           [] OTHER -> IF run.retry = 0 \/ ~Present(run.job)
                       THEN "notRunnable" ELSE "failed")

ReserveLost == Persisted("uploading", "failed") /\ End("lost")

\* The locked check after the save: the boundary at which an attempt starts.
Boundary ==
  /\ Persisted("uploading", "saved")
  /\ CASE ContextDead             -> End("ctx")
       [] IsPaused /\ ~ContextDead -> End("paused")
       [] OTHER                   -> RunnerOnly("upload") /\ UNCHANGED run

\* Client.UploadVideo up to BeforeSend: validation and the file's parts.
UploadParts ==
  /\ pc[Runner] = "upload"
  /\ RunnerOnly("beforeSend") /\ UNCHANGED run

UploadRejected ==
  /\ pc[Runner] = "upload"
  /\ End("failed")

\* Mutant of TransportError: one retry too many.
TransportErrorOnceMore ==
  /\ pc[Runner] \in {"upload", "submit", "slot"}
  /\ pc[Runner] # "upload" => ~ContextDead
  /\ IF run.retry <= MaxRetry
     THEN RunnerOnly("retry") /\ UNCHANGED run
     ELSE End("failed")

\* A disconnection while the parts travel, or the client's own end afterwards:
\* a cancellation is retried only while the context of the file is alive.
TransportError ==
  /\ pc[Runner] \in {"upload", "submit", "slot"}
  /\ pc[Runner] # "upload" => ~ContextDead
  /\ IF run.retry < MaxRetry
     THEN RunnerOnly("retry") /\ UNCHANGED run
     ELSE End("failed")

TransportCancelled ==
  /\ pc[Runner] \in {"upload", "submit", "slot"}
  /\ ContextDead
  /\ End("ctx")

\* prepareSendForAttempt: the record is "sending" on disk before the message
\* is submitted.
PrepareSend ==
  /\ pc[Runner] = "beforeSend"
  /\ CASE mem.st[run.job] = "uploading" ->
            /\ SetJob(run.job, "sending")
            /\ run' = [run EXCEPT !.at = "sending"]
            /\ RunnerPersist
            /\ UNCHANGED <<ctl, outcome>>
       [] mem.st[run.job] = "sending" -> RunnerOnly("submit") /\ UNCHANGED run
       [] OTHER -> End("failed")

\* Mutant of SendPrepared: the message is submitted although the save failed.
SendUnsaved ==
  /\ pc[Runner] \in {"saved", "failed"}
  /\ run.at = "sending"
  /\ RunnerOnly("submit") /\ UNCHANGED run

SendPrepared ==
  /\ Persisted("sending", "saved")
  /\ RunnerOnly("submit") /\ UNCHANGED run

PrepareLost == Persisted("sending", "failed") /\ End("lost")

\* The last look at the context; the wait for a send slot follows.
LastCheck ==
  /\ pc[Runner] = "submit"
  /\ ~ContextDead
  /\ RunnerOnly("slot") /\ UNCHANGED run

\* messages.sendMedia leaves the process; a context that died since the last
\* look makes no difference.
Submit ==
  /\ pc[Runner] = "slot"
  /\ Goto(Runner, "inflight")
  /\ outcome' = [outcome EXCEPT ![run.job] = "open"]
  /\ UNCHANGED <<mem, disk, ctl, run, call, cand, revs, pown, opMu, used, budget>>

\* Telegram answers with the message, or nobody knows.
SendAnswered ==
  /\ pc[Runner] = "inflight"
  /\ \/ End("ok")
     \/ End("unknown")

\* waitBeforeUploadRetry.
BeforeRetry ==
  /\ pc[Runner] = "retry"
  /\ CASE IsPaused -> End("paused")
       [] ~IsPaused /\ ~Present(run.job) -> End("failed")
       [] OTHER ->
            /\ SetJob(run.job, "uploading")
            /\ ctl' = [ctl EXCEPT !.retryWait = TRUE]
            /\ run' = [run EXCEPT !.at = "retry"]
            /\ RunnerPersist
            /\ UNCHANGED outcome

RetryWaitEnds(l, r) ==
  /\ ctl' = [ctl EXCEPT !.retryWait = FALSE]
  /\ run' = r
  /\ Goto(Runner, l)
  /\ UNCHANGED <<mem, disk, call, cand, revs, pown, opMu, outcome, used, budget>>

RetryLost ==
  /\ Persisted("retry", "failed")
  /\ RetryWaitEnds("ended", [run EXCEPT !.err = "lost"])

RetryWaitCancelled ==
  /\ Persisted("retry", "saved")
  /\ ContextDead
  /\ RetryWaitEnds("ended", [run EXCEPT !.err = "ctx"])

RetryWaitOver ==
  /\ Persisted("retry", "saved")
  /\ IF IsPaused
     THEN RetryWaitEnds("ended", [run EXCEPT !.err = "paused"])
     ELSE RetryWaitEnds("attempt", [run EXCEPT !.retry = @ + 1, !.at = "none"])

-----------------------------------------------------------------------------
(* The upload goroutine: the end of an attempt.                            *)

\* runQueue captures the cancellation flags.
AttemptEnded ==
  /\ pc[Runner] = "ended"
  /\ run' = [run EXCEPT !.cur = ctl.cancelJob = run.job, !.all = ctl.cancelAll,
                        !.dead = ContextDead]
  /\ ctl' = [ctl EXCEPT !.canCancel = FALSE, !.retryWait = FALSE,
                        !.cancelJob = IF @ = run.job THEN NoJob ELSE @]
  /\ Goto(Runner, "dispatch")
  /\ UNCHANGED <<mem, disk, call, cand, revs, pown, opMu, outcome, used, budget>>

Interrupted == run.dead \/ run.cur \/ run.all \/ ctl.runDead \/ run.err = "paused"

\* A terminal state is set on the record, if it is still there, and persisted.
Conclude(kind, s) ==
  /\ run' = [run EXCEPT !.at = kind, !.kind = kind]
  /\ IF Present(run.job) THEN SetJob(run.job, s) ELSE UNCHANGED mem
  /\ IF Present(run.job) \/ kind = "unknown" THEN Touch(Runner) ELSE UNCHANGED revs
  /\ Goto(Runner, "snap")
  /\ UNCHANGED <<disk, call, cand, pown, opMu, outcome, used, budget>>

NotStarted ==
  /\ pc[Runner] = "dispatch"
  /\ run.err \in {"cancelled", "notRunnable"}
  /\ ctl' = ActiveCleared(run.job)
  /\ run' = NoRun
  /\ Goto(Runner, "next")
  /\ UNCHANGED <<mem, disk, call, cand, revs, pown, opMu, outcome, used, budget>>

OutcomeUnknown ==
  /\ pc[Runner] = "dispatch"
  /\ run.err = "unknown"
  /\ ctl' = PendingCleared(run.job)
  /\ Conclude("unknown", "confirming")

\* clearPendingRemoval before failJob.
PersistenceLost ==
  /\ pc[Runner] = "dispatch"
  /\ run.err = "lost"
  /\ ctl' = PendingCleared(run.job)
  /\ Goto(Runner, "fail")
  /\ UNCHANGED <<mem, disk, run, call, cand, revs, pown, opMu, outcome, used, budget>>

Interrupt ==
  /\ pc[Runner] = "dispatch"
  /\ run.err \in {"ctx", "failed", "paused"}
  /\ Interrupted
  /\ Conclude("interrupt", IF run.cur \/ run.all THEN "cancelled" ELSE "interrupted")
  /\ UNCHANGED ctl

\* failJob: a cancellation that is newer than the captured flags wins.
FailJob ==
  /\ \/ pc[Runner] = "fail"
     \/ pc[Runner] = "dispatch" /\ run.err \in {"ctx", "failed"} /\ ~Interrupted
  /\ Conclude(IF run.err = "lost" THEN "lost" ELSE "fail",
              IF \/ mem.st[run.job] = "cancelled"
                 \/ ctl.cancelAll
                 \/ ctl.cancelJob = run.job
              THEN "cancelled" ELSE "failed")
  /\ UNCHANGED ctl

Sent ==
  /\ pc[Runner] = "dispatch"
  /\ run.err = "ok"
  /\ IF Present(run.job)
     THEN Conclude("sent", "sent") /\ UNCHANGED ctl
     ELSE RunnerOnly("next") /\ run' = NoRun

Terminal == {"interrupt", "fail", "sent"}

\* Where the goroutine goes once the record is finished.
AfterJob == IF run.kind = "interrupt" /\ ctl.runDead THEN "cleanup" ELSE "next"

\* Mutant of FinishUnlessPending: plain finishActiveJob.
FinishAlways ==
  /\ pc[Runner] = "saved"
  /\ run.at \in Terminal
  /\ run' = NoRun
  /\ ctl' = ActiveCleared(run.job)
  /\ Goto(Runner, AfterJob)
  /\ UNCHANGED <<mem, disk, call, cand, revs, pown, opMu, outcome, used, budget>>

\* finishActiveJobUnlessPending.
FinishUnlessPending ==
  /\ pc[Runner] = "saved"
  /\ run.at \in Terminal
  /\ IF ctl.active = run.job /\ run.job \in ctl.pending
     THEN /\ run' = [run EXCEPT !.at = "remove"]
          /\ Goto(Runner, "snap")
          /\ UNCHANGED ctl
     ELSE /\ run' = NoRun
          /\ ctl' = ActiveCleared(run.job)
          /\ Goto(Runner, AfterJob)
  /\ UNCHANGED <<mem, disk, call, cand, revs, pown, opMu, outcome, used, budget>>

\* clearPendingRemoval after a failed save.  A record that is sent or lost keeps
\* its active identity until the final cleanup.
TerminalLost ==
  /\ pc[Runner] = "failed"
  /\ run.at \in Terminal
  /\ ctl' = PendingCleared(run.job)
  /\ run' = [run EXCEPT !.err = "return"]
  /\ Goto(Runner, IF run.at = "sent" THEN "cleanup" ELSE "finish")
  /\ UNCHANGED <<mem, disk, call, cand, revs, pown, opMu, outcome, used, budget>>

\* Mutant of StopAfterSave: an unknown outcome falls through to failJob.
FailUnknown ==
  /\ pc[Runner] \in {"saved", "failed"}
  /\ run.at \in {"unknown", "lost"}
  /\ RunnerOnly(IF run.at = "unknown" THEN "fail" ELSE "cleanup")
  /\ UNCHANGED run

StopAfterSave ==
  /\ pc[Runner] \in {"saved", "failed"}
  /\ run.at \in {"unknown", "lost"}
  /\ RunnerOnly("cleanup") /\ UNCHANGED run

\* removeAfterTerminalPersist.
PrepareRemoval ==
  /\ run.at = "remove"
  /\ Present(run.job)
  /\ Prepare(Runner, [mem EXCEPT !.st[run.job] = "absent"])

RemovalEnds(c1, err) ==
  /\ ctl' = c1
  /\ run' = [run EXCEPT !.err = err]
  /\ Goto(Runner, "finish")
  /\ UNCHANGED <<disk, call, pown, opMu, outcome, used, budget>>

RemovedByOther ==
  /\ pc[Runner] = "snap"
  /\ run.at = "remove"
  /\ ~Present(run.job)
  /\ RemovalEnds(PendingCleared(run.job), "go")
  /\ UNCHANGED <<mem, cand, revs>>

RemovalFailed ==
  /\ Persisted("remove", "failed")
  /\ RemovalEnds(PendingCleared(run.job), IF run.kind = "interrupt" THEN "go" ELSE "return")
  /\ UNCHANGED <<mem, cand, revs>>

RemovalChanged ==
  /\ Persisted("remove", "saved")
  /\ ~fresh[Runner]
  /\ Goto(Runner, "snap")
  /\ cand' = [cand EXCEPT ![Runner] = EmptyDocument]
  /\ UNCHANGED <<mem, disk, ctl, run, call, revs, pown, opMu, outcome, used, budget>>

CommitPending ==
  /\ Persisted("remove", "saved")
  /\ fresh[Runner]
  /\ mem' = [mem EXCEPT !.st = cand[Runner].st]
  /\ cand' = [cand EXCEPT ![Runner] = EmptyDocument]
  /\ Touch(Runner)
  /\ RemovalEnds(PendingCleared(run.job), "go")

\* finishActiveJob.
FinishActiveJob ==
  /\ pc[Runner] = "finish"
  /\ ctl' = ActiveCleared(run.job)
  /\ run' = NoRun
  /\ Goto(Runner, IF run.err = "return" THEN "cleanup" ELSE AfterJob)
  /\ UNCHANGED <<mem, disk, call, cand, revs, pown, opMu, outcome, used, budget>>

\* The deferred function of runQueue.
Cleanup ==
  /\ pc[Runner] = "cleanup"
  /\ ctl' = [NoControl EXCEPT !.runDone = ctl.runDone, !.pending = ctl.pending,
                              !.runDead = ctl.runDead]
  /\ IF ctl.pauseRequested THEN TouchPause(Runner) ELSE UNCHANGED pown
  /\ run' = [NoRun EXCEPT !.at = "final"]
  /\ Goto(Runner, "snap")
  /\ UNCHANGED <<mem, disk, call, cand, revs, opMu, outcome, used, budget>>

CloseRunDone ==
  /\ pc[Runner] \in {"saved", "failed"}
  /\ run.at = "final"
  /\ ctl' = [ctl EXCEPT !.runDone = FALSE, !.runDead = TRUE]
  /\ run' = NoRun
  /\ Goto(Runner, "idle")
  /\ UNCHANGED <<mem, disk, call, cand, revs, pown, opMu, outcome, used, budget>>
=============================================================================
