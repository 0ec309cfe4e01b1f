--------------------------- MODULE QueueCommands ---------------------------
(***************************************************************************)
(* What the user interface calls: operations on one record, Pause and      *)
(* Resume, edits of the queue, Start.  Each runs on a caller's goroutine,  *)
(* concurrently with the upload goroutine and with the other callers.  A   *)
(* call that is refused changes nothing and is not a step.                 *)
(***************************************************************************)
EXTENDS QueueState

-----------------------------------------------------------------------------
(* Operations on one record: CancelJob, Retry, Skip, MarkSent.             *)

Begin(c, op) ==
  /\ op \in Ops
  /\ pc[c] = "idle"
  /\ calls < MaxCalls
  /\ calls' = calls + 1
  /\ UNCHANGED crashes

\* The record moves to state s at once; persistJobMutation saves the queue.
Mutate(c, op, j, s) ==
  /\ Begin(c, op)
  /\ Present(j)
  /\ j \notin ctl.pending
  /\ SetJob(j, s)
  /\ call' = [call EXCEPT ![c] = [NoCall EXCEPT !.op = op, !.job = j, !.state = mem.st[j]]]
  /\ Touch(c)
  /\ Goto(c, "snap")
  /\ UNCHANGED <<disk, ctl, run, cand, pown, opMu, used>>

InTransfer(j) == mem.st[j] \in {"uploading", "sending"} /\ ctl.active = j

CancelActive(c, j) ==
  /\ Begin(c, "cancel")
  /\ Present(j) /\ j \notin ctl.pending
  /\ InTransfer(j) /\ ctl.canCancel
  /\ ctl' = [ctl EXCEPT !.cancelJob = j]
  /\ call' = [call EXCEPT ![c] = [NoCall EXCEPT !.op = "cancel", !.job = j, !.sig = "job"]]
  /\ Goto(c, "signal")
  /\ UNCHANGED <<mem, disk, run, cand, revs, pown, opMu, outcome, used>>

CancelWaiting(c, j) ==
  /\ ~InTransfer(j)
  /\ mem.st[j] \in Cancellable
  /\ Mutate(c, "cancel", j, "cancelled")
  /\ UNCHANGED outcome

CancelJob(c) == \E j \in Jobs : CancelActive(c, j) \/ CancelWaiting(c, j)

\* The user decides to send a record again, whatever became of it before.
Retry(c) ==
  \E j \in Jobs :
    /\ mem.st[j] \in Retryable
    /\ Mutate(c, "retry", j, "queued")
    /\ outcome' = [outcome EXCEPT ![j] = "none"]

Skip(c) ==
  \E j \in Jobs :
    /\ mem.st[j] \in Skippable
    /\ j # ctl.active
    /\ Mutate(c, "skip", j, "skipped")
    /\ outcome' = [outcome EXCEPT ![j] = IF @ = "open" THEN "skipped" ELSE @]

MarkSent(c) ==
  \E j \in Jobs :
    /\ mem.st[j] = "confirming"
    /\ Mutate(c, "markSent", j, "sent")
    /\ UNCHANGED outcome

Mutations == {"cancel", "retry", "skip", "markSent"}

\* persistJobMutation after a failed save: the record goes back, unless
\* somebody changed the queue since.
MutationFailed(c) ==
  /\ pc[c] = "failed"
  /\ call[c].op \in Mutations
  /\ IF own[c] /\ Present(call[c].job)
     THEN SetJob(call[c].job, call[c].state) /\ Touch(NoCaller)
     ELSE UNCHANGED <<mem, revs>>
  /\ Return(c)
  /\ UNCHANGED <<disk, ctl, run, cand, pown, outcome, used, budget>>

\* The end of every operation that saves with persist; Pause then ends the
\* retry wait it found.
CallSaved(c) ==
  /\ pc[c] = "saved"
  /\ call[c].op \in Mutations \cup {"pause", "resume"}
  /\ own' = [own EXCEPT ![c] = FALSE]
  /\ pown' = [pown EXCEPT ![c] = FALSE]
  /\ IF call[c].sig = "none"
     THEN Return(c)
     ELSE Goto(c, "signal") /\ UNCHANGED <<call, opMu>>
  /\ UNCHANGED <<mem, disk, ctl, run, cand, fresh, outcome, used, budget>>

\* The call of a context.CancelFunc captured under c.mu.
Signal(c) ==
  /\ pc[c] \in {"presignal", "signal"}
  /\ ctl' = [ctl EXCEPT !.jobDead = @ \/ call[c].sig = "job",
                        !.runDead = @ \/ call[c].sig = "run"]
  /\ IF pc[c] = "signal"
     THEN Return(c)
     ELSE /\ Goto(c, "snap")
          /\ call' = [call EXCEPT ![c].sig = "none"]
          /\ UNCHANGED opMu
  /\ UNCHANGED <<mem, disk, run, cand, revs, pown, outcome, used, budget>>

-----------------------------------------------------------------------------
(* Pause and Resume.  They take opMu only when the queue is not running    *)
(* (it may have been started between that test and the lock).              *)

MaybeExclusive(c) ==
  \/ ctl.running /\ UNCHANGED opMu
  \/ opMu = NoCaller /\ opMu' = c

\* Mutant of ChangePause: queueRevision is not advanced.
ChangePauseUnrevised(c, op, paused, requested, sig) ==
  /\ Begin(c, op)
  /\ MaybeExclusive(c)
  /\ mem' = [mem EXCEPT !.paused = paused]
  /\ ctl' = [ctl EXCEPT !.pauseRequested = requested]
  /\ call' = [call EXCEPT ![c] =
       [NoCall EXCEPT !.op = op, !.was = mem.paused, !.wasReq = ctl.pauseRequested,
                      !.sig = sig]]
  /\ TouchPause(c)
  /\ Goto(c, "snap")
  /\ UNCHANGED <<disk, run, cand, revs, outcome, used>>

ChangePause(c, op, paused, requested, sig) ==
  /\ Begin(c, op)
  /\ MaybeExclusive(c)
  /\ mem' = [mem EXCEPT !.paused = paused]
  /\ ctl' = [ctl EXCEPT !.pauseRequested = requested]
  /\ call' = [call EXCEPT ![c] =
       [NoCall EXCEPT !.op = op, !.was = mem.paused, !.wasReq = ctl.pauseRequested,
                      !.sig = sig]]
  /\ Touch(NoCaller)
  /\ TouchPause(c)
  /\ Goto(c, "snap")
  /\ UNCHANGED <<disk, run, cand, outcome, used>>

Pause(c) ==
  LET requested == ctl.running \/ ctl.pauseRequested
      waiting == ctl.running /\ ctl.retryWait /\ ctl.canCancel
  IN /\ ~mem.paused \/ requested # ctl.pauseRequested
     /\ ChangePause(c, "pause", TRUE, requested, IF waiting THEN "job" ELSE "none")

Resume(c) ==
  /\ IsPaused
  /\ ChangePause(c, "resume", FALSE, FALSE, "none")

\* A failed save takes the intent back, unless a newer one replaced it.  This
\* advances pauseRevision and not queueRevision.
PauseFailed(c) ==
  /\ pc[c] = "failed"
  /\ call[c].op \in {"pause", "resume"}
  /\ IF pown[c]
     THEN /\ mem' = [mem EXCEPT !.paused = call[c].was]
          /\ ctl' = [ctl EXCEPT !.pauseRequested = call[c].wasReq /\ ctl.running]
          /\ TouchPause(NoCaller)
     ELSE UNCHANGED <<mem, ctl, pown>>
  /\ Return(c)
  /\ UNCHANGED <<disk, run, cand, revs, outcome, used, budget>>

-----------------------------------------------------------------------------
(* Edits: the whole next queue is saved first and published afterwards.    *)

BeginEdit(c, request) ==
  /\ Begin(c, request.op)
  /\ opMu = NoCaller
  /\ opMu' = c
  /\ call' = [call EXCEPT ![c] = request]
  /\ Goto(c, "snap")
  /\ UNCHANGED <<mem, disk, ctl, run, cand, revs, pown, outcome>>

\* ClearQueue is RemoveJobs of everything.
RemoveJobs(c) ==
  /\ \E sel \in SUBSET Jobs \ {{}} :
       BeginEdit(c, [NoCall EXCEPT !.op = "remove", !.sel = sel])
  /\ UNCHANGED used

RemoveCompleted(c) ==
  /\ BeginEdit(c, [NoCall EXCEPT !.op = "removeCompleted"])
  /\ UNCHANGED used

ResetJobs(c) ==
  /\ \E mode \in ResetModes, sel \in SUBSET Jobs :
       /\ mode = "selected" <=> sel # {}
       /\ BeginEdit(c, [NoCall EXCEPT !.op = "reset", !.mode = mode, !.sel = sel])
  /\ UNCHANGED used

\* sel is the set of records that are larger than the limit; sizes grow with
\* the ids.
ApplyUploadLimit(c) ==
  /\ \E limit \in 0..N :
       BeginEdit(c, [NoCall EXCEPT !.op = "limit", !.sel = {j \in Jobs : j > limit}])
  /\ UNCHANGED used

\* The scanner gives every candidate a new id and says whether it is too large.
AddJobs(c) ==
  \E j \in Jobs \ used, s \in {"queued", "oversize"} :
    /\ \A k \in Jobs : k < j => k \in used
    /\ BeginEdit(c, [NoCall EXCEPT !.op = "add", !.sel = {j}, !.state = s])
    /\ used' = used \cup {j}

SetChannel(c) ==
  /\ \E ch \in Channels : BeginEdit(c, [NoCall EXCEPT !.op = "setChannel", !.chan = ch])
  /\ UNCHANGED used

\* CancelAll does not take opMu.  Between files it cancels the run at once.
CancelAll(c) ==
  LET early == ctl.running /\ ctl.active = NoJob
  IN /\ Begin(c, "cancelAll")
     /\ call' = [call EXCEPT ![c] =
          [NoCall EXCEPT !.op = "cancelAll", !.sig = IF early THEN "run" ELSE "none"]]
     /\ Goto(c, IF early THEN "presignal" ELSE "snap")
     /\ UNCHANGED <<mem, disk, ctl, run, cand, revs, pown, opMu, outcome, used>>

\* What each edit makes of the record j.
Edited(c, j) ==
  LET s == mem.st[j]
      op == call[c].op
      sel == call[c].sel
  IN CASE op = "cancelAll" /\ s \in Cancellable -> "cancelled"
       [] op = "remove" /\ j \in sel /\ s \in Removable /\ j # ctl.active -> "absent"
       [] op = "removeCompleted" /\ s \in Completed -> "absent"
       [] op = "reset" /\ j # ctl.active /\ j \notin ctl.pending
          /\ MatchesReset(call[c].mode, s, j \in sel) -> "queued"
       [] op = "limit" /\ s \in LimitEditable /\ j \in sel -> "oversize"
       [] op = "limit" /\ s = "oversize" /\ j \notin sel -> "queued"
       [] op = "add" /\ j \in sel /\ s = "absent" -> call[c].state
       [] OTHER -> s

Candidate(c) ==
  [st |-> [j \in Jobs |-> Edited(c, j)],
   paused |-> mem.paused /\ call[c].op # "cancelAll",
   channel |-> IF call[c].op = "setChannel" THEN call[c].chan ELSE mem.channel]

\* CancelAll and SetChannel save whether or not anything changes.
Changes(c) ==
  \/ call[c].op \in {"cancelAll", "setChannel"}
  \/ Candidate(c).st # mem.st

\* Mutant of PrepareEdit: SetChannel does not look whether the queue runs.
PrepareEditWhileRunning(c) ==
  /\ call[c].op \in Edits
  /\ Changes(c)
  /\ Prepare(c, Candidate(c))

PrepareEdit(c) ==
  /\ call[c].op \in Edits
  /\ call[c].op = "setChannel" => ~ctl.running
  /\ Changes(c)
  /\ Prepare(c, Candidate(c))

\* requestActiveRemovalLocked: the active record is cancelled now and removed
\* by the upload goroutine.
MarkedForRemoval(c, c1, st) ==
  LET j == c1.active
  IN IF /\ j # NoJob /\ j \in call[c].sel
        /\ st[j] \in PendingEligible
     THEN [c1 EXCEPT !.pending = @ \cup {j}, !.cancelJob = j]
     ELSE c1

\* The request returns, or first calls activeCancel.
ReturnOrSignal(c, marked) ==
  IF marked /\ ctl.canCancel
  THEN /\ Goto(c, "signal")
       /\ call' = [call EXCEPT ![c].sig = "job"]
       /\ UNCHANGED opMu
  ELSE Return(c)

\* Nothing to save: the edit returns, RemoveJobs after marking the active
\* record.  SetChannel refuses a running queue.
EditNothing(c) ==
  LET marked == IF call[c].op = "remove" THEN MarkedForRemoval(c, ctl, mem.st) ELSE ctl
  IN /\ pc[c] = "snap"
     /\ call[c].op \in Edits
     /\ \/ ~Changes(c)
        \/ call[c].op = "setChannel" /\ ctl.running
     /\ ctl' = marked
     /\ ReturnOrSignal(c, marked # ctl)
     /\ UNCHANGED <<mem, disk, run, cand, revs, pown, outcome, used, budget>>

EditFailed(c) ==
  /\ pc[c] = "failed"
  /\ call[c].op \in Edits
  /\ Return(c)
  /\ UNCHANGED <<mem, disk, ctl, run, cand, revs, pown, outcome, used, budget>>

\* The revision moved between the save and the publication: start over.
EditChanged(c) ==
  /\ pc[c] = "saved"
  /\ call[c].op \in Edits
  /\ ~fresh[c]
  /\ Goto(c, "snap")
  /\ cand' = [cand EXCEPT ![c] = EmptyDocument]
  /\ UNCHANGED <<mem, disk, ctl, run, call, revs, pown, opMu, outcome, used, budget>>

\* Mutant of Committing: published without comparing the revisions.
CommittingUnchecked(c, ops) ==
  /\ pc[c] = "saved"
  /\ call[c].op \in ops
  /\ Touch(NoCaller)
  /\ cand' = [cand EXCEPT ![c] = EmptyDocument]
  /\ UNCHANGED <<disk, run, used, budget>>

Committing(c, ops) ==
  /\ pc[c] = "saved"
  /\ call[c].op \in ops
  /\ fresh[c]
  /\ Touch(NoCaller)
  /\ cand' = [cand EXCEPT ![c] = EmptyDocument]
  /\ UNCHANGED <<disk, run, used, budget>>

\* commitCandidate.  Listing a skipped record in ResetSelected is a decision
\* on that record.
CommitCandidate(c) ==
  /\ Committing(c, {"removeCompleted", "reset", "limit", "add"})
  /\ mem' = [mem EXCEPT !.st = cand[c].st]
  /\ outcome' = [j \in Jobs |->
       IF call[c].mode = "selected" /\ cand[c].st[j] # mem.st[j] /\ outcome[j] = "skipped"
       THEN "none" ELSE outcome[j]]
  /\ Return(c)
  /\ UNCHANGED <<ctl, pown>>

CommitRemoval(c) ==
  LET marked == MarkedForRemoval(c, ctl, cand[c].st)
  IN /\ Committing(c, {"remove"})
     /\ mem' = [mem EXCEPT !.st = cand[c].st]
     /\ ctl' = marked
     /\ ReturnOrSignal(c, marked # ctl)
     /\ UNCHANGED <<pown, outcome>>

CommitCancelAll(c) ==
  /\ Committing(c, {"cancelAll"})
  /\ mem' = [mem EXCEPT !.st = cand[c].st, !.paused = FALSE]
  /\ ctl' = [ctl EXCEPT !.pauseRequested = FALSE, !.cancelAll = TRUE]
  /\ TouchPause(NoCaller)
  /\ IF ctl.running
     THEN /\ Goto(c, "signal")
          /\ call' = [call EXCEPT ![c].sig = "run"]
          /\ UNCHANGED opMu
     ELSE Return(c)
  /\ UNCHANGED outcome

CommitChannel(c) ==
  /\ Committing(c, {"setChannel"})
  /\ mem' = [mem EXCEPT !.channel = call[c].chan]
  /\ Return(c)
  /\ UNCHANGED <<ctl, pown, outcome>>

-----------------------------------------------------------------------------
(* Start.                                                                  *)

\* Mutant of MayStart: the clean-up of the previous run is not waited for.
MayStartEarly ==
  ~ctl.running /\ mem.channel # NoChannel /\ RunnableJobs # {}

MayStart ==
  ~ctl.running /\ ~ctl.runDone /\ mem.channel # NoChannel /\ RunnableJobs # {}

Start(c) ==
  /\ Begin(c, "start")
  /\ opMu = NoCaller
  /\ MayStart
  /\ opMu' = c
  /\ mem' = [mem EXCEPT !.paused = FALSE]
  /\ ctl' = [ctl EXCEPT !.running = TRUE, !.runDone = TRUE, !.runDead = FALSE,
                        !.pauseRequested = FALSE, !.cancelJob = NoJob,
                        !.cancelAll = FALSE]
  /\ call' = [Forget("run") EXCEPT ![c] = [NoCall EXCEPT !.op = "start", !.was = IsPaused]]
  /\ IF IsPaused
     THEN Touch(NoCaller) /\ TouchPause(c)
     ELSE UNCHANGED <<revs, pown>>
  /\ Goto(c, "snap")
  /\ UNCHANGED <<disk, run, cand, outcome, used>>

StartSaved(c) ==
  /\ pc[c] = "saved"
  /\ call[c].op = "start"
  /\ pc' = [pc EXCEPT ![c] = "idle", ![Runner] = "next"]
  /\ call' = [call EXCEPT ![c] = NoCall]
  /\ opMu' = NoCaller
  /\ pown' = [pown EXCEPT ![c] = FALSE]
  /\ UNCHANGED <<mem, disk, ctl, run, cand, revs, outcome, used, budget>>

StartFailed(c) ==
  LET restore == call[c].was /\ pown[c]
  IN /\ pc[c] = "failed"
     /\ call[c].op = "start"
     /\ ctl' = [ctl EXCEPT !.running = FALSE, !.runDone = FALSE, !.runDead = TRUE,
                           !.pauseRequested = FALSE]
     /\ IF restore
        THEN mem' = [mem EXCEPT !.paused = TRUE] /\ Touch(NoCaller) /\ TouchPause(NoCaller)
        ELSE UNCHANGED <<mem, revs, pown>>
     /\ Return(c)
     /\ UNCHANGED <<disk, run, cand, outcome, used, budget>>

\* The context the window gave to Start is cancelled: the application closes.
Shutdown ==
  /\ "shutdown" \in Ops
  /\ ctl.running
  /\ ~ctl.runDead
  /\ ctl' = [ctl EXCEPT !.runDead = TRUE]
  /\ UNCHANGED <<mem, disk, run, call, pc, cand, revs, pown, opMu, outcome, used, budget>>
=============================================================================
