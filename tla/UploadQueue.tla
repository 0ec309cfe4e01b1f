---------------------------- MODULE UploadQueue ----------------------------
(***************************************************************************)
(* The controller as a whole: the upload goroutine, the callers, the       *)
(* store, and crashes of the process.                                      *)
(***************************************************************************)
EXTENDS QueueCommands, QueueRunner

-----------------------------------------------------------------------------
(* Process start: everything but queue.json is new, and Load reads it.     *)

LoadedQueue(d) == [d EXCEPT !.st = [j \in Jobs |-> Recovered(d.st[j])]]

Init ==
  /\ \E loaded \in [Jobs -> LoadedStates], paused \in LoadedPaused, ch \in Channels :
       disk = [st |-> loaded, paused |-> paused, channel |-> ch]
  /\ mem = LoadedQueue(disk)
  /\ outcome = [j \in Jobs |-> IF disk.st[j] \in {"sending", "confirming", "sent"}
                               THEN "open" ELSE "none"]
  /\ used = {j \in Jobs : disk.st[j] # "absent"}
  /\ ctl = NoControl
  /\ run = NoRun
  /\ call = [c \in Callers |-> NoCall]
  /\ pc = [p \in Procs |-> "idle"]
  /\ cand = [p \in Procs |-> EmptyDocument]
  /\ fresh = [p \in Procs |-> FALSE]
  /\ own = [c \in Callers |-> FALSE]
  /\ pown = [c \in Callers |-> FALSE]
  /\ opMu = NoCaller
  /\ calls = 0
  /\ crashes = 0

\* The process dies anywhere and is started again.
Crash ==
  /\ crashes < MaxCrashes
  /\ crashes' = crashes + 1
  /\ mem' = LoadedQueue(disk)
  /\ ctl' = NoControl
  /\ run' = NoRun
  /\ call' = [c \in Callers |-> NoCall]
  /\ pc' = [p \in Procs |-> "idle"]
  /\ cand' = [p \in Procs |-> EmptyDocument]
  /\ Touch(NoCaller)
  /\ TouchPause(NoCaller)
  /\ opMu' = NoCaller
  /\ UNCHANGED <<disk, outcome, used, calls>>

-----------------------------------------------------------------------------

CallerBegins(c) ==
  \/ Start(c) \/ Pause(c) \/ Resume(c)
  \/ CancelJob(c) \/ CancelAll(c) \/ Retry(c) \/ Skip(c) \/ MarkSent(c)
  \/ RemoveJobs(c) \/ RemoveCompleted(c) \/ ResetJobs(c)
  \/ ApplyUploadLimit(c) \/ AddJobs(c) \/ SetChannel(c)

CallerContinues(c) ==
  \/ MutationFailed(c) \/ CallSaved(c) \/ Signal(c) \/ PauseFailed(c)
  \/ PrepareEdit(c) \/ EditNothing(c) \/ EditFailed(c) \/ EditChanged(c)
  \/ CommitCandidate(c) \/ CommitRemoval(c) \/ CommitCancelAll(c) \/ CommitChannel(c)
  \/ StartSaved(c) \/ StartFailed(c)

RunnerSteps ==
  \/ NextJob \/ JobContext \/ BeginAttempt \/ OpenVerifiedJob
  \/ Reserve \/ ReserveRefused \/ ReserveLost \/ Boundary
  \/ UploadParts \/ UploadRejected \/ TransportError \/ TransportCancelled
  \/ PrepareSend \/ SendPrepared \/ PrepareLost \/ LastCheck \/ Submit \/ SendAnswered
  \/ BeforeRetry \/ RetryLost \/ RetryWaitCancelled \/ RetryWaitOver
  \/ AttemptEnded \/ NotStarted \/ OutcomeUnknown \/ PersistenceLost
  \/ Interrupt \/ FailJob \/ Sent
  \/ FinishUnlessPending \/ TerminalLost \/ StopAfterSave
  \/ PrepareRemoval \/ RemovedByOther \/ RemovalFailed \/ RemovalChanged
  \/ CommitPending \/ FinishActiveJob \/ Cleanup \/ CloseRunDone

Persisting(p) ==
  \/ PersistSnapshot(p) \/ LockAndCheck(p)
  \/ SaveSucceeds(p) \/ SaveFails(p) \/ Recheck(p)

\* Nothing runs and nothing is asked for.
Quiet == \A p \in Procs : pc[p] = "idle"
Rest == Quiet /\ UNCHANGED vars

Next ==
  \/ \E c \in Callers : CallerBegins(c) \/ CallerContinues(c)
  \/ RunnerSteps
  \/ \E p \in Procs : Persisting(p)
  \/ Shutdown
  \/ Crash
  \/ Rest

Spec == Init /\ [][Next]_vars

\* The upload goroutine is scheduled, file operations and Telegram answer, a
\* call that has begun continues.  persistMu is a Go mutex: it is handed to
\* every waiter in the end, although it is not free all the time.
Fairness ==
  /\ WF_vars(RunnerSteps)
  /\ \A c \in Callers : WF_vars(CallerContinues(c))
  /\ \A p \in Procs : WF_vars(Persisting(p)) /\ SF_vars(LockAndCheck(p))

FairSpec == Spec /\ Fairness

-----------------------------------------------------------------------------
(* Type invariant.                                                         *)

ControlType ==
  [running : BOOLEAN, runDone : BOOLEAN, pauseRequested : BOOLEAN,
   active : Jobs \cup {NoJob}, canCancel : BOOLEAN, retryWait : BOOLEAN,
   cancelJob : Jobs \cup {NoJob}, cancelAll : BOOLEAN, pending : SUBSET Jobs,
   runDead : BOOLEAN, jobDead : BOOLEAN]

RunType ==
  [job : Jobs \cup {NoJob}, chan : Channels \cup {NoChannel}, retry : 0..MaxRetry,
   err : {"ok", "cancelled", "notRunnable", "unknown", "paused", "lost", "ctx",
          "failed", "return", "go"},
   at : {"none", "uploading", "sending", "retry", "unknown", "lost",
         "interrupt", "fail", "sent", "remove", "final"},
   kind : {"none", "unknown", "lost", "interrupt", "fail", "sent"},
   cur : BOOLEAN, all : BOOLEAN, dead : BOOLEAN]

CallType ==
  [op : AllOps \cup {"none"}, job : Jobs \cup {NoJob}, sel : SUBSET Jobs,
   mode : ResetModes \cup {"none"}, state : JobState, was : BOOLEAN,
   wasReq : BOOLEAN, chan : Channels \cup {NoChannel},
   sig : {"none", "job", "run"}]

PersistPoints == {"snap", "lock", "save", "check", "saved", "failed"}
CallerPoints == {"idle", "presignal", "signal"} \cup PersistPoints
RunnerPoints ==
  {"idle", "next", "selected", "attempt", "open", "reserve", "upload",
   "beforeSend", "submit", "slot", "inflight", "retry", "ended", "dispatch", "fail",
   "finish", "cleanup"} \cup PersistPoints

TypeOK ==
  /\ mem \in Document
  /\ disk \in Document
  /\ ctl \in ControlType
  /\ run \in RunType
  /\ call \in [Callers -> CallType]
  /\ pc \in [Procs -> CallerPoints \cup RunnerPoints]
  /\ cand \in [Procs -> Document]
  /\ fresh \in [Procs -> BOOLEAN]
  /\ own \in [Callers -> BOOLEAN]
  /\ pown \in [Callers -> BOOLEAN]
  /\ opMu \in Callers \cup {NoCaller}
  /\ outcome \in [Jobs -> {"none", "open", "skipped"}]
  /\ used \subseteq Jobs
  /\ calls \in 0..MaxCalls
  /\ crashes \in 0..MaxCrashes

\* The goroutine is at one of the points, or persists on the way there.
At(points, at) ==
  pc[Runner] \in points \/ (pc[Runner] \in PersistPoints /\ run.at = at)

\* A retry is only prepared while one is left: what makes TypeOK inductive.
RetriesLeft == At({"retry"}, "retry") => run.retry < MaxRetry

-----------------------------------------------------------------------------
(* Safety.                                                                 *)

\* Once a message has been submitted for a record and the user has not decided
\* on it, neither the memory nor queue.json ever holds the record in a state
\* from which the program would send it again: whatever edits, saves, failed
\* saves and crashes happen meanwhile (prepareSendForAttempt, persistCandidate,
\* Store.Load).
OpenIsSettled ==
  \A j \in Jobs : outcome[j] = "open" => mem.st[j] \in Settled /\ disk.st[j] \in Settled

\* No message is submitted twice without a decision of the user in between.
Submitting == pc[Runner] = "slot" /\ pc'[Runner] = "inflight"
NeverResubmit == [][Submitting => outcome[run.job] # "open"]_vars

\* The reason why OpenIsSettled holds, as an inductive invariant.
\*
\* t may be prepared from the current state s of record j by p.
MayPrepare(p, j, s, t) ==
  \/ t = s
  \/ t = "cancelled" /\ s \in Cancellable
  \/ t = "absent" /\ (s \in Removable \/ (p = Runner /\ run.at = "remove"))
  \/ t = "queued" /\ s \in Recoverable \cup LimitEditable
  \/ t = "oversize" /\ s \in LimitEditable
  \/ s = "absent" /\ p # Runner /\ call[p].op = "add" /\ j \in call[p].sel

\* A document whose revision is current is an edit of the queue as it is now.
EditIsCurrent(p) ==
  fresh[p] =>
    /\ pc[p] \in {"lock", "save", "check"} \/ (pc[p] = "saved" /\ ~Plain(p))
    /\ \A j \in Jobs : MayPrepare(p, j, mem.st[j], cand[p].st[j])
FreshIsCurrent == \A p \in Procs : EditIsCurrent(p)

\* A failed mutation takes back its own change and nothing else.
ChangeIsOwn(c) ==
  own[c] =>
    /\ pc[c] \in PersistPoints
    /\ call[c].op \in Mutations
    /\ call[c].job \in Jobs
    /\ mem.st[call[c].job] \in {"cancelled", "queued", "skipped", "sent"}
    /\ outcome[call[c].job] = "open" => call[c].state \in Settled
OwnIsCurrent == \A c \in Callers : ChangeIsOwn(c)

\* The points of the goroutine from which it may still submit its record, or
\* puts it back without having submitted it.
BeforeSubmission ==
  \/ pc[Runner] \in {"selected", "attempt", "open", "reserve", "upload",
                     "beforeSend", "submit", "slot", "retry", "fail"}
  \/ pc[Runner] \in PersistPoints /\ run.at \in {"uploading", "sending", "retry"}
  \/ pc[Runner] \in {"ended", "dispatch"} /\ run.err \notin {"ok", "unknown"}
NotYetSubmitted == BeforeSubmission => run.job \in Jobs /\ outcome[run.job] # "open"

RecordFollows ==
  /\ At({"upload", "beforeSend"}, "uploading") => mem.st[run.job] = "uploading"
  /\ At({"submit", "slot", "inflight"}, "sending") =>
       run.job \in Jobs /\ mem.st[run.job] = "sending"

\* From the moment the goroutine holds persistMu to save "sending", nobody can
\* write an older state of the record; afterwards the file holds it.
SendingSaved(points) ==
  \/ pc[Runner] \in {"submit", "slot", "inflight"}
  \/ pc[Runner] \in points /\ run.at = "sending"
NoOlderSave ==
  /\ SendingSaved({"save", "check", "saved"}) =>
       \A p \in Procs : pc[p] = "save" => cand[p].st[run.job] = "sending"
  /\ SendingSaved({"check", "saved"}) => disk.st[run.job] = "sending"
  /\ \A p \in Procs, j \in Jobs :
       pc[p] = "save" /\ outcome[j] = "open" => cand[p].st[j] \in Settled

\* AddJobs brings records that nobody has seen before.
UnusedAreAbsent ==
  \A j \in Jobs \ used :
    /\ mem.st[j] = "absent" /\ disk.st[j] = "absent" /\ outcome[j] # "open"
    /\ \A p \in Procs : pc[p] = "save" => cand[p].st[j] = "absent"
AddsNew(c) ==
  call[c].op = "add" =>
    /\ opMu = c
    /\ \A j \in call[c].sel : j \in used /\ mem.st[j] = "absent" /\ outcome[j] # "open"
IdsAreNew == UnusedAreAbsent /\ \A c \in Callers : AddsNew(c)

DeliveryInv ==
  /\ OpenIsSettled
  /\ FreshIsCurrent
  /\ OwnIsCurrent
  /\ NotYetSubmitted
  /\ RecordFollows
  /\ NoOlderSave
  /\ IdsAreNew

\* While a request is at Telegram, no edit takes the record away from the
\* goroutine: it keeps its place as active record and its state, and is
\* "sending" on disk before the message leaves.
Announced == {"submit", "slot", "inflight"}
Transferring == {"upload", "beforeSend"} \cup Announced
ActiveRecordKept ==
  pc[Runner] \in Transferring =>
    /\ ctl.running
    /\ ctl.active = run.job
    /\ mem.st[run.job] =
         (IF pc[Runner] \in Announced THEN "sending" ELSE "uploading")
    /\ pc[Runner] \in Announced => disk.st[run.job] = "sending"

\* A file is only ever sent to the channel that is bound while it is sent
\* (SetChannel against Start and the goroutine, which captured the channel).
SendsToBoundChannel == pc[Runner] \in Transferring => run.chan = mem.channel

\* When nothing runs, a restart shows the queue that the user sees: no write
\* overwrote a newer one and no edit was published without being saved.  (For
\* a store that does not fail.)
RestartShowsQueue == Quiet => mem = LoadedQueue(disk)

\* Whatever was prepared from an older view of the queue, a record that is
\* being transferred, or whose delivery is unknown, is only moved on by the
\* goroutine or by the user's decision on that record.  (For a store that fails no
\* Retry: its roll-back would move a record that the goroutine has selected.)
Decides(j) == \E c \in Callers : call'[c].op \in {"retry", "skip", "markSent"} /\ call'[c].job = j
NoStaleEdit ==
  [][crashes' = crashes =>
      \A j \in Jobs :
        /\ mem.st[j] \in {"uploading", "sending"} /\ mem'.st[j] # mem.st[j]
             => pc'[Runner] # pc[Runner]
        /\ mem.st[j] = "confirming" /\ mem'.st[j] # "confirming" => Decides(j)]_vars

\* A record that waits for the user's word, or about which he has given it, is
\* never moved by a step of the goroutine that was decided earlier: MarkSent and
\* Skip against the late end of an attempt.  (For a store that fails no Retry, see
\* NoStaleEdit.)
DecisionStands ==
  [][pc'[Runner] # pc[Runner] /\ crashes' = crashes =>
      \A j \in Jobs :
        mem.st[j] \in {"confirming", "skipped", "sent"}
          => mem'.st[j] \in {mem.st[j], "absent"}]_vars

\* An edit that holds opMu and the start of a run exclude each other (CancelAll
\* edits without opMu, and may meet a start), and a run is
\* never started over another one.
RunnerAlone ==
  /\ pc[Runner] # "idle" => ctl.runDone
  /\ \A c \in Callers :
       call[c].op = "start" => ctl.runDone /\ pc[Runner] = "idle" /\ opMu = c

\* CancelJob is final for the goroutine: it never puts a record that the user
\* cancelled back among those it runs.
CancelSticks ==
  [][pc'[Runner] # pc[Runner] /\ crashes' = crashes =>
      \A j \in Jobs : mem.st[j] = "cancelled" => mem'.st[j] \in {"cancelled", "absent"}]_vars

\* Pause "never cancels the active Telegram request": the cancel function that it
\* calls ends a wait between two attempts, never an attempt.
PauseIsSoft ==
  [][\A c \in Callers :
       pc[c] = "signal" /\ pc'[c] = "idle" /\ call[c].op = "pause" /\ crashes' = crashes
         => \/ pc[Runner] \notin Transferring
            \/ ctl'.jobDead = ctl.jobDead]_vars

\* A record marked for removal does not stay behind: when nothing runs, no
\* marker is left, whenever the removal was asked for.
PendingResolved == Quiet => ctl.pending = {}

\* The queue keeps the promise of SendLedger: the durable marks are the settled
\* records of queue.json.
Ledger == INSTANCE SendLedger WITH
  Records <- Jobs,
  marked <- {j \in Jobs : disk.st[j] \in Settled}
ImplementsLedger == Ledger!Spec

-----------------------------------------------------------------------------
(* Liveness, under FairSpec.                                               *)

\* Every run comes to its end, its final save and the release of runDone.
RunEnds == ctl.runDone ~> ~ctl.runDone

\* No call hangs: the loops of persist and of the edits come to an end, and the
\* locks that they wait for, persistMu above all, are released in the end.
CallsReturn == \A c \in Callers : pc[c] # "idle" ~> pc[c] = "idle"

\* A removal asked for before the goroutine looks at the markers of this attempt
\* for the last time is carried out or withdrawn.  After an unknown outcome and
\* after a failed save before the attempt that look comes first, and the record
\* stays active until the cleanup: a marker set there may stay for good (see
\* PendingResolved), so these ends are left out here.
StillToLook(j) ==
  /\ ctl.active = j /\ run.job = j
  /\ pc[Runner] \notin {"fail", "finish", "cleanup"}
  /\ run.kind \notin {"unknown", "lost"}
RemovalDrains ==
  \A j \in Jobs : (j \in ctl.pending /\ StillToLook(j)) ~> j \notin ctl.pending
=============================================================================
