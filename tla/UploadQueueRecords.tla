------------------------- MODULE UploadQueueRecords -------------------------
(***************************************************************************)
(* Three further promises of UploadQueue about its records, each with an   *)
(* inductive invariant of its own:                                         *)
(*                                                                         *)
(*   RunKept   the run, the bound channel and the active record stay       *)
(*             together, for every value of the constants;                 *)
(*   Settling  a record in transfer is the goroutine's, a record on which  *)
(*             the user decided is not, in a store that fails no Retry;    *)
(*   Saved     the file holds the queue or somebody is about to write it,  *)
(*             in a store that does not fail and without edits.            *)
(*                                                                         *)
(* As in UploadQueueDelivery, the effect of a step is summarised by a      *)
(* frame; one lemma shows that the frame keeps the invariant and one step  *)
(* per action that the action has the frame.                               *)
(***************************************************************************)
EXTENDS UploadQueueDelivery

-----------------------------------------------------------------------------
(* The run, the channel and the active record.                             *)

\* The run exists while the goroutine is anywhere but idle, in its final save, or
\* about to be started.
RunReserved ==
  /\ run.at = "final" => pc[Runner] \in PersistPoints
  /\ pc[Runner] # "idle" /\ run.at # "final" => ctl.running
  /\ \A c \in Callers : call[c].op = "start" => ctl.running

\* SetChannel holds opMu, and saves only what it prepared while nothing ran; the
\* channel that the goroutine captured for its record (runQueue) is the bound one.
ChannelKept ==
  /\ \A c \in Callers : call[c].op = "setChannel" =>
       /\ opMu = c
       /\ pc[c] \in {"lock", "save", "check", "saved"} => ~ctl.running
  /\ pc[Runner] \notin {"idle", "next", "cleanup"} /\ run.at # "final"
       => run.chan = mem.channel

\* The record that is reserved is the active one until its attempt ends.
RecordActive ==
  \/ pc[Runner] \in Transferring \cup {"retry"}
  \/ pc[Runner] \in PersistPoints /\ run.at \in {"uploading", "sending", "retry"}
  => ctl.active = run.job

\* Inductive relative to TypeOK and RunnerAlone.
RunKept == RunReserved /\ ChannelKept /\ RecordActive

\* A step of a caller leaves the goroutine and the active record alone, and changes
\* the channel only while nothing runs.
CallerKeepsRun(c) ==
  /\ run' = run
  /\ pc'[Runner] = pc[Runner]
  /\ ctl'.active = ctl.active
  /\ ctl'.running = ctl.running
  /\ mem'.channel = mem.channel \/ ~ctl.running
  /\ \A d \in Callers \ {c} :
       /\ pc'[d] = pc[d]
       /\ call'[d].op = call[d].op
       /\ opMu = d => opMu' = d
  /\ call'[c].op = "start" => call[c].op = "start"
  /\ call'[c].op = "setChannel" =>
       /\ opMu' = c
       /\ pc'[c] \in {"lock", "save", "check", "saved"} => ~ctl.running

\* Such a step keeps RunKept.
LEMMA FramedRun ==
  ASSUME RunKept, NEW c \in Callers, CallerKeepsRun(c)
  PROVE  RunKept'
BY DEF RunKept, RunReserved, ChannelKept, RecordActive, CallerKeepsRun

\* Every step of a caller is such a step, except those that start a run.
LEMMA CallersKeepRun ==
  ASSUME TypeOK, RunKept, NEW c \in Callers,
         CallerBegins(c) \/ CallerContinues(c),
         ~Start(c), ~StartSaved(c), ~StartFailed(c)
  PROVE  CallerKeepsRun(c)
<1>1. c \in Procs /\ Runner \in Procs /\ c # Runner /\ NoCaller \notin Callers
      /\ \A d \in Callers : d \in Procs
  BY ConstantsAssumption DEF ConstantsAssumption, Procs
<1> USE <1>1 DEF TypeOK, CallerKeepsRun, Goto, Begin, Document, ControlType, CallType, NoCall,
        Return
<1>2. CASE Pause(c) BY <1>2 DEF Pause, ChangePause, MaybeExclusive
<1>3. CASE Resume(c) BY <1>3 DEF Resume, ChangePause, MaybeExclusive
<1>4. ASSUME NEW j \in Jobs, CancelActive(c, j) PROVE CallerKeepsRun(c)
  BY <1>4 DEF CancelActive
<1>5. ASSUME NEW j \in Jobs, CancelWaiting(c, j) PROVE CallerKeepsRun(c)
  BY <1>5 DEF CancelWaiting, Mutate, SetJob
<1>6. CASE CancelAll(c) BY <1>6 DEF CancelAll
<1>7. CASE Retry(c) BY <1>7 DEF Retry, Mutate, SetJob
<1>8. CASE Skip(c) BY <1>8 DEF Skip, Mutate, SetJob
<1>9. CASE MarkSent(c) BY <1>9 DEF MarkSent, Mutate, SetJob
<1>10. CASE RemoveJobs(c) BY <1>10 DEF RemoveJobs, BeginEdit
<1>11. CASE RemoveCompleted(c) BY <1>11 DEF RemoveCompleted, BeginEdit
<1>12. CASE ResetJobs(c) BY <1>12 DEF ResetJobs, BeginEdit
<1>13. CASE ApplyUploadLimit(c) BY <1>13 DEF ApplyUploadLimit, BeginEdit
<1>14. CASE AddJobs(c) BY <1>14 DEF AddJobs, BeginEdit
<1>15. CASE SetChannel(c) BY <1>15 DEF SetChannel, BeginEdit
<1>16. CASE MutationFailed(c) BY <1>16 DEF MutationFailed, SetJob
<1>17. CASE CallSaved(c) BY <1>17 DEF CallSaved, Mutations
<1>18. CASE Signal(c) BY <1>18 DEF Signal, RunKept, ChannelKept
<1>19. CASE PauseFailed(c) BY <1>19 DEF PauseFailed
<1>20. CASE PrepareEdit(c) BY <1>20 DEF PrepareEdit, Prepare, RunKept, ChannelKept
<1>21. CASE EditNothing(c)
  BY <1>21 DEF EditNothing, ReturnOrSignal, MarkedForRemoval, RunKept, ChannelKept
<1>22. CASE EditFailed(c) BY <1>22 DEF EditFailed
<1>23. CASE EditChanged(c) BY <1>23 DEF EditChanged, RunKept, ChannelKept
<1>24. CASE CommitCandidate(c) BY <1>24 DEF CommitCandidate, Committing
<1>25. CASE CommitRemoval(c)
  <2>1. call[c].op = "remove" /\ pc[c] = "saved" BY <1>25 DEF CommitRemoval, Committing
  <2>2. ctl'.active = ctl.active /\ ctl'.running = ctl.running
    BY <1>25 DEF CommitRemoval, MarkedForRemoval
  <2>3. PICK m : ReturnOrSignal(c, m) BY <1>25 DEF CommitRemoval
  <2>4. mem'.channel = mem.channel /\ run' = run BY <1>25 DEF CommitRemoval, Committing
  <2>5. /\ pc'[Runner] = pc[Runner] /\ (call'[c].op = "start" => call[c].op = "start")
        /\ call'[c].op # "setChannel"
        /\ \A d \in Callers \ {c} :
             pc'[d] = pc[d] /\ call'[d].op = call[d].op /\ (opMu = d => opMu' = d)
    <3>1. CASE Return(c) BY <2>1, <3>1
    <3>2. CASE ~Return(c)
      <4>1. Goto(c, "signal") /\ call' = [call EXCEPT ![c].sig = "job"] /\ UNCHANGED opMu
        BY <2>3, <3>2 DEF ReturnOrSignal
      <4> QED BY <2>1, <4>1
    <3> QED BY <3>1, <3>2
  <2> QED BY ONLY <2>2, <2>4, <2>5 DEF CallerKeepsRun
<1>26. CASE CommitCancelAll(c) BY <1>26 DEF CommitCancelAll, Committing
<1>27. CASE CommitChannel(c) BY <1>27 DEF CommitChannel, Committing, RunKept, ChannelKept
<1> QED
  BY <1>2, <1>3, <1>4, <1>6, <1>7, <1>8, <1>9, <1>10, <1>11, <1>12, <1>13, <1>14, <1>15,
     <1>16, <1>17, <1>18, <1>19, <1>20, <1>21, <1>22, <1>23, <1>24, <1>25, <1>26, <1>27, <1>5
  DEF CallerBegins, CallerContinues, CancelJob

\* Start forgets the cancel functions of earlier runs and leaves the calls of the
\* others alone otherwise.
LEMMA StartMoves ==
  ASSUME TypeOK, NEW c \in Callers, Start(c)
  PROVE  \A d \in Callers \ {c} :
           call'[d].op = call[d].op /\ call'[d].state = call[d].state
           /\ call'[d].job = call[d].job
BY DEF TypeOK, Start, Forget, CallType

\* A run begins or fails to begin under opMu: no SetChannel is in progress.
LEMMA StartKeepsRun ==
  ASSUME TypeOK, RunnerAlone, RunKept, NEW c \in Callers,
         Start(c) \/ StartSaved(c) \/ StartFailed(c)
  PROVE  RunKept'
<1>1. c \in Procs /\ Runner \in Procs /\ c # Runner /\ NoCaller \notin Callers
      /\ \A d \in Callers : d \in Procs
  BY ConstantsAssumption DEF ConstantsAssumption, Procs
<1> USE <1>1 DEF TypeOK, Goto, Begin, Document, ControlType, CallType, NoCall, Return,
        RunnerAlone,
        RunKept, RunReserved, ChannelKept, RecordActive, PersistPoints, Transferring, Announced
<1>2. call \in [Callers -> CallType] OBVIOUS
<1>3. CASE Start(c)
  <2>1. \A d \in Callers : call[d].op \notin {"start", "setChannel"}
    BY <1>3 DEF Start
  <2>2. \A d \in Callers \ {c} : call'[d].op = call[d].op BY <1>3, StartMoves
  <2>3. call'[c].op = "start" BY <1>3 DEF Start, Forget
  <2>4. pc[Runner] = "idle" /\ pc'[Runner] = "idle" BY <1>3 DEF Start, MayStart
  <2>5. ctl'.running /\ run' = run BY <1>3 DEF Start
  <2>6. run.at # "final" BY <2>4
  <2>7. RunReserved' BY <2>4, <2>5, <2>6
  <2>8. ChannelKept' BY ONLY <2>1, <2>2, <2>3, <2>4 DEF ChannelKept
  <2>9. RecordActive' BY <2>4
  <2> QED BY <2>7, <2>8, <2>9
<1>4. CASE StartSaved(c) BY <1>4 DEF StartSaved
<1>5. CASE StartFailed(c) BY <1>5 DEF StartFailed
<1> QED BY <1>3, <1>4, <1>5

\* A step of the goroutine within the run leaves the channel and the calls alone.
RunnerStays ==
  /\ opMu' = opMu
  /\ \A c \in Callers : pc'[c] = pc[c] /\ call'[c].op = call[c].op
  /\ mem'.channel = mem.channel
  /\ ctl'.running = ctl.running
  /\ pc[Runner] \notin {"idle", "cleanup"}
  /\ pc[Runner] = "next" \/ run.at # "final"

\* Such a step keeps RunKept if the record that it reserves is the active one.
LEMMA FramedRunnerRun ==
  ASSUME TypeOK, RunKept, RunnerStays,
         run'.at # "final",
         \/ pc'[Runner] \in {"next", "cleanup"}
         \/ run'.chan = run.chan /\ pc[Runner] # "next"
         \/ run'.chan = mem.channel,
         RecordActive'
  PROVE  RunKept'
<1>1. pc[Runner] = "next" => run.at # "final"
  BY DEF RunKept, RunReserved, PersistPoints
<1>2. pc[Runner] # "next" => run.chan = mem.channel
  BY DEF RunKept, ChannelKept, RunnerStays
<1>3. ctl.running BY <1>1 DEF RunKept, RunReserved, RunnerStays
<1>4. RunReserved' BY <1>3 DEF RunReserved, RunnerStays, RunKept
<1>5. ChannelKept' BY <1>2 DEF RunnerStays, RunKept, ChannelKept
<1> QED BY <1>4, <1>5 DEF RunKept

\* Every step of the goroutine keeps RunKept.
LEMMA RunnerKeepsRun ==
  ASSUME TypeOK, RunnerAlone, RunKept, RunnerSteps
  PROVE  RunKept'
<1>1. Runner \in Procs /\ Runner \notin Callers /\ \A d \in Callers : d \in Procs
  BY ConstantsAssumption DEF ConstantsAssumption, Procs
<1>2. \A l : Goto(Runner, l) => /\ pc'[Runner] = l
                                /\ \A c \in Callers : pc'[c] = pc[c]
  BY RunnerFrames
<1>3. (\A c \in Callers : call'[c].op = call[c].op) /\ opMu' = opMu /\ pc[Runner] # "idle"
  BY RunnerKeepsRunDone
<1>4. run \in RunType /\ ctl \in ControlType /\ mem \in Document BY DEF TypeOK
<1>5. \A e : [run EXCEPT !.err = e].at = run.at /\ [run EXCEPT !.err = e].job = run.job
             /\ [run EXCEPT !.err = e].chan = run.chan
  BY <1>4 DEF RunType
<1> DEFINE Away == {"next", "cleanup", "ended", "fail", "finish", "dispatch", "attempt",
                    "open", "reserve", "selected"}
           Held == \/ pc[Runner] \in Transferring
                   \/ pc[Runner] = "retry"
                   \/ pc[Runner] \in PersistPoints
                      /\ run.at \in {"uploading", "sending", "retry"}
<1>6. ASSUME NEW l, Goto(Runner, l),
             \/ l \in Away
             \/ l \in PersistPoints /\ run'.at \notin {"uploading", "sending", "retry"}
             \/ Held /\ ctl'.active = ctl.active /\ run'.job = run.job
             \/ ctl'.active = run'.job
      PROVE  RecordActive'
  BY <1>6, <1>2 DEF RecordActive, Transferring, Announced, PersistPoints, RunKept
<1>7. ASSUME NEW l, Goto(Runner, l), mem'.channel = mem.channel,
             ctl'.running = ctl.running, pc[Runner] # "cleanup", run'.at # "final",
             pc[Runner] = "next" \/ run.at # "final",
             l \in {"next", "cleanup"} \/ (run'.chan = run.chan /\ pc[Runner] # "next")
               \/ run'.chan = mem.channel,
             \/ l \in Away
             \/ l \in PersistPoints /\ run'.at \notin {"uploading", "sending", "retry"}
             \/ Held /\ ctl'.active = ctl.active /\ run'.job = run.job
             \/ ctl'.active = run'.job
      PROVE  RunKept'
  <2>1. RunnerStays BY <1>3, <1>7, <1>2 DEF RunnerStays
  <2>2. RecordActive' BY <1>6, <1>7
  <2> QED BY <1>7, <1>2, <2>1, <2>2, FramedRunnerRun
<1>8. ASSUME NEW e, End(e), pc[Runner] \notin {"cleanup", "next"}, run.at # "final"
        PROVE  RunKept'
  <2>1. Goto(Runner, "ended") /\ UNCHANGED <<mem, ctl>> BY <1>8 DEF End, RunnerOnly
  <2>2. run'.at = run.at /\ run'.chan = run.chan BY <1>8, <1>5 DEF End
  <2> QED BY <1>8, <1>7, <2>1, <2>2
<1>9. ASSUME NEW l, RunnerOnly(l), run' = run, pc[Runner] \notin {"cleanup", "next"},
              run.at # "final",
              l \in Away \/ Held
       PROVE  RunKept'
  <2>1. Goto(Runner, l) /\ UNCHANGED <<mem, ctl>> BY <1>9 DEF RunnerOnly
  <2> QED BY <1>9, <1>7, <2>1
<1>10. CASE NextJob
  <2>1. CASE NothingToStart
    <3>1. Goto(Runner, "cleanup") /\ UNCHANGED <<mem, ctl, run>> /\ pc[Runner] = "next"
      BY <1>10, <2>1 DEF NextJob, RunnerOnly
    <3>2. run.at # "final" BY <3>1 DEF RunKept, RunReserved, PersistPoints
    <3> QED BY <3>1, <3>2, <1>7
  <2>2. CASE ~NothingToStart
    <3>1. run'.chan = mem.channel /\ run'.at = "none" /\ Goto(Runner, "selected")
          /\ UNCHANGED <<mem, ctl>> /\ pc[Runner] = "next"
      BY <1>10, <2>2 DEF NextJob, RunnerOnly, NoRun
    <3> QED BY <3>1, <1>7
  <2> QED BY <2>1, <2>2
<1>11. CASE JobContext
  <2>1. PICK l \in {"cleanup", "attempt"} : Goto(Runner, l)
        /\ UNCHANGED <<mem, run>> /\ pc[Runner] = "selected"
    BY <1>11 DEF JobContext, RunnerOnly
  <2>2. ctl'.running = ctl.running BY <1>11, <1>4 DEF JobContext, RunnerOnly, ControlType
  <2>3. run.at # "final" BY <2>1 DEF RunKept, RunReserved, PersistPoints
  <2> QED BY <2>1, <2>2, <2>3, <1>7
<1>12. pc[Runner] \notin PersistPoints => run.at # "final" BY DEF RunKept, RunReserved
<1>13. CASE BeginAttempt
  BY <1>13, <1>9, <1>8, <1>12 DEF BeginAttempt, PersistPoints
<1>14. CASE OpenVerifiedJob
  BY <1>14, <1>9, <1>8, <1>12 DEF OpenVerifiedJob, PersistPoints
<1>15. CASE Reserve
  <2>1. /\ Goto(Runner, "snap") /\ ctl'.running = ctl.running /\ ctl'.active = run.job
        /\ run'.job = run.job /\ run'.at = "uploading" /\ run'.chan = run.chan
        /\ mem'.channel = mem.channel /\ pc[Runner] = "reserve"
    BY <1>15, <1>4 DEF Reserve, RunnerPersist, SetJob, ControlType, RunType, Document
  <2> QED BY <2>1, <1>7, <1>12 DEF PersistPoints
<1>16. CASE ReserveRefused
  <2>1. PICK e : End(e) BY <1>16 DEF ReserveRefused
  <2> QED BY <1>16, <2>1, <1>8, <1>12 DEF ReserveRefused, PersistPoints
<1>17. CASE ReserveLost \/ PrepareLost
  BY <1>17, <1>8 DEF ReserveLost, PrepareLost, Persisted
<1>18. CASE Boundary
  BY <1>18, <1>9, <1>8 DEF Boundary, Persisted, PersistPoints
<1>19. CASE UploadParts \/ UploadRejected \/ TransportError \/ TransportCancelled
  BY <1>19, <1>9, <1>8, <1>12
  DEF UploadParts, UploadRejected, TransportError, TransportCancelled, Transferring, Announced,
      PersistPoints
<1>20. CASE PrepareSend
  <2>1. CASE End("failed") \/ (RunnerOnly("submit") /\ run' = run)
    BY <1>20, <2>1, <1>9, <1>8, <1>12 DEF PrepareSend, Transferring, Announced, PersistPoints
  <2>2. CASE RunnerPersist /\ SetJob(run.job, "sending") /\ run' = [run EXCEPT !.at = "sending"]
             /\ UNCHANGED ctl
    <3>1. /\ Goto(Runner, "snap") /\ pc[Runner] = "beforeSend"
          /\ run'.job = run.job /\ run'.at = "sending" /\ run'.chan = run.chan
          /\ mem'.channel = mem.channel
      BY <1>20, <2>2, <1>4 DEF PrepareSend, RunnerPersist, SetJob, RunType, Document
    <3> QED BY <2>2, <3>1, <1>7, <1>12 DEF PersistPoints, Transferring
  <2>3. CASE mem.st[run.job] = "uploading" BY <1>20, <2>2, <2>3 DEF PrepareSend
  <2>4. CASE mem.st[run.job] = "sending" BY <1>20, <2>1, <2>4 DEF PrepareSend
  <2>5. CASE mem.st[run.job] # "uploading" /\ mem.st[run.job] # "sending"
    <3>1. End("failed") /\ pc[Runner] = "beforeSend" BY <1>20, <2>5 DEF PrepareSend
    <3> QED BY <3>1, <1>8, <1>12 DEF PersistPoints
  <2> QED BY <2>3, <2>4, <2>5
<1>21. CASE SendPrepared \/ LastCheck \/ Submit \/ SendAnswered
  <2>1. CASE Submit
    <3>1. Goto(Runner, "inflight") /\ UNCHANGED <<mem, ctl, run>> /\ pc[Runner] = "slot"
      BY <2>1 DEF Submit
    <3> QED BY <3>1, <1>7, <1>12 DEF Transferring, Announced, PersistPoints
  <2> QED
    BY <1>21, <2>1, <1>9, <1>8, <1>12
    DEF SendPrepared, LastCheck, SendAnswered, Persisted, Transferring, Announced, PersistPoints
<1>22. CASE BeforeRetry
  <2>1. CASE \E e : End(e)
    BY <1>22, <2>1, <1>8, <1>12 DEF BeforeRetry, PersistPoints
  <2>2. CASE ~\E e : End(e)
    <3>1. /\ SetJob(run.job, "uploading") /\ ctl' = [ctl EXCEPT !.retryWait = TRUE]
          /\ run' = [run EXCEPT !.at = "retry"] /\ Goto(Runner, "snap") /\ pc[Runner] = "retry"
      BY <1>22, <2>2 DEF BeforeRetry, RunnerPersist
    <3>2. /\ run'.job = run.job /\ run'.at = "retry" /\ run'.chan = run.chan
          /\ mem'.channel = mem.channel /\ ctl'.running = ctl.running
          /\ ctl'.active = ctl.active
      BY <3>1, <1>4 DEF SetJob, RunType, Document, ControlType
    <3> QED BY <3>1, <3>2, <1>7, <1>12 DEF PersistPoints
  <2> QED BY <2>1, <2>2
<1>23. CASE RetryLost \/ RetryWaitCancelled \/ RetryWaitOver
  <2>1. run.at = "retry" /\ pc[Runner] \in PersistPoints
    BY <1>23 DEF RetryLost, RetryWaitCancelled, RetryWaitOver, Persisted, PersistPoints
  <2>2. ASSUME NEW l \in Away, NEW q, RetryWaitEnds(l, q), q.chan = run.chan, q.at # "final"
        PROVE  RunKept'
    <3>1. Goto(Runner, l) /\ run' = q /\ mem' = mem /\ ctl'.running = ctl.running
      BY <2>2, <1>4 DEF RetryWaitEnds, ControlType
    <3> QED BY <2>1, <2>2, <3>1, <1>7 DEF PersistPoints
  <2>3. [run EXCEPT !.retry = @ + 1, !.at = "none"].chan = run.chan
        /\ [run EXCEPT !.retry = @ + 1, !.at = "none"].at = "none"
    BY <1>4 DEF RunType
  <2>4. CASE RetryLost BY <2>1, <2>2, <2>4, <1>5 DEF RetryLost
  <2>5. CASE RetryWaitCancelled BY <2>1, <2>2, <2>5, <1>5 DEF RetryWaitCancelled
  <2>6. CASE RetryWaitOver BY <2>1, <2>2, <2>3, <2>6, <1>5 DEF RetryWaitOver
  <2> QED BY <1>23, <2>4, <2>5, <2>6
<1>24. CASE AttemptEnded
  <2>1. /\ run'.at = run.at /\ run'.chan = run.chan /\ ctl'.running = ctl.running /\ mem' = mem
        /\ Goto(Runner, "dispatch") /\ pc[Runner] = "ended"
    BY <1>24, <1>4 DEF AttemptEnded, RunType, ControlType
  <2> QED BY <2>1, <1>7, <1>12 DEF PersistPoints
<1>25. \A j : ActiveCleared(j).running = ctl.running /\ PendingCleared(j).running = ctl.running
  BY <1>4 DEF ActiveCleared, PendingCleared, ControlType
<1>26. ASSUME run' = NoRun, mem' = mem, ctl' = ActiveCleared(run.job), NEW l, Goto(Runner, l),
             l \in {"next", "cleanup"}, pc[Runner] # "cleanup", run.at # "final"
      PROVE  RunKept'
  <2>1. run'.at # "final" BY <1>26 DEF NoRun
  <2>2. ctl'.running = ctl.running BY <1>26, <1>25
  <2> QED BY <1>26, <2>1, <2>2, <1>7
<1>27. CASE NotStarted
  BY <1>27, <1>26, <1>12 DEF NotStarted, PersistPoints
<1>28. ASSUME NEW k \in {"unknown", "interrupt", "lost", "fail", "sent"}, NEW st,
              Conclude(k, st),
             ctl'.running = ctl.running, pc[Runner] \in {"dispatch", "fail"}
      PROVE  RunKept'
  <2>1. /\ run'.at = k /\ run'.chan = run.chan /\ mem'.channel = mem.channel
        /\ Goto(Runner, "snap")
    BY <1>28, <1>4 DEF Conclude, RunType, SetJob, Document
  <2> QED BY <1>28, <2>1, <1>7, <1>12 DEF PersistPoints
<1>29. CASE OutcomeUnknown \/ Interrupt \/ FailJob
  BY <1>29, <1>28, <1>25 DEF OutcomeUnknown, Interrupt, FailJob
<1>30. CASE PersistenceLost
  <2>1. ctl'.running = ctl.running BY <1>30, <1>25 DEF PersistenceLost
  <2>2. Goto(Runner, "fail") /\ UNCHANGED <<mem, run>> /\ pc[Runner] = "dispatch"
    BY <1>30 DEF PersistenceLost
  <2> QED BY <2>1, <2>2, <1>7, <1>12 DEF PersistPoints
<1>31. CASE Sent
  <2>1. CASE Present(run.job) BY <1>31, <2>1, <1>28 DEF Sent
  <2>2. CASE ~Present(run.job)
    <3>1. run'.at # "final" /\ Goto(Runner, "next") /\ UNCHANGED <<mem, ctl>>
          /\ pc[Runner] = "dispatch"
      BY <1>31, <2>2 DEF Sent, NoRun, RunnerOnly
    <3> QED BY <3>1, <1>7, <1>12 DEF PersistPoints
  <2> QED BY <2>1, <2>2
<1>32. CASE FinishUnlessPending
  <2>1. pc[Runner] = "saved" /\ run.at # "final" BY <1>32 DEF FinishUnlessPending, Terminal
  <2>2. CASE ctl.active = run.job /\ run.job \in ctl.pending
    <3>1. run'.at = "remove" /\ run'.chan = run.chan /\ Goto(Runner, "snap")
          /\ UNCHANGED <<mem, ctl>>
      BY <1>32, <1>4, <2>2 DEF FinishUnlessPending, RunType
    <3> QED BY <2>1, <3>1, <1>7 DEF PersistPoints
  <2>3. CASE ~(ctl.active = run.job /\ run.job \in ctl.pending)
    BY <1>32, <2>1, <2>3, <1>26 DEF FinishUnlessPending, AfterJob
  <2> QED BY <2>2, <2>3
<1>33. CASE TerminalLost
  <2>1. /\ ctl'.running = ctl.running /\ run'.at = run.at /\ run'.chan = run.chan /\ mem' = mem
        /\ run.at # "final" /\ pc[Runner] = "failed"
    BY <1>33, <1>25, <1>4 DEF TerminalLost, RunType, Terminal
  <2>2. PICK l \in {"cleanup", "finish"} : Goto(Runner, l) BY <1>33 DEF TerminalLost
  <2> QED BY <2>1, <2>2, <1>7
<1>34. CASE StopAfterSave
  BY <1>34, <1>9 DEF StopAfterSave
<1>35. CASE PrepareRemoval
  <2>1. Goto(Runner, "lock") /\ UNCHANGED <<mem, ctl, run>> /\ pc[Runner] = "snap"
        /\ run.at = "remove"
    BY <1>35 DEF PrepareRemoval, Prepare
  <2> QED BY <2>1, <1>7 DEF PersistPoints
<1>36. ASSUME NEW c1, c1.running = ctl.running, NEW e, RemovalEnds(c1, e),
              mem'.channel = mem.channel,
             run.at = "remove", pc[Runner] \in PersistPoints
      PROVE  RunKept'
  <2>1. run'.at = "remove" /\ run'.chan = run.chan BY <1>5, <1>36 DEF RemovalEnds
  <2> QED BY <1>36, <2>1, <1>7 DEF RemovalEnds, PersistPoints
<1>37. CASE RemovedByOther BY <1>37, <1>25, <1>36 DEF RemovedByOther, PersistPoints
<1>38. CASE RemovalFailed BY <1>38, <1>25, <1>36 DEF RemovalFailed, Persisted, PersistPoints
<1>39. CASE RemovalChanged
  <2>1. Goto(Runner, "snap") /\ UNCHANGED <<mem, ctl, run>> /\ pc[Runner] = "saved"
        /\ run.at = "remove"
    BY <1>39 DEF RemovalChanged, Persisted
  <2> QED BY <2>1, <1>7 DEF PersistPoints
<1>40. CASE CommitPending
  <2>1. mem'.channel = mem.channel BY <1>40, <1>4 DEF CommitPending, Document
  <2> QED BY <1>40, <2>1, <1>25, <1>36 DEF CommitPending, Persisted, PersistPoints
<1>41. CASE FinishActiveJob
  BY <1>41, <1>26, <1>12 DEF FinishActiveJob, AfterJob, PersistPoints
<1>42. \A c \in Callers : call'[c].op # "start" BY <1>3 DEF RunnerAlone
<1>43. CASE Cleanup
  <2>1. pc'[Runner] = "snap" /\ run'.at = "final" /\ ctl'.running = FALSE
    BY <1>43, <1>2 DEF Cleanup, NoRun, NoControl
  <2>2. RunReserved' BY <2>1, <1>42 DEF RunReserved, PersistPoints
  <2>3. ChannelKept' BY <2>1, <1>3, <1>2 DEF RunKept, ChannelKept
  <2>4. RecordActive' BY <2>1 DEF RecordActive, Transferring, Announced, PersistPoints
  <2> QED BY <2>2, <2>3, <2>4 DEF RunKept
<1>44. CASE CloseRunDone
  <2>1. /\ pc'[Runner] = "idle" /\ run'.at = "none" /\ ctl'.running = ctl.running
        /\ \A c \in Callers : pc'[c] = pc[c]
    BY <1>44, <1>2, <1>4 DEF CloseRunDone, NoRun, ControlType
  <2>2. RunReserved' BY <2>1, <1>42 DEF RunReserved
  <2>3. ChannelKept' BY <2>1, <1>3 DEF RunKept, ChannelKept
  <2>4. RecordActive' BY <2>1 DEF RecordActive, Transferring, Announced, PersistPoints
  <2> QED BY <2>2, <2>3, <2>4 DEF RunKept
<1> QED
  BY <1>10, <1>11, <1>13, <1>14, <1>15, <1>16, <1>17, <1>18, <1>19, <1>20, <1>21, <1>22, <1>23,
     <1>24, <1>27, <1>29, <1>30, <1>31, <1>32, <1>33, <1>34, <1>35, <1>37, <1>38, <1>39,
     <1>40, <1>41, <1>43, <1>44
  DEF RunnerSteps

\* RunKept is inductive relative to TypeOK and RunnerAlone.
LEMMA RunNext ==
  ASSUME TypeOK, RunnerAlone, RunKept, [Next]_vars
  PROVE  RunKept'
<1> USE DEF RunKept, RunReserved, ChannelKept, RecordActive
<1>1. ASSUME NEW c \in Callers, CallerBegins(c) \/ CallerContinues(c) PROVE RunKept'
  BY ONLY <1>1, TypeOK, RunnerAlone, RunKept, CallersKeepRun, FramedRun, StartKeepsRun
<1>2. ASSUME RunnerSteps PROVE RunKept'
  BY ONLY <1>2, TypeOK, RunnerAlone, RunKept, RunnerKeepsRun
<1>3. ASSUME NEW p \in Procs, Persisting(p) PROVE RunKept'
  <2>1. UNCHANGED <<run, call, opMu, ctl, mem>>
    BY <1>3 DEF Persisting, PersistSnapshot, Prepare, LockAndCheck, SaveSucceeds, SaveFails,
                Recheck
  <2>2. \A q \in Procs \ {p} : pc'[q] = pc[q]
    BY <1>3 DEF Persisting, PersistSnapshot, Prepare, LockAndCheck, SaveSucceeds, SaveFails,
                Recheck, Goto, TypeOK
  <2>3. pc[p] \in PersistPoints /\ pc'[p] \in PersistPoints
    BY <1>3 DEF Persisting, PersistSnapshot, Prepare, LockAndCheck, SaveSucceeds, SaveFails,
                Recheck, Goto, TypeOK, PersistPoints
  <2>4. pc'[p] \in {"lock", "save", "check", "saved"} =>
          pc[p] \in {"lock", "save", "check", "saved"} \/ (pc[p] = "snap" /\ Plain(p))
    BY <1>3 DEF Persisting, PersistSnapshot, Prepare, LockAndCheck, SaveSucceeds, SaveFails,
                Recheck, Goto, TypeOK
  <2>5. Runner \in Procs /\ \A c \in Callers : c \in Procs /\ c # Runner
    BY ConstantsAssumption DEF ConstantsAssumption, Procs
  <2>6. RunReserved' BY <2>1, <2>2, <2>3, <2>5 DEF PersistPoints
  <2>7. \A c \in Callers : Plain(c) => call[c].op # "setChannel"
    BY <2>5 DEF Plain, Edits
  <2>8. ChannelKept' BY <2>1, <2>2, <2>3, <2>4, <2>5, <2>7 DEF PersistPoints
  <2>9. RecordActive' BY <2>1, <2>2, <2>3, <2>5 DEF PersistPoints, Transferring, Announced
  <2> QED BY <2>6, <2>8, <2>9
<1>4. ASSUME Shutdown PROVE RunKept'
  BY <1>4 DEF Shutdown, TypeOK, ControlType
<1>5. ASSUME Crash PROVE RunKept'
  BY <1>5 DEF Crash, NoCall, NoRun, NoControl, Procs, Transferring, Announced, PersistPoints
<1>6. ASSUME UNCHANGED vars PROVE RunKept'
  BY <1>6 DEF vars
<1> QED BY <1>1, <1>2, <1>3, <1>4, <1>5, <1>6 DEF Next, Rest

\* Nothing runs when the process starts.
LEMMA InitRun == Init => RunKept
BY DEF Init, RunKept, RunReserved, ChannelKept, RecordActive, NoCall, NoRun, Procs,
       Transferring, Announced, PersistPoints

\* The run, the channel and the active record stay together.
LEMMA RunKeptAlways == Spec => []RunKept
<1>1. Init => RunKept BY InitRun
<1>2. (TypeOK /\ RetriesLeft) /\ RunnerAlone /\ RunKept /\ [Next]_vars => RunKept'
  BY RunNext
<1> QED BY <1>1, <1>2, TypeCorrect, StartsAlone, PTL DEF Spec

\* A file is only sent to the channel that is bound while it is sent: SetChannel is
\* refused while a run exists, and a run that starts captures the new channel.
THEOREM SendsWhereBound == Spec => []SendsToBoundChannel
<1>1. RunKept => SendsToBoundChannel
  BY DEF RunKept, RunReserved, ChannelKept, SendsToBoundChannel, Transferring, Announced,
     PersistPoints
<1> QED BY <1>1, RunKeptAlways, PTL

\* While a request is at Telegram the record keeps its place as the active one and
\* its state, and is "sending" on disk before the message leaves: no edit, command
\* or failed save takes it away from the goroutine.
THEOREM ActiveStays == Spec => []ActiveRecordKept
<1>1. RunKept /\ DeliveryInv => ActiveRecordKept
  BY DEF RunKept, RunReserved, RecordActive, ActiveRecordKept, Transferring, Announced,
     PersistPoints, 
         DeliveryInv, RecordFollows, NoOlderSave, SendingSaved, At
<1> QED BY <1>1, RunKeptAlways, DeliverySafe, PTL

-----------------------------------------------------------------------------
(* Records in transfer and records decided.                                *)

\* The store does not fail, or the callers do not use Retry.  The two theorems about
\* decisions need it: when the save of a Retry fails after the goroutine has selected
\* the record, persistJobMutation puts it back to "confirming" although the run goes
\* on with it.
RetrySaved == SaveMayFail => "retry" \notin Ops

\* The paths of a failed save are taken only when a save can fail.
NothingFailed == ~SaveMayFail => \A p \in Procs : pc[p] # "failed"

\* What an edit may make of a record.
EditTargets == {"cancelled", "absent", "queued", "oversize"}

\* A candidate that is current differs from the queue by such targets only.
EditKnown(c) ==
  /\ call[c].op = "add" => call[c].state \in EditTargets
  /\ fresh[c] => \A j \in Jobs : cand[c].st[j] \in {mem.st[j]} \cup EditTargets
EditsKnown == \A c \in Callers : EditKnown(c)

\* The candidate of removeAfterTerminalPersist removes the goroutine's own record.
RemovalIsOwn ==
  fresh[Runner] /\ run.at = "remove" =>
     \A j \in Jobs : cand[Runner].st[j] = IF j = run.job THEN "absent" ELSE mem.st[j]

\* The states in which a record may be the goroutine's.
Undecided ==
  {"absent", "queued", "interrupted", "oversize", "cancelled", "uploading", "sending"}

\* Where the goroutine is at work on its record.
RecordPoints ==
  {"selected", "attempt", "open", "reserve", "upload", "beforeSend", "submit",
   "slot", "inflight", "retry", "ended", "dispatch", "fail"}
WithRecord ==
  \/ pc[Runner] \in RecordPoints
  \/ pc[Runner] \in PersistPoints /\ run.at \in {"uploading", "sending", "retry"}

\* While it is, nobody gives the record the state of a decision.
RecordUndecided == WithRecord => run.job \in Jobs /\ mem.st[run.job] \in Undecided

\* It saves the end of the record, or removes it.
Closing == pc[Runner] \in PersistPoints /\ run.at \in Terminal \cup {"remove"}

\* By then the record does not wait for the user: an unknown outcome has its own
\* path.
NotReopened ==
  Closing =>
    run.job \in Jobs /\ mem.st[run.job] # "confirming"
Moving == {"uploading", "sending"}

\* "uploading" and "sending" are the states of the record at work, after it was
\* reserved once.
MovingHeld ==
  \A j \in Jobs : mem.st[j] \in Moving =>
    /\ j = run.job
    /\ WithRecord /\ pc[Runner] # "selected"
    /\ pc[Runner] \in {"attempt", "open", "reserve"} => run.retry # 0
    /\ pc[Runner] \in {"ended", "dispatch"} => run.err \notin {"cancelled", "notRunnable"}

\* What a failed save of a mutation would put back does no harm to the record at work.
RollsBack(c) ==
  own[c] =>
    /\ mem.st[call[c].job] # "queued"
    /\ call[c].state \notin Moving
    /\ call[c].job = run.job /\ WithRecord => call[c].state \in Undecided
    /\ call[c].job = run.job /\ Closing => call[c].state # "confirming"
RollBacksKnown == SaveMayFail => \A c \in Callers : RollsBack(c)

\* Inductive relative to TypeOK, RunnerAlone and DeliveryInv.
Settling ==
  /\ NothingFailed
  /\ RollBacksKnown
  /\ EditsKnown
  /\ RemovalIsOwn
  /\ RecordUndecided
  /\ NotReopened
  /\ MovingHeld

\* What a step of the caller c may do: it leaves the goroutine and the others alone,
\* and moves a record by an edit, a decision or a roll-back, never one that is being
\* transferred.
CallerDecides(c) ==
  /\ run' = run
  /\ pc'[Runner] = pc[Runner]
  /\ cand'[Runner] = cand[Runner]
  /\ pc'[c] # "failed"
  /\ \A d \in Callers \ {c} :
       /\ pc'[d] = pc[d] /\ cand'[d] = cand[d]
       /\ call'[d].op = call[d].op /\ call'[d].state = call[d].state
       /\ call'[d].job = call[d].job
       /\ own'[d] => own[d] /\ mem'.st = mem.st
  /\ \A p \in Procs \ {c} : fresh'[p] => fresh[p] /\ mem'.st = mem.st
  /\ EditKnown(c)'
  /\ SaveMayFail => RollsBack(c)'
  /\ \A j \in Jobs : mem'.st[j] # mem.st[j] =>
       /\ mem.st[j] \notin Moving
       /\ \/ mem'.st[j] \in EditTargets
          \/ mem.st[j] \in Skippable /\ mem'.st[j] \in {"skipped", "sent"}
          \/ /\ SaveMayFail /\ own[c] /\ j = call[c].job
             /\ mem.st[j] # "confirming" /\ mem'.st[j] = call[c].state
       /\ mem.st[j] = "confirming" =>
            call'[c].op \in {"retry", "skip", "markSent"} /\ call'[c].job = j

\* Such a step keeps Settling.
LEMMA DecidedCaller ==
  ASSUME TypeOK, Settling, NEW c \in Callers, CallerDecides(c)
  PROVE  Settling'
<1> USE DEF Settling, CallerDecides
<1>1. c \in Procs /\ Runner \in Procs /\ c # Runner /\ Procs = Callers \cup {Runner}
  BY ConstantsAssumption DEF ConstantsAssumption, Procs
<1>2. NothingFailed' BY <1>1 DEF NothingFailed
<1>3. EditsKnown'
  <2>1. ASSUME NEW d \in Callers \ {c} PROVE EditKnown(d)'
    BY <1>1 DEF EditsKnown, EditKnown
  <2> QED BY <2>1 DEF EditsKnown
<1>4. RemovalIsOwn' BY <1>1 DEF RemovalIsOwn
<1>5. (WithRecord' <=> WithRecord) /\ (Closing' <=> Closing) BY DEF WithRecord, Closing
<1>6. SaveMayFail => RollsBack(c) BY DEF RollBacksKnown
<1>7. RecordUndecided'
  BY <1>5, <1>6 DEF RecordUndecided, Undecided, EditTargets, Skippable, RollsBack
<1>8. NotReopened' BY <1>5, <1>6 DEF NotReopened, EditTargets, RollsBack
<1>9. MovingHeld' BY <1>5, <1>6 DEF MovingHeld, EditTargets, Moving, RollsBack
<1>10. RollBacksKnown'
  <2>1. ASSUME SaveMayFail, NEW d \in Callers \ {c} PROVE RollsBack(d)'
    BY <1>5, <2>1 DEF RollBacksKnown, RollsBack
  <2> QED BY <2>1 DEF RollBacksKnown
<1> QED BY <1>2, <1>3, <1>4, <1>7, <1>8, <1>9, <1>10

\* Where saves fail, a caller only remembers states that may be put back.
LEMMA CallerRollsBack ==
  ASSUME RetrySaved, TypeOK, Settling, DeliveryInv, NEW c \in Callers,
         CallerBegins(c) \/ CallerContinues(c), ~StartSaved(c), SaveMayFail
  PROVE  RollsBack(c)'
<1>1. c \in Procs /\ Runner \in Procs /\ c # Runner /\ NoCaller \notin Callers
  BY ConstantsAssumption DEF ConstantsAssumption, Procs
<1>2. ASSUME NEW op, NEW j \in Jobs, NEW s, Mutate(c, op, j, s),
             s \in {"cancelled", "skipped", "sent"},
             mem.st[j] \notin Moving
      PROVE  RollsBack(c)'
  <2>1. /\ call'[c].state = mem.st[j] /\ call'[c].job = j /\ mem'.st[j] = s
        /\ run' = run /\ pc'[Runner] = pc[Runner]
    BY <1>1, <1>2 DEF Mutate, SetJob, Goto, TypeOK, NoCall, Document
  <2>2. WithRecord /\ j = run.job => mem.st[j] \in Undecided BY DEF Settling, RecordUndecided
  <2>3. Closing /\ j = run.job => mem.st[j] # "confirming" BY DEF Settling, NotReopened
  <2> QED BY <1>2, <2>1, <2>2, <2>3 DEF RollsBack, WithRecord, Closing
<1>3. ASSUME ~own'[c] PROVE RollsBack(c)' BY <1>3 DEF RollsBack
<1>4. own[c] => /\ call[c].job \in Jobs /\ Present(call[c].job)
                /\ pc[c] \in PersistPoints /\ call[c].op \in Mutations
  BY DEF DeliveryInv, OwnIsCurrent, ChangeIsOwn, Present, Jobs, NoJob
<1>5. \A q : Touch(q) => (own'[c] => c = q) BY TouchFrames
<1>6. CASE CancelJob(c) \/ Skip(c) \/ MarkSent(c)
  <2>1. CASE \E j \in Jobs : CancelActive(c, j)
    BY <1>4, <1>3, <2>1 DEF CancelActive, Begin, revs, PersistPoints
  <2>2. CASE Skip(c) BY <1>2, <2>2 DEF Skip, Skippable, Moving
  <2>3. CASE MarkSent(c) BY <1>2, <2>3 DEF MarkSent, Moving
  <2>4. CASE \E j \in Jobs : CancelWaiting(c, j)
    BY <1>2, <2>4 DEF CancelWaiting, Cancellable, Moving
  <2> QED BY <1>6, <2>1, <2>2, <2>3, <2>4 DEF CancelJob
<1>7. CASE Retry(c) BY <1>7 DEF Retry, Mutate, Begin, RetrySaved
<1> USE <1>1, <1>4, <1>3, <1>5 DEF Begin, revs, PersistPoints, Mutations, Edits
<1>8. CASE Pause(c) \/ Resume(c) BY <1>8 DEF Pause, Resume, ChangePause
<1>9. CASE CancelAll(c) \/ Start(c) BY <1>9 DEF CancelAll, Start
<1>10. CASE RemoveJobs(c) \/ RemoveCompleted(c) \/ ResetJobs(c) \/ ApplyUploadLimit(c)
        \/ AddJobs(c) \/ SetChannel(c)
  BY <1>10
  DEF RemoveJobs, RemoveCompleted, ResetJobs, ApplyUploadLimit, AddJobs, SetChannel, BeginEdit
<1>11. CASE MutationFailed(c) BY <1>11 DEF MutationFailed
<1>12. CASE CallSaved(c) BY <1>12 DEF CallSaved, TypeOK
<1>13. CASE Signal(c) \/ PauseFailed(c) BY <1>13 DEF Signal, PauseFailed
<1>14. CASE PrepareEdit(c) \/ EditNothing(c) \/ EditFailed(c) \/ EditChanged(c)
  BY <1>14 DEF PrepareEdit, Prepare, EditNothing, EditFailed, EditChanged
<1>15. CASE CommitCandidate(c) \/ CommitRemoval(c) \/ CommitCancelAll(c) \/ CommitChannel(c)
  BY <1>15 DEF CommitCandidate, CommitRemoval, CommitCancelAll, CommitChannel, Committing
<1>16. CASE StartFailed(c) BY <1>16 DEF StartFailed
<1> QED
  BY <1>6, <1>7, <1>8, <1>9, <1>10, <1>11, <1>12, <1>13, <1>14, <1>15, <1>16
  DEF CallerBegins, CallerContinues

\* Every step of a caller is such a step (StartSaved moves the goroutine and is
\* treated by itself).
LEMMA CallersDecide ==
  ASSUME RetrySaved, TypeOK, Settling, DeliveryInv, NEW c \in Callers,
         CallerBegins(c) \/ CallerContinues(c), ~StartSaved(c)
  PROVE  CallerDecides(c)
<1>1. c \in Procs /\ Runner \in Procs /\ c # Runner /\ NoCaller \notin Callers
      /\ \A d \in Callers : d \in Procs
  BY ConstantsAssumption DEF ConstantsAssumption, Procs
<1>2. pc[c] = "idle" => ~fresh[c] BY NothingHeld
<1>3. EditKnown(c) /\ (~SaveMayFail => pc[c] # "failed")
  BY <1>1 DEF Settling, EditsKnown, NothingFailed
<1>4. SaveMayFail => RollsBack(c)' BY CallerRollsBack
<1>5. own[c] => /\ call[c].job \in Jobs /\ Present(call[c].job)
                /\ mem.st[call[c].job] \in {"cancelled", "queued", "skipped", "sent"}
                /\ pc[c] \in PersistPoints /\ call[c].op \in Mutations
  BY DEF DeliveryInv, OwnIsCurrent, ChangeIsOwn, Present, Jobs, NoJob
<1>6. call \in [Callers -> CallType] /\ mem \in Document
      /\ \A p \in Procs : cand[p] \in Document
  BY DEF TypeOK
<1>7. ASSUME NEW ops, Committing(c, ops)
      PROVE  \A j \in Jobs : cand[c].st[j] # mem.st[j] =>
               /\ mem.st[j] \notin {"uploading", "sending", "confirming"}
               /\ cand[c].st[j] \in EditTargets
  <2>1. fresh[c] BY <1>7 DEF Committing
  <2>2. \A j \in Jobs : MayPrepare(c, j, mem.st[j], cand[c].st[j])
    BY <1>1, <2>1 DEF DeliveryInv, FreshIsCurrent, EditIsCurrent
  <2>3. \A j \in Jobs : cand[c].st[j] # mem.st[j] => cand[c].st[j] \in EditTargets
    BY <1>3, <2>1 DEF EditKnown
  <2> QED
    BY <1>1, <2>2, <2>3
    DEF MayPrepare, Cancellable, Removable, Recoverable, LimitEditable
<1>8. Start(c) => \A d \in Callers \ {c} :
        call'[d].op = call[d].op /\ call'[d].state = call[d].state /\ call'[d].job = call[d].job
  BY StartMoves
<1>9. ASSUME NEW m, ReturnOrSignal(c, m), call[c].op = "remove"
      PROVE  /\ \A p \in Procs \ {c} : pc'[p] = pc[p]
             /\ pc'[c] # "failed"
             /\ \A d \in Callers \ {c} : call'[d] = call[d]
             /\ call'[c].op # "add"
  BY <1>9, ReturnOrSignalFrames DEF NoCall
<1>10. ASSUME NEW op \in Mutations, NEW j \in Jobs,
             NEW s, s \in {"cancelled", "queued", "skipped", "sent"},
             Mutate(c, op, j, s), mem.st[j] \notin Moving,
             s \in EditTargets \/ mem.st[j] \in Skippable,
             mem.st[j] = "confirming" => op \in {"retry", "skip", "markSent"}
      PROVE  CallerDecides(c)
  <2>1. run' = run /\ cand' = cand /\ (\A d \in Callers \ {c} : call'[d] = call[d])
    BY <1>10, <1>6 DEF Mutate
  <2>2. call'[c].op = op /\ call'[c].job = j BY <1>10, <1>6 DEF Mutate, NoCall
  <2>3. pc'[c] = "snap" /\ \A p \in Procs \ {c} : pc'[p] = pc[p]
    BY <1>1, <1>10 DEF Mutate, Goto, TypeOK
  <2>4. mem'.st[j] = s /\ \A k \in Jobs \ {j} : mem'.st[k] = mem.st[k]
    BY <1>6, <1>10 DEF Mutate, SetJob, Document
  <2>5. (\A p \in Procs : ~fresh'[p]) /\ \A d \in Callers \ {c} : ~own'[d]
    BY <1>10, TouchFrames DEF Mutate
  <2> QED
    BY <1>1, <1>10, <1>4, <2>1, <2>2, <2>3, <2>4, <2>5 DEF CallerDecides, EditKnown, Mutations,
       EditTargets
<1> USE <1>1, <1>4 DEF TypeOK, CallerDecides, Goto, Begin, CallType, NoCall, Return, EditKnown,
    EditTargets, Moving, Skippable, revs, Touch, Document
<1>11. CASE Pause(c) BY <1>11 DEF Pause, ChangePause, MaybeExclusive
<1>12. CASE Resume(c) BY <1>12 DEF Resume, ChangePause, MaybeExclusive
<1>13. ASSUME NEW j \in Jobs, CancelActive(c, j) PROVE CallerDecides(c)
  BY <1>13, <1>2 DEF CancelActive
<1>14. ASSUME NEW j \in Jobs, CancelWaiting(c, j) PROVE CallerDecides(c)
  BY ONLY <1>10, <1>14 DEF CancelWaiting, Cancellable, Mutations, EditTargets, Moving
<1>15. CASE CancelAll(c) BY <1>15, <1>2 DEF CancelAll
<1>16. CASE Retry(c) BY ONLY <1>10, <1>16 DEF Retry, Retryable, Mutations, EditTargets, Moving
<1>17. CASE Skip(c) BY ONLY <1>10, <1>17 DEF Skip, Skippable, Mutations, Moving
<1>18. CASE MarkSent(c) BY ONLY <1>10, <1>18 DEF MarkSent, Skippable, Mutations, Moving
<1>19. CASE RemoveJobs(c) BY <1>19, <1>2 DEF RemoveJobs, BeginEdit
<1>20. CASE RemoveCompleted(c) BY <1>20, <1>2 DEF RemoveCompleted, BeginEdit
<1>21. CASE ResetJobs(c) BY <1>21, <1>2 DEF ResetJobs, BeginEdit
<1>22. CASE ApplyUploadLimit(c) BY <1>22, <1>2 DEF ApplyUploadLimit, BeginEdit
<1>23. CASE AddJobs(c) BY <1>23, <1>2 DEF AddJobs, BeginEdit
<1>24. CASE SetChannel(c) BY <1>24, <1>2 DEF SetChannel, BeginEdit
<1>25. CASE Start(c)
  <2>1. mem'.st = mem.st /\ run' = run /\ cand' = cand BY <1>25 DEF Start
  <2>2. \A p \in Procs : fresh'[p] => fresh[p] BY <1>25 DEF Start
  <2>3. \A p \in Procs \ {c} : pc'[p] = pc[p] BY <1>25 DEF Start
  <2>4. pc'[c] = "snap" /\ pc[c] = "idle" BY <1>25 DEF Start
  <2>5. call'[c].op = "start" BY <1>25 DEF Start, Forget
  <2>6. pc'[c] = "snap" /\ call'[c].op = "start" /\ ~fresh[c] BY <2>4, <2>5, <1>2
  <2>7. \A d \in Callers : own'[d] => own[d] BY <1>25 DEF Start
  <2> QED BY ONLY <1>1, <1>25, <1>8, <1>4, <2>1, <2>2, <2>3, <2>6, <2>7 DEF CallerDecides,
      EditKnown
<1>26. CASE CallSaved(c) BY <1>26, <1>3 DEF CallSaved, Mutations
<1>27. CASE Signal(c) BY <1>27, <1>3 DEF Signal
<1>28. CASE PrepareEdit(c)
  BY <1>28, <1>3, EditsMayPrepare DEF PrepareEdit, Prepare, Candidate, Edited
<1>29. CASE EditNothing(c) BY <1>29, <1>3 DEF EditNothing, ReturnOrSignal, MarkedForRemoval
<1>30. CASE EditChanged(c) BY <1>30, <1>3 DEF EditChanged
<1>31. CASE CommitCandidate(c) BY <1>31, <1>3, <1>7 DEF CommitCandidate, Committing
<1>32. CASE CommitRemoval(c)
  <2>1. \A j \in Jobs : mem'.st[j] # mem.st[j] =>
               /\ mem.st[j] \notin {"uploading", "sending", "confirming"}
               /\ mem'.st[j] \in EditTargets
    BY <1>32, <1>7 DEF CommitRemoval
  <2>2. /\ call[c].op = "remove" /\ run' = run /\ cand' = [cand EXCEPT ![c] = EmptyDocument]
        /\ (\A p \in Procs : ~fresh'[p]) /\ \A d \in Callers : ~own'[d]
    BY <1>32 DEF CommitRemoval, Committing
  <2>3. PICK m : ReturnOrSignal(c, m) BY <1>32 DEF CommitRemoval
  <2>4. /\ \A p \in Procs \ {c} : pc'[p] = pc[p]
        /\ pc'[c] # "failed"
        /\ \A d \in Callers \ {c} : call'[d] = call[d]
        /\ call'[c].op # "add"
    BY ONLY <1>9, <2>2, <2>3
  <2> QED BY ONLY <1>1, <1>4, <2>1, <2>2, <2>4, <1>6 DEF CallerDecides, EditKnown, Moving,
      TypeOK
<1>33. CASE CommitCancelAll(c)
  <2>1. \A j \in Jobs : mem'.st[j] # mem.st[j] =>
               /\ mem.st[j] \notin {"uploading", "sending", "confirming"}
               /\ mem'.st[j] \in EditTargets
    BY <1>33, <1>7 DEF CommitCancelAll
  <2>2. /\ call[c].op = "cancelAll" /\ run' = run /\ cand' = [cand EXCEPT ![c] = EmptyDocument]
        /\ (\A p \in Procs : ~fresh'[p]) /\ \A d \in Callers : ~own'[d]
    BY <1>33 DEF CommitCancelAll, Committing
  <2>3. /\ \A p \in Procs \ {c} : pc'[p] = pc[p]
        /\ pc'[c] # "failed"
        /\ \A d \in Callers \ {c} : call'[d] = call[d]
        /\ call'[c].op # "add"
    <3>1. CASE ctl.running BY <1>33, <2>2, <3>1 DEF CommitCancelAll
    <3>2. CASE ~ctl.running BY <1>33, <2>2, <3>2 DEF CommitCancelAll
    <3> QED BY <3>1, <3>2
  <2> QED BY ONLY <1>1, <1>4, <2>1, <2>2, <2>3, <1>6 DEF CallerDecides, EditKnown, Moving,
      TypeOK
<1>34. CASE MutationFailed(c)
  <2>1. SaveMayFail /\ Return(c) /\ run' = run /\ cand' = cand BY <1>34, <1>3 DEF MutationFailed
  <2>2. /\ \A p \in Procs \ {c} : pc'[p] = pc[p]
        /\ pc'[c] = "idle" /\ call'[c] = NoCall
        /\ \A d \in Callers \ {c} : call'[d] = call[d]
    BY <2>1
  <2>3. CASE own[c]
    <3>1. SetJob(call[c].job, call[c].state) /\ Touch(NoCaller)
      BY <1>34, <1>5, <2>3 DEF MutationFailed
    <3>2. /\ mem'.st[call[c].job] = call[c].state
          /\ \A j \in Jobs \ {call[c].job} : mem'.st[j] = mem.st[j]
      BY <1>5, <2>3, <3>1 DEF SetJob
    <3>3. (\A p \in Procs : ~fresh'[p]) /\ \A d \in Callers : ~own'[d] BY <3>1
    <3> QED BY ONLY <1>1, <1>5, <1>4, <2>1, <2>2, <2>3, <3>2, <3>3 DEF CallerDecides, EditKnown,
        Moving, NoCall
  <2>4. CASE ~own[c]
    <3>1. mem' = mem /\ fresh' = fresh /\ own' = own BY <1>34, <2>4 DEF MutationFailed
    <3>2. ~fresh[c] BY <1>34, NothingHeld DEF MutationFailed
    <3> QED BY ONLY <1>1, <1>4, <2>1, <2>2, <3>1, <3>2 DEF CallerDecides, EditKnown, NoCall
  <2> QED BY <2>3, <2>4
<1>35. CASE PauseFailed(c) BY <1>35, <1>3 DEF PauseFailed
<1>36. CASE EditFailed(c) BY <1>36, <1>3 DEF EditFailed
<1>37. CASE StartFailed(c) BY <1>37, <1>3 DEF StartFailed
<1>38. CASE CommitChannel(c) BY <1>38, <1>3 DEF CommitChannel, Committing
<1> QED
  BY <1>11, <1>12, <1>13, <1>15, <1>16, <1>17, <1>18, <1>19, <1>20, <1>21, <1>22, <1>23, <1>24,
     <1>25, <1>26, <1>27, <1>28, <1>29, <1>30, <1>31, <1>32, <1>33, <1>38, <1>14, <1>34, <1>35,
     <1>36, <1>37
  DEF CallerBegins, CallerContinues, CancelJob

\* The goroutine does not touch what the callers hold, and advances queueRevision
\* when it changes a record.
RunnerSpares ==
  \A c \in Callers :
    /\ pc'[c] = pc[c] /\ cand'[c] = cand[c]
    /\ call'[c].op = call[c].op /\ call'[c].state = call[c].state /\ call'[c].job = call[c].job
    /\ own'[c] => own[c] /\ mem'.st = mem.st
    /\ fresh'[c] => fresh[c] /\ mem'.st = mem.st

\* Every step of the goroutine is of that kind.
LEMMA RunnerSparesCallers ==
  ASSUME TypeOK, RunnerSteps
  PROVE  RunnerSpares
<1>1. Runner \in Procs /\ Runner \notin Callers /\ \A d \in Callers : d \in Procs
  BY ConstantsAssumption DEF ConstantsAssumption, Procs
<1>2. \A l : Goto(Runner, l) => \A c \in Callers : pc'[c] = pc[c]
  BY RunnerFrames
<1>3. \A sig : call' = Forget(sig) =>
        \A c \in Callers : /\ call'[c].op = call[c].op /\ call'[c].state = call[c].state
                           /\ call'[c].job = call[c].job
  BY RunnerFrames
<1>4. Touch(Runner) => (\A p \in Procs : ~fresh'[p]) /\ \A c \in Callers : ~own'[c]
  BY <1>1, TouchFrames
<1>5. /\ \A d : cand' = [cand EXCEPT ![Runner] = d] => \A c \in Callers : cand'[c] = cand[c]
      /\ \A b : fresh' = [fresh EXCEPT ![Runner] = b] => \A c \in Callers : fresh'[c] = fresh[c]
  BY <1>1 DEF TypeOK
<1> USE <1>1, <1>2, <1>3, <1>4, <1>5 DEF RunnerSpares, RunnerOnly, End, RunnerPersist, revs
<1>6. CASE NextJob \/ JobContext \/ BeginAttempt \/ OpenVerifiedJob
  BY <1>6 DEF NextJob, JobContext, BeginAttempt, OpenVerifiedJob
<1>7. CASE Reserve \/ ReserveRefused \/ ReserveLost \/ Boundary
  BY <1>7 DEF Reserve, ReserveRefused, ReserveLost, Boundary
<1>8. CASE UploadParts \/ UploadRejected \/ TransportError \/ TransportCancelled
  BY <1>8 DEF UploadParts, UploadRejected, TransportError, TransportCancelled
<1>9. CASE PrepareSend \/ SendPrepared \/ PrepareLost \/ LastCheck \/ Submit \/ SendAnswered
  BY <1>9 DEF PrepareSend, SendPrepared, PrepareLost, LastCheck, Submit, SendAnswered
<1>10. CASE BeforeRetry \/ RetryLost \/ RetryWaitCancelled \/ RetryWaitOver
  BY <1>10 DEF BeforeRetry, RetryLost, RetryWaitCancelled, RetryWaitOver, RetryWaitEnds
<1>11. CASE AttemptEnded \/ NotStarted \/ PersistenceLost
  BY <1>11 DEF AttemptEnded, NotStarted, PersistenceLost
<1>12. CASE OutcomeUnknown \/ Interrupt \/ FailJob \/ Sent
  BY <1>12 DEF OutcomeUnknown, Interrupt, FailJob, Sent, Conclude
<1>13. CASE FinishUnlessPending \/ TerminalLost \/ StopAfterSave \/ PrepareRemoval
  BY <1>13 DEF FinishUnlessPending, TerminalLost, StopAfterSave, PrepareRemoval, Prepare
<1>14. CASE RemovedByOther \/ RemovalFailed \/ RemovalChanged \/ CommitPending
  BY <1>14 DEF RemovedByOther, RemovalFailed, RemovalChanged, CommitPending, RemovalEnds
<1>15. CASE FinishActiveJob \/ Cleanup \/ CloseRunDone
  BY <1>15 DEF FinishActiveJob, Cleanup, CloseRunDone
<1> QED
  BY <1>6, <1>7, <1>8, <1>9, <1>10, <1>11, <1>12, <1>13, <1>14, <1>15 DEF RunnerSteps

\* What a step of the goroutine does to records: it moves its own, which is undecided,
\* or removes it.
RunnerDecides ==
  /\ pc'[Runner] \notin {pc[Runner], "failed"}
  /\ \A j \in Jobs : mem'.st[j] # mem.st[j] =>
       /\ j = run.job
       /\ mem.st[j] \in Undecided \/ (mem.st[j] # "confirming" /\ mem'.st[j] = "absent")
  /\ RemovalIsOwn' /\ RecordUndecided' /\ NotReopened' /\ MovingHeld'
  /\ WithRecord' => run'.job \in RunnableJobs \/ (WithRecord /\ run'.job = run.job)
  /\ Closing' => \/ run'.job = run.job /\ (Closing \/ ~Present(run.job))
                 \/ \A c \in Callers : ~own'[c]

\* Every step of the goroutine is of that kind.
LEMMA RunnerDecidesOwn ==
  ASSUME TypeOK, DeliveryInv, Settling, RunnerSteps
  PROVE  RunnerDecides
<1>1. Runner \in Procs /\ Runner \notin Callers /\ \A d \in Callers : d \in Procs
  BY ConstantsAssumption DEF ConstantsAssumption, Procs
<1>2. \A l : Goto(Runner, l) => pc'[Runner] = l
  BY RunnerFrames
<1>3. run \in RunType /\ ctl \in ControlType /\ mem \in Document BY DEF TypeOK
<1>4. \A e : [run EXCEPT !.err = e].at = run.at /\ [run EXCEPT !.err = e].job = run.job
             /\ [run EXCEPT !.err = e].retry = run.retry /\ [run EXCEPT !.err = e].err = e
  BY <1>3 DEF RunType
<1>5. \A s : SetJob(run.job, s) /\ run.job \in Jobs =>
        /\ mem'.st[run.job] = s
        /\ \A j \in Jobs \ {run.job} : mem'.st[j] = mem.st[j]
  BY <1>3 DEF SetJob, Document
<1>6. pc[Runner] \notin PersistPoints => ~fresh[Runner]
  BY RunnerHoldsNothing DEF PersistPoints
<1>7. pc[Runner] \notin {"lock", "save", "check"} /\ run.at # "remove" => ~fresh[Runner]
  BY RunnerHoldsNothing
<1>8. Touch(Runner) => ~fresh'[Runner] /\ \A c \in Callers : ~own'[c] BY <1>1, TouchFrames
<1>9. ~WithRecord \/ pc[Runner] = "selected"
        \/ (pc[Runner] \in {"ended", "dispatch"} /\ run.err \in {"cancelled", "notRunnable"})
      => \A j \in Jobs : mem.st[j] \notin Moving
  BY DEF Settling, MovingHeld
<1>10. \A j \in Jobs : mem.st[j] \in Moving =>
        /\ j = run.job
        /\ pc[Runner] \in {"attempt", "open", "reserve"} => run.retry # 0
        /\ pc[Runner] \in {"ended", "dispatch"} => run.err \notin {"cancelled", "notRunnable"}
  BY DEF Settling, MovingHeld
<1>11. WithRecord => run.job \in Jobs /\ mem.st[run.job] \in Undecided
  BY DEF Settling, RecordUndecided
<1> DEFINE Closes == Closing' =>
             run'.job = run.job /\ (Closing \/ (~Present(run.job) /\ run.job \in Jobs))
<1>12. ASSUME NEW l \in RecordPoints, Goto(Runner, l), l # pc[Runner], mem' = mem,
             ~fresh'[Runner], run'.job = run.job, WithRecord, l # "selected",
             \A j \in Jobs : mem.st[j] \in Moving =>
               /\ l \in {"attempt", "open", "reserve"} => run'.retry # 0
               /\ l \in {"ended", "dispatch"} => run'.err \notin {"cancelled", "notRunnable"}
      PROVE  RunnerDecides
  <2>1. pc'[Runner] = l /\ l # "failed" /\ l \notin PersistPoints
    BY <1>12, <1>2 DEF RecordPoints, PersistPoints
  <2>2. RemovalIsOwn' /\ ~Closing' /\ NotReopened'
    BY <1>12, <2>1 DEF RemovalIsOwn, NotReopened, Closing
  <2>3. RecordUndecided' BY <1>12, <1>11 DEF RecordUndecided
  <2>4. MovingHeld' BY <1>12, <1>10, <2>1 DEF MovingHeld, WithRecord
  <2> QED BY <1>12, <2>1, <2>2, <2>3, <2>4 DEF RunnerDecides
<1>13. ASSUME NEW s, s \in {"uploading", "sending"}, SetJob(run.job, s), Goto(Runner, "snap"),
             ~fresh'[Runner], run'.job = run.job, run'.at \in {"uploading", "sending", "retry"},
             pc[Runner] \in RecordPoints
      PROVE  RunnerDecides
  <2>1. pc'[Runner] = "snap" /\ pc[Runner] # "snap" BY <1>13, <1>2 DEF RecordPoints
  <2>2. RemovalIsOwn' /\ ~Closing' /\ NotReopened'
    BY <1>13 DEF RemovalIsOwn, NotReopened, Closing, Terminal
  <2>3. WithRecord /\ WithRecord' BY <1>13, <2>1 DEF WithRecord, PersistPoints
  <2>4. RecordUndecided' BY <1>13, <1>11, <1>5, <2>3 DEF RecordUndecided, Undecided
  <2>5. MovingHeld' BY <1>13, <1>11, <1>5, <1>10, <2>1, <2>3 DEF MovingHeld
  <2> QED BY <1>13, <1>11, <1>5, <2>1, <2>2, <2>3, <2>4, <2>5 DEF RunnerDecides
<1>14. ASSUME NEW l, Goto(Runner, l), l # pc[Runner], l # "failed",
             \/ l \in {"next", "cleanup", "finish", "idle"}
             \/ l \in PersistPoints /\ run'.at \notin {"uploading", "sending", "retry"},
             Closes, RemovalIsOwn',
             mem' = mem, ~WithRecord \/ pc[Runner] = "selected"
               \/ (pc[Runner] \in {"ended", "dispatch"}
                  /\ run.err \in {"cancelled", "notRunnable"})
               \/ (~Present(run.job) /\ run.job \in Jobs)
      PROVE  RunnerDecides
  <2>1. ~WithRecord' BY <1>14, <1>2 DEF WithRecord, RecordPoints, PersistPoints
  <2>2. \A j \in Jobs : mem.st[j] \notin Moving
    BY <1>14, <1>9, <1>10 DEF Present, Moving, NoJob, Jobs
  <2>3. NotReopened'
    BY <1>14, <1>11 DEF Settling, NotReopened, Present, NoJob, Jobs
  <2> QED BY <1>14, <1>2, <2>1, <2>2, <2>3 DEF RunnerDecides, RecordUndecided, MovingHeld
<1>15. ASSUME NEW k \in {"unknown", "interrupt", "lost", "fail", "sent"},
             NEW s \in {"confirming", "cancelled", "interrupted", "failed", "sent"},
             Conclude(k, s), s = "confirming" => k = "unknown",
             pc[Runner] \in {"dispatch", "fail"}
      PROVE  RunnerDecides
  <2>1. /\ run'.at = k /\ run'.job = run.job /\ pc'[Runner] = "snap"
    BY <1>15, <1>3, <1>2 DEF Conclude, RunType
  <2>2. WithRecord /\ run.job \in Jobs /\ mem.st[run.job] \in Undecided
    BY <1>15, <1>11 DEF WithRecord, RecordPoints
  <2>3. RemovalIsOwn' BY <2>1 DEF RemovalIsOwn
  <2>4. ~WithRecord' BY <2>1 DEF WithRecord, RecordPoints
  <2>5. CASE Present(run.job)
    <3>1. SetJob(run.job, s) BY <1>15, <2>5 DEF Conclude
    <3>2. \A j \in Jobs : mem'.st[j] \notin Moving BY <1>5, <1>10, <2>2, <3>1 DEF Moving
    <3>3. NotReopened' BY <1>15, <1>5, <2>1, <2>2, <3>1 DEF NotReopened, Closing, Terminal
    <3>4. \A c \in Callers : ~own'[c] BY <1>15, <1>8, <2>5 DEF Conclude
    <3> QED
      BY <1>15, <1>5, <2>1, <2>2, <2>3, <2>4, <3>1, <3>2, <3>3, <3>4
      DEF RunnerDecides, RecordUndecided, MovingHeld
  <2>6. CASE ~Present(run.job)
    <3>1. mem' = mem /\ Goto(Runner, "snap") BY <1>15, <2>6 DEF Conclude
    <3>2. Closes BY <2>1, <2>2, <2>6
    <3> QED BY <1>14, <1>15, <2>1, <2>2, <2>3, <2>6, <3>1, <3>2 DEF PersistPoints
  <2> QED BY <2>5, <2>6
<1>16. ASSUME NEW e, End(e),
               \/ pc[Runner] \in RecordPoints
               \/ pc[Runner] \in {"saved", "failed"} /\ run.at \in {"uploading", "sending"},
               pc[Runner] # "ended",
               e \in {"cancelled", "notRunnable"} => \A j \in Jobs : mem.st[j] \notin Moving
        PROVE  RunnerDecides
  <2>1. Goto(Runner, "ended") /\ mem' = mem /\ fresh' = fresh
    BY <1>16 DEF End, RunnerOnly, revs
  <2>2. run'.job = run.job /\ run'.err = e BY <1>16, <1>4 DEF End
  <2>3. WithRecord /\ ~fresh[Runner]
    BY <1>16, <1>6, <1>7 DEF WithRecord, Persisted, PersistPoints, RecordPoints
  <2> QED BY <1>16, <2>1, <2>2, <2>3, <1>12 DEF RecordPoints
<1>17. ASSUME NEW l \in RecordPoints, RunnerOnly(l), run' = run, l # pc[Runner],
              \/ pc[Runner] \in RecordPoints
              \/ Persisted("uploading", "saved") \/ Persisted("sending", "saved"),
              l \notin {"selected", "ended", "dispatch"},
              l \in {"attempt", "open", "reserve"} =>
                pc[Runner] \in {"attempt", "open", "reserve"}
       PROVE  RunnerDecides
  <2>1. Goto(Runner, l) /\ mem' = mem /\ fresh' = fresh BY <1>17 DEF RunnerOnly, revs
  <2>2. WithRecord /\ ~fresh[Runner]
    BY <1>17, <1>6, <1>7 DEF WithRecord, Persisted, PersistPoints, RecordPoints
  <2> QED BY <1>17, <2>1, <2>2, <1>12, <1>10
<1>18. ASSUME run' = NoRun, mem' = mem, NEW l, Goto(Runner, l), l \in {"next", "cleanup"},
             ~WithRecord \/ pc[Runner] = "selected"
               \/ (pc[Runner] \in {"ended", "dispatch"}
                  /\ run.err \in {"cancelled", "notRunnable"})
               \/ (~Present(run.job) /\ run.job \in Jobs),
             l # pc[Runner]
      PROVE  RunnerDecides
  <2>1. RemovalIsOwn' /\ Closes
    BY <1>18, <1>2 DEF RemovalIsOwn, NotReopened, Closing, NoRun, Terminal
  <2> QED BY <1>18, <1>14, <2>1
<1>19. CASE NextJob
  <2>1. ~WithRecord /\ pc[Runner] = "next"
    BY <1>19 DEF NextJob, WithRecord, RecordPoints, PersistPoints
  <2>2. ~fresh'[Runner] BY <1>19, <1>6, <2>1 DEF NextJob, RunnerOnly, revs, PersistPoints
  <2>3. CASE NothingToStart
    <3>1. Goto(Runner, "cleanup") /\ mem' = mem /\ pc'[Runner] = "cleanup"
      BY <1>19, <1>2, <2>3 DEF NextJob, RunnerOnly
    <3>2. RemovalIsOwn' /\ Closes
      BY <2>2, <3>1 DEF RemovalIsOwn, NotReopened, Closing, PersistPoints
    <3> QED BY <2>1, <3>1, <3>2, <1>14
  <2>4. CASE ~NothingToStart
    <3>1. /\ run'.job \in RunnableJobs /\ pc'[Runner] = "selected" /\ mem' = mem
      BY <1>19, <1>2, <2>4 DEF NextJob, RunnerOnly, NoRun
    <3>2. RemovalIsOwn' /\ ~Closing' /\ NotReopened'
      BY <2>2, <3>1 DEF RemovalIsOwn, NotReopened, Closing, PersistPoints
    <3>3. RecordUndecided' BY <3>1 DEF RecordUndecided, RunnableJobs, Runnable, Undecided
    <3>4. MovingHeld' BY <3>1, <2>1, <1>9 DEF MovingHeld
    <3> QED BY <2>1, <3>1, <3>2, <3>3, <3>4 DEF RunnerDecides
  <2> QED BY <2>3, <2>4
<1>20. CASE JobContext
  <2>1. pc[Runner] = "selected" /\ ~fresh'[Runner] /\ mem' = mem /\ run' = run
    BY <1>20, <1>6 DEF JobContext, RunnerOnly, revs, PersistPoints
  <2>2. CASE ctl.runDead
    <3>1. Goto(Runner, "cleanup") /\ pc'[Runner] = "cleanup"
      BY <1>20, <1>2, <2>2 DEF JobContext, RunnerOnly
    <3>2. RemovalIsOwn' /\ Closes
      BY <2>1, <3>1 DEF RemovalIsOwn, NotReopened, Closing, PersistPoints
    <3> QED BY <2>1, <3>1, <3>2, <1>14
  <2>3. CASE ~ctl.runDead
    <3>1. Goto(Runner, "attempt") BY <1>20, <2>3 DEF JobContext
    <3> QED BY <2>1, <3>1, <1>12, <1>9 DEF WithRecord, RecordPoints
  <2> QED BY <2>2, <2>3
<1>21. CASE BeginAttempt
  BY <1>21, <1>17, <1>16 DEF BeginAttempt, RecordPoints
<1>22. CASE OpenVerifiedJob
  BY <1>22, <1>17, <1>16 DEF OpenVerifiedJob, RecordPoints
<1>23. CASE Reserve
  <2>1. /\ Goto(Runner, "snap") /\ SetJob(run.job, "uploading") /\ ~fresh'[Runner]
        /\ run'.job = run.job /\ run'.at = "uploading" /\ pc[Runner] = "reserve"
    BY <1>23, <1>3, <1>8 DEF Reserve, RunnerPersist, RunType
  <2> QED BY <2>1, <1>13 DEF RecordPoints
<1>24. CASE ReserveRefused
  <2>1. WithRecord /\ pc[Runner] = "reserve"
    BY <1>24 DEF ReserveRefused, WithRecord, RecordPoints
  <2>2. PICK e : /\ End(e)
                 /\ e = "cancelled" => mem.st[run.job] = "cancelled"
                 /\ e = "notRunnable" => run.retry = 0 \/ ~Present(run.job)
    <3>1. CASE ContextDead BY <1>24, <3>1 DEF ReserveRefused
    <3>2. CASE ~ContextDead /\ IsPaused BY <1>24, <3>2 DEF ReserveRefused
    <3>3. CASE ~ContextDead /\ ~IsPaused /\ mem.st[run.job] = "cancelled"
      <4>1. End("cancelled") BY <1>24, <3>3 DEF ReserveRefused
      <4> QED BY <3>3, <4>1
    <3>4. CASE ~ContextDead /\ ~IsPaused /\ mem.st[run.job] # "cancelled"
      <4>1. End(IF run.retry = 0 \/ ~Present(run.job) THEN "notRunnable" ELSE "failed")
        BY <1>24, <3>4 DEF ReserveRefused
      <4>2. CASE run.retry = 0 \/ ~Present(run.job) BY <4>1, <4>2
      <4>3. CASE ~(run.retry = 0 \/ ~Present(run.job)) BY <4>1, <4>3
      <4> QED BY <4>2, <4>3
    <3> QED BY <3>1, <3>2, <3>3, <3>4
  <2>3. e \in {"cancelled", "notRunnable"} => \A j \in Jobs : mem.st[j] \notin Moving
    BY <1>10, <2>1, <2>2 DEF Present, NoJob, Jobs, Moving
  <2> QED BY <2>1, <2>2, <2>3, <1>16 DEF RecordPoints
<1>25. CASE ReserveLost \/ PrepareLost
  BY <1>25, <1>16 DEF ReserveLost, PrepareLost, Persisted
<1>26. CASE Boundary
  BY <1>26, <1>17, <1>16 DEF Boundary, Persisted, RecordPoints
<1>27. CASE UploadParts \/ UploadRejected \/ TransportError \/ TransportCancelled
  BY <1>27, <1>17, <1>16
  DEF UploadParts, UploadRejected, TransportError, TransportCancelled, RecordPoints
<1>28. CASE PrepareSend
  <2>1. CASE mem.st[run.job] = "uploading"
    <3>1. /\ Goto(Runner, "snap") /\ SetJob(run.job, "sending") /\ ~fresh'[Runner]
          /\ run'.job = run.job /\ run'.at = "sending" /\ pc[Runner] = "beforeSend"
      BY <1>28, <2>1, <1>3, <1>8 DEF PrepareSend, RunnerPersist, RunType
    <3> QED BY <3>1, <1>13 DEF RecordPoints
  <2>2. CASE mem.st[run.job] = "sending"
    <3>1. RunnerOnly("submit") /\ run' = run /\ pc[Runner] = "beforeSend"
      BY <1>28, <2>2 DEF PrepareSend
    <3> QED BY <3>1, <1>17 DEF RecordPoints
  <2>3. CASE mem.st[run.job] # "uploading" /\ mem.st[run.job] # "sending"
    <3>1. End("failed") /\ pc[Runner] = "beforeSend" BY <1>28, <2>3 DEF PrepareSend
    <3> QED BY <3>1, <1>16 DEF RecordPoints
  <2> QED BY <2>1, <2>2, <2>3
<1>29. CASE SendPrepared \/ LastCheck \/ Submit \/ SendAnswered
  <2>1. CASE Submit
    <3>1. Goto(Runner, "inflight") /\ mem' = mem /\ run' = run /\ fresh' = fresh
          /\ pc[Runner] = "slot"
      BY <2>1 DEF Submit, revs
    <3> QED BY <3>1, <1>12, <1>6 DEF WithRecord, RecordPoints, PersistPoints
  <2> QED
    BY <1>29, <2>1, <1>17, <1>16
    DEF SendPrepared, LastCheck, SendAnswered, Persisted, RecordPoints
<1>30. CASE BeforeRetry
  <2>1. pc[Runner] = "retry" BY <1>30 DEF BeforeRetry
  <2>2. CASE IsPaused \/ ~Present(run.job)
    <3>1. End("paused") \/ End("failed") BY <1>30, <2>2 DEF BeforeRetry
    <3> QED BY <2>1, <3>1, <1>16 DEF RecordPoints
  <2>3. CASE ~IsPaused /\ Present(run.job)
    <3>1. /\ SetJob(run.job, "uploading") /\ run' = [run EXCEPT !.at = "retry"]
          /\ Goto(Runner, "snap") /\ ~fresh'[Runner]
      BY <1>30, <2>3, <1>8 DEF BeforeRetry, RunnerPersist
    <3>2. run'.job = run.job /\ run'.at = "retry" BY <3>1, <1>3 DEF RunType
    <3> QED BY <2>1, <3>1, <3>2, <1>13 DEF RecordPoints
  <2> QED BY <2>2, <2>3
<1>31. CASE RetryLost \/ RetryWaitCancelled \/ RetryWaitOver
  <2>1. run.at = "retry" /\ pc[Runner] \in {"saved", "failed"} /\ WithRecord /\ ~fresh[Runner]
    BY <1>31, <1>7
    DEF RetryLost, RetryWaitCancelled, RetryWaitOver, Persisted, WithRecord, PersistPoints
  <2>2. ASSUME NEW l \in {"ended", "attempt"}, NEW q, RetryWaitEnds(l, q), q.job = run.job,
               l = "attempt" => q.retry # 0,
               q.err \notin {"cancelled", "notRunnable"} \/ l = "attempt"
        PROVE  RunnerDecides
    BY <2>1, <2>2, <1>12 DEF RetryWaitEnds, RecordPoints, revs
  <2>3. /\ [run EXCEPT !.retry = @ + 1, !.at = "none"].job = run.job
        /\ [run EXCEPT !.retry = @ + 1, !.at = "none"].retry # 0
    BY <1>3, ConstantsAssumption DEF RunType, ConstantsAssumption
  <2>4. CASE RetryLost BY <2>2, <2>4, <1>4 DEF RetryLost
  <2>5. CASE RetryWaitCancelled BY <2>2, <2>5, <1>4 DEF RetryWaitCancelled
  <2>6. CASE RetryWaitOver BY <2>2, <2>3, <2>6, <1>4 DEF RetryWaitOver
  <2> QED BY <1>31, <2>4, <2>5, <2>6
<1>32. CASE AttemptEnded
  <2>1. /\ run'.job = run.job /\ run'.err = run.err /\ mem' = mem /\ fresh' = fresh
        /\ Goto(Runner, "dispatch") /\ pc[Runner] = "ended"
    BY <1>32, <1>3 DEF AttemptEnded, RunType, revs
  <2> QED BY <2>1, <1>12, <1>6, <1>10 DEF WithRecord, RecordPoints, PersistPoints
<1>33. CASE NotStarted
  BY <1>33, <1>18 DEF NotStarted
<1>34. CASE OutcomeUnknown \/ Interrupt \/ FailJob
  BY <1>34, <1>15 DEF OutcomeUnknown, Interrupt, FailJob
<1>35. CASE PersistenceLost
  <2>1. Goto(Runner, "fail") /\ mem' = mem /\ run' = run /\ fresh' = fresh
        /\ pc[Runner] = "dispatch"
    BY <1>35 DEF PersistenceLost, revs
  <2> QED BY <2>1, <1>12, <1>6 DEF WithRecord, RecordPoints, PersistPoints
<1>36. CASE Sent
  <2>1. CASE Present(run.job) BY <1>36, <2>1, <1>15 DEF Sent
  <2>2. CASE ~Present(run.job)
    <3>1. run' = NoRun /\ Goto(Runner, "next") /\ mem' = mem /\ pc[Runner] = "dispatch"
      BY <1>36, <2>2 DEF Sent, RunnerOnly
    <3>2. run.job \in Jobs BY <3>1, <1>11 DEF WithRecord, RecordPoints
    <3> QED BY <2>2, <3>1, <3>2, <1>18
  <2> QED BY <2>1, <2>2
<1>37. CASE FinishUnlessPending
  <2>1. /\ pc[Runner] = "saved" /\ run.at \in Terminal /\ ~WithRecord /\ mem' = mem
        /\ fresh' = fresh /\ ~fresh[Runner]
    BY <1>37, <1>7
    DEF FinishUnlessPending, Terminal, WithRecord, RecordPoints, revs
  <2>2. CASE ctl.active = run.job /\ run.job \in ctl.pending
    <3>1. run'.at = "remove" /\ run'.job = run.job /\ Goto(Runner, "snap")
      BY <1>37, <1>3, <2>2 DEF FinishUnlessPending, RunType
    <3>2. Closes BY <2>1, <3>1 DEF Closing, PersistPoints
    <3>3. RemovalIsOwn' BY <2>1 DEF RemovalIsOwn
    <3> QED BY <2>1, <3>1, <3>2, <3>3, <1>14 DEF PersistPoints
  <2>3. CASE ~(ctl.active = run.job /\ run.job \in ctl.pending)
    BY <1>37, <2>1, <2>3, <1>18 DEF FinishUnlessPending, AfterJob
  <2> QED BY <2>2, <2>3
<1>38. CASE TerminalLost \/ RemovalFailed
  <2>1. /\ mem' = mem /\ fresh' = fresh /\ pc[Runner] = "failed" /\ ~WithRecord
        /\ ~fresh[Runner]
    BY <1>38, RunnerHoldsNothing
    DEF TerminalLost, RemovalFailed, Persisted, RemovalEnds, WithRecord, RecordPoints, Terminal,
        revs
  <2>2. PICK l \in {"cleanup", "finish"} : Goto(Runner, l)
    BY <1>38 DEF TerminalLost, RemovalFailed, RemovalEnds
  <2>3. RemovalIsOwn' /\ Closes BY <2>1, <2>2, <1>2 DEF RemovalIsOwn, Closing, PersistPoints
  <2> QED BY <2>1, <2>2, <2>3, <1>14
<1>39. CASE StopAfterSave
  <2>1. /\ Goto(Runner, "cleanup") /\ mem' = mem /\ run' = run /\ fresh' = fresh
        /\ pc[Runner] \in {"saved", "failed"} /\ run.at \in {"unknown", "lost"}
        /\ ~WithRecord /\ ~fresh[Runner]
    BY <1>39, <1>7 DEF StopAfterSave, RunnerOnly, revs, WithRecord, RecordPoints
  <2>2. RemovalIsOwn' /\ Closes BY <2>1, <1>2 DEF RemovalIsOwn, NotReopened, Closing, Terminal
  <2> QED BY <2>1, <2>2, <1>14
<1>40. CASE PrepareRemoval
  <2>1. /\ Goto(Runner, "lock") /\ mem' = mem /\ run' = run /\ pc[Runner] = "snap"
        /\ run.at = "remove" /\ ~WithRecord /\ run.job \in Jobs
        /\ cand'[Runner] = [mem EXCEPT !.st[run.job] = "absent"]
    BY <1>40, <1>1
    DEF PrepareRemoval, Prepare, WithRecord, RecordPoints, Settling, NotReopened, Closing,
        PersistPoints, TypeOK
  <2>2. RemovalIsOwn' BY <2>1, <1>3 DEF RemovalIsOwn, Document
  <2>3. Closes BY <2>1 DEF Closing, PersistPoints
  <2> QED BY <2>1, <2>2, <2>3, <1>14 DEF PersistPoints
<1>41. CASE RemovedByOther
  <2>1. /\ mem' = mem /\ Goto(Runner, "finish") /\ fresh' = fresh /\ pc[Runner] = "snap"
        /\ ~WithRecord /\ ~fresh[Runner]
    BY <1>41, RunnerHoldsNothing
    DEF RemovedByOther, RemovalEnds, revs, WithRecord, RecordPoints, PersistPoints
  <2>2. RemovalIsOwn' /\ Closes
    BY <2>1, <1>2 DEF RemovalIsOwn, NotReopened, Closing, PersistPoints
  <2> QED BY <2>1, <2>2, <1>14
<1>42. CASE RemovalChanged
  <2>1. /\ mem' = mem /\ Goto(Runner, "snap") /\ run' = run /\ fresh' = fresh
        /\ pc[Runner] = "saved"
        /\ run.at = "remove" /\ ~fresh[Runner] /\ ~WithRecord
    BY <1>42 DEF RemovalChanged, Persisted, revs, WithRecord, RecordPoints
  <2>2. RemovalIsOwn' /\ Closes
    BY <2>1 DEF RemovalIsOwn, Settling, NotReopened, Closing, PersistPoints
  <2> QED BY <2>1, <2>2, <1>14 DEF PersistPoints
<1>43. CASE CommitPending
  <2>1. /\ mem'.st = cand[Runner].st /\ ~fresh'[Runner] /\ pc'[Runner] = "finish"
        /\ fresh[Runner] /\ pc[Runner] = "saved" /\ run.at = "remove" /\ ~WithRecord
    BY <1>43, <1>3, <1>8, <1>2
    DEF CommitPending, Persisted, Document, RemovalEnds, WithRecord, RecordPoints
  <2>2. /\ run.job \in Jobs /\ mem.st[run.job] # "confirming"
        /\ \A j \in Jobs : mem'.st[j] = IF j = run.job THEN "absent" ELSE mem.st[j]
    BY <2>1 DEF Settling, RemovalIsOwn, NotReopened, Closing, PersistPoints
  <2>3. RemovalIsOwn' /\ ~Closing' /\ NotReopened'
    BY <2>1 DEF RemovalIsOwn, NotReopened, Closing, PersistPoints
  <2>4. ~WithRecord' BY <2>1 DEF WithRecord, RecordPoints, PersistPoints
  <2>5. \A j \in Jobs : mem'.st[j] \notin Moving BY <2>1, <2>2, <1>9 DEF Moving
  <2> QED BY <2>1, <2>2, <2>3, <2>4, <2>5 DEF RunnerDecides, RecordUndecided, MovingHeld
<1>44. CASE FinishActiveJob
  <2>1. ~WithRecord BY <1>44 DEF FinishActiveJob, WithRecord, RecordPoints, PersistPoints
  <2> QED BY <1>44, <2>1, <1>18 DEF FinishActiveJob, AfterJob
<1>45. CASE Cleanup
  <2>1. /\ run'.at = "final" /\ Goto(Runner, "snap") /\ mem' = mem /\ pc[Runner] = "cleanup"
        /\ ~WithRecord
    BY <1>45 DEF Cleanup, NoRun, WithRecord, RecordPoints, PersistPoints
  <2>2. RemovalIsOwn' /\ Closes BY <2>1 DEF RemovalIsOwn, NotReopened, Closing, Terminal
  <2> QED BY <2>1, <2>2, <1>14 DEF PersistPoints
<1>46. CASE CloseRunDone
  <2>1. /\ run' = NoRun /\ Goto(Runner, "idle") /\ mem' = mem
        /\ pc[Runner] \in {"saved", "failed"} /\ run.at = "final" /\ ~WithRecord
    BY <1>46 DEF CloseRunDone, WithRecord, RecordPoints, PersistPoints
  <2>2. RemovalIsOwn' /\ Closes BY <2>1 DEF RemovalIsOwn, NotReopened, Closing, NoRun, Terminal
  <2> QED BY <2>1, <2>2, <1>14
<1> QED
  BY <1>19, <1>20, <1>21, <1>22, <1>23, <1>24, <1>25, <1>26, <1>27, <1>28, <1>29, <1>30, <1>31,
     <1>32, <1>33, <1>34, <1>35, <1>36, <1>37, <1>38, <1>39, <1>40, <1>41, <1>42,
     <1>43, <1>44, <1>45, <1>46
  DEF RunnerSteps

\* Such a step keeps Settling.
LEMMA DecidedRunner ==
  ASSUME TypeOK, DeliveryInv, Settling, RunnerDecides, RunnerSpares
  PROVE  Settling'
<1>1. Procs = Callers \cup {Runner} BY DEF Procs
<1>2. NothingFailed'
  BY <1>1 DEF Settling, NothingFailed, RunnerDecides, RunnerSpares
<1>3. EditsKnown'
  <2>1. ASSUME NEW c \in Callers PROVE EditKnown(c)'
    BY <2>1 DEF Settling, EditsKnown, EditKnown, RunnerSpares
  <2> QED BY <2>1 DEF EditsKnown
<1>4. RollBacksKnown'
  <2>1. ASSUME SaveMayFail, NEW c \in Callers, own'[c] PROVE RollsBack(c)'
    <3>1. /\ own[c] /\ RollsBack(c) /\ mem'.st = mem.st
          /\ call'[c].state = call[c].state /\ call'[c].job = call[c].job
      BY <2>1 DEF Settling, RollBacksKnown, RunnerSpares
    <3>2. call[c].job \in Jobs /\ mem.st[call[c].job] # "absent"
      BY <3>1 DEF DeliveryInv, OwnIsCurrent, ChangeIsOwn
    <3>3. WithRecord' /\ run'.job = call[c].job => WithRecord /\ run.job = call[c].job
      <4>1. mem.st[call[c].job] \in {"cancelled", "queued", "skipped", "sent"}
            /\ mem.st[call[c].job] # "queued"
        BY <3>1 DEF DeliveryInv, OwnIsCurrent, ChangeIsOwn, RollsBack
      <4> QED BY <4>1 DEF RunnerDecides, RunnableJobs, Runnable
    <3>4. Closing' /\ run'.job = call[c].job => Closing /\ run.job = call[c].job
      BY <2>1, <3>2 DEF RunnerDecides, Present, Jobs, NoJob
    <3> QED BY <3>1, <3>3, <3>4 DEF RollsBack
  <2>2. ASSUME NEW c \in Callers, ~own'[c] PROVE RollsBack(c)' BY <2>2 DEF RollsBack
  <2> QED BY <2>1, <2>2 DEF RollBacksKnown
<1> QED BY <1>2, <1>3, <1>4 DEF Settling, RunnerDecides

\* Saving changes no record.
LEMMA PersistingSettles ==
  ASSUME TypeOK, Settling, NEW p \in Procs, Persisting(p)
  PROVE  Settling' /\ mem' = mem /\ pc'[Runner] \in {pc[Runner]} \cup PersistPoints
<1>1. Runner \in Procs /\ Runner \notin Callers /\ \A d \in Callers : d \in Procs
  BY ConstantsAssumption DEF ConstantsAssumption, Procs
<1> USE DEF Persisting, PersistSnapshot, Prepare, LockAndCheck, SaveSucceeds, SaveFails, Recheck
<1>2. UNCHANGED <<mem, run, call, own>> BY DEF revs
<1>3. /\ pc[p] \in PersistPoints
      /\ pc'[p] \in PersistPoints
      /\ pc'[p] = "failed" => SaveMayFail
      /\ \A q \in Procs \ {p} : pc'[q] = pc[q]
  BY DEF Goto, TypeOK, PersistPoints
<1>4. /\ \A q \in Procs \ {p} : cand'[q] = cand[q] /\ fresh'[q] = fresh[q]
      /\ fresh'[p] => \/ fresh[p] /\ cand'[p] = cand[p]
                      \/ cand'[p] = mem /\ Plain(p)
  BY DEF TypeOK, revs
<1>5. NothingFailed' BY <1>3 DEF Settling, NothingFailed
<1>6. EditsKnown'
  <2>1. ASSUME NEW c \in Callers PROVE EditKnown(c)'
    BY ONLY Settling, <1>1, <1>2, <1>4, <2>1 DEF Settling, EditsKnown, EditKnown
  <2> QED BY <2>1 DEF EditsKnown
<1>7. RemovalIsOwn' BY ONLY Settling, <1>1, <1>2, <1>4 DEF Settling, RemovalIsOwn, Plain
<1>8. (WithRecord' <=> WithRecord) /\ (Closing' <=> Closing)
  BY ONLY <1>1, <1>2, <1>3 DEF WithRecord, RecordPoints, PersistPoints, Closing
<1>9. RecordUndecided' /\ NotReopened'
  BY ONLY Settling, <1>2, <1>8 DEF Settling, RecordUndecided, NotReopened
<1>10. RollBacksKnown'
  BY ONLY Settling, <1>2, <1>8 DEF Settling, RollBacksKnown, RollsBack
<1>11. MovingHeld'
  BY ONLY Settling, <1>1, <1>2, <1>3, <1>8 DEF Settling, MovingHeld, PersistPoints
<1> QED BY <1>1, <1>2, <1>3, <1>5, <1>6, <1>7, <1>9, <1>10, <1>11 DEF Settling

\* The goroutine begins without a record.
LEMMA StartSettles ==
  ASSUME TypeOK, RunnerAlone, DeliveryInv, Settling, NEW c \in Callers, StartSaved(c)
  PROVE  Settling' /\ mem' = mem
<1>1. c \in Procs /\ Runner \in Procs /\ c # Runner /\ \A d \in Callers : d \in Procs
  BY ConstantsAssumption DEF ConstantsAssumption, Procs
<1>2. pc[Runner] = "idle" BY DEF StartSaved, RunnerAlone
<1>3. /\ UNCHANGED <<mem, run, cand, fresh, own>>
      /\ pc[c] = "saved" /\ call[c].op = "start"
      /\ pc'[c] = "idle" /\ pc'[Runner] = "next"
      /\ \A p \in Procs \ {c, Runner} : pc'[p] = pc[p]
      /\ call'[c] = NoCall /\ \A d \in Callers \ {c} : call'[d] = call[d]
  BY <1>1 DEF StartSaved, revs, TypeOK
<1>4. ~WithRecord /\ ~WithRecord' BY <1>2, <1>3 DEF WithRecord, RecordPoints, PersistPoints
<1>5. NothingFailed' BY <1>3 DEF Settling, NothingFailed
<1>6. EditsKnown' BY <1>3 DEF Settling, EditsKnown, EditKnown, NoCall
<1>7. RemovalIsOwn' BY <1>3 DEF Settling, RemovalIsOwn
<1>8. ~Closing' /\ NotReopened' BY <1>3 DEF NotReopened, Closing, PersistPoints
<1>9. RollBacksKnown'
  <2>1. ~own[c] BY <1>3, NothingHeld DEF Mutations
  <2> QED BY <1>3, <1>4, <1>8, <2>1 DEF Settling, RollBacksKnown, RollsBack
<1>10. RecordUndecided' /\ MovingHeld'
  BY <1>3, <1>4 DEF Settling, RecordUndecided, MovingHeld
<1> QED BY <1>3, <1>5, <1>6, <1>7, <1>8, <1>10, <1>9 DEF Settling

\* Nothing is in transfer after Load.
LEMMA LoadedSettles == Loaded => Settling
<1> SUFFICES ASSUME Loaded PROVE Settling OBVIOUS
<1>1. (\A p \in Procs : pc[p] = "idle" /\ ~fresh[p]) /\ Runner \in Procs
      /\ \A c \in Callers : c \in Procs
  BY DEF Loaded, Procs
<1>2. \A j \in Jobs : mem.st[j] \notin Moving
  BY DEF Loaded, LoadedQueue, Recovered, Document, Moving
<1>3. ~WithRecord BY <1>1 DEF WithRecord, RecordPoints, PersistPoints
<1> QED
  BY <1>1, <1>2, <1>3
  DEF Settling, NothingFailed, EditsKnown, EditKnown, RemovalIsOwn, RecordUndecided,
      NotReopened,
      Closing, MovingHeld, PersistPoints, Loaded, NoCall, RollBacksKnown, RollsBack

\* Settling is inductive relative to TypeOK, RunnerAlone and DeliveryInv.
LEMMA SettlingNext ==
  ASSUME RetrySaved, TypeOK, RunnerAlone, DeliveryInv, Settling, [Next]_vars
  PROVE  Settling'
<1>1. ASSUME NEW c \in Callers, CallerBegins(c) \/ CallerContinues(c) PROVE Settling'
  BY <1>1, CallersDecide, DecidedCaller, StartSettles
<1>2. ASSUME RunnerSteps PROVE Settling'
  BY <1>2, RunnerDecidesOwn, RunnerSparesCallers, DecidedRunner
<1>3. ASSUME NEW p \in Procs, Persisting(p) PROVE Settling' BY <1>3, PersistingSettles
<1>4. ASSUME UNCHANGED <<mem, run, call, pc, cand, revs>> PROVE Settling'
  <2>1. NothingFailed' /\ EditsKnown' /\ RemovalIsOwn' /\ NotReopened'
    BY <1>4 DEF Settling, NothingFailed, EditsKnown, EditKnown, RemovalIsOwn, NotReopened,
       Closing, revs
  <2>2. RecordUndecided' /\ MovingHeld'
    BY <1>4 DEF Settling, RecordUndecided, MovingHeld, WithRecord
  <2>3. RollBacksKnown'
    BY <1>4 DEF Settling, RollBacksKnown, RollsBack, WithRecord, Closing, revs
  <2> QED BY <2>1, <2>2, <2>3 DEF Settling
<1>5. ASSUME Crash PROVE Settling'
  <2>1. Loaded' BY <1>5, CrashLoads
  <2> QED BY <2>1, LoadedSettles, PTL
<1> QED BY <1>1, <1>2, <1>3, <1>4, <1>5 DEF Next, Rest, Shutdown, vars, revs

\* What one step may do to one record.
LEMMA StepDecides ==
  ASSUME RetrySaved, TypeOK, RunnerAlone, DeliveryInv, Settling, [Next]_vars,
         crashes' = crashes, NEW j \in Jobs, mem'.st[j] # mem.st[j]
  PROVE  /\ mem.st[j] \in Moving => pc'[Runner] # pc[Runner]
         /\ mem.st[j] = "confirming" => Decides(j)
         /\ pc'[Runner] # pc[Runner] /\ mem.st[j] \in {"confirming", "skipped", "sent"}
              => mem'.st[j] = "absent"
<1> DEFINE Decided ==
             /\ mem.st[j] \in Moving => pc'[Runner] # pc[Runner]
             /\ mem.st[j] = "confirming" => Decides(j)
             /\ pc'[Runner] # pc[Runner] /\ mem.st[j] \in {"confirming", "skipped", "sent"}
                  => mem'.st[j] = "absent"
<1>1. ASSUME NEW c \in Callers, CallerDecides(c) PROVE Decided
  BY <1>1 DEF CallerDecides, Decides
<1>2. CASE RunnerDecides
  BY <1>2 DEF RunnerDecides, Undecided, Moving
<1>3. ASSUME NEW c \in Callers, CallerBegins(c) \/ CallerContinues(c)
      PROVE \E d \in Callers : CallerDecides(d)
  BY <1>3, CallersDecide, StartSettles
<1>4. RunnerSteps => RunnerDecides BY RunnerDecidesOwn
<1>5. ASSUME NEW p \in Procs, Persisting(p) PROVE FALSE
  BY <1>5, PersistingSettles
<1>6. ~Crash BY DEF Crash, TypeOK, ConstantsAssumption
<1> QED BY <1>1, <1>2, <1>3, <1>4, <1>5, <1>6 DEF Next, Rest, Shutdown, vars

\* Only the goroutine's own record is in transfer, and it is nobody's decision.
THEOREM SettlingAlways ==
  ASSUME RetrySaved
  PROVE  Spec => []Settling
<1>1. Init => Settling BY InitLoads, LoadedSettles
<1>2. (TypeOK /\ RetriesLeft) /\ RunnerAlone /\ DeliveryInv /\ Settling /\ [Next]_vars
      => Settling'
  BY SettlingNext
<1> QED BY <1>1, <1>2, TypeCorrect, StartsAlone, DeliverySafe, PTL DEF Spec

\* However old the view was from which an edit was prepared, a record in transfer is
\* moved on by the goroutine only, and one whose delivery is unknown by the user's
\* word on that record only; in every store that does not fail a Retry.
THEOREM EditsNeverStale ==
  ASSUME RetrySaved
  PROVE  Spec => NoStaleEdit
<1>1. (TypeOK /\ RetriesLeft) /\ RunnerAlone /\ DeliveryInv /\ Settling /\ [Next]_vars =>
        [crashes' = crashes =>
          \A j \in Jobs :
            /\ mem.st[j] \in {"uploading", "sending"} /\ mem'.st[j] # mem.st[j]
                 => pc'[Runner] # pc[Runner]
            /\ mem.st[j] = "confirming" /\ mem'.st[j] # "confirming" => Decides(j)]_vars
  BY StepDecides DEF Moving
<1> QED
  BY <1>1, SettlingAlways, TypeCorrect, StartsAlone, DeliverySafe, PTL DEF Spec, NoStaleEdit

\* The goroutine never moves a record on which the user has decided, or which waits
\* for him: a late end of an attempt does not overwrite MarkSent, Skip or
\* "confirming"; in every store that does not fail a Retry.
THEOREM DecisionsStand ==
  ASSUME RetrySaved
  PROVE  Spec => DecisionStands
<1>1. (TypeOK /\ RetriesLeft) /\ RunnerAlone /\ DeliveryInv /\ Settling /\ [Next]_vars =>
        [pc'[Runner] # pc[Runner] /\ crashes' = crashes =>
          \A j \in Jobs :
            mem.st[j] \in {"confirming", "skipped", "sent"}
              => mem'.st[j] \in {mem.st[j], "absent"}]_vars
  BY StepDecides
<1> QED
  BY <1>1, SettlingAlways, TypeCorrect, StartsAlone, DeliverySafe, PTL DEF Spec, DecisionStands

-----------------------------------------------------------------------------
(* The file and the queue.                                                 *)

\* No edit is in progress, and none has left a removal to the goroutine.
OnlyCommands ==
  /\ \A c \in Callers : call[c].op \notin Edits
  /\ ctl.pending = {}
  /\ run.at # "remove"

\* A snapshot whose revision is current is the queue as it is now.
CurrentIsMem == \A p \in Procs : fresh[p] => cand[p] = mem

\* persistMu is held.
Writing == {"save", "check"}
OneWriter == \A p, q \in Procs : pc[p] \in Writing /\ pc[q] \in Writing => p = q

\* The file holds what the holder of persistMu has just written.
CheckedIsDisk == \A p \in Procs : pc[p] = "check" => disk = cand[p]

\* p will write the queue again before it returns.
WillSave(p) == pc[p] \in {"snap", "lock", "save"} \/ (pc[p] = "check" /\ ~fresh[p])

\* The file holds the queue, or somebody is about to write it.
SavedOrSaving == disk = mem \/ mem = LoadedQueue(disk) \/ \E p \in Procs : WillSave(p)

\* Inductive relative to TypeOK, RunnerAlone, DeliveryInv and Settling, for a store
\* that does not fail and callers that do not edit.
Saved == OnlyCommands /\ CurrentIsMem /\ OneWriter /\ CheckedIsDisk /\ SavedOrSaving

\* Documents with the same fields are equal.
LEMMA SameDocument ==
  ASSUME NEW d \in Document, NEW e \in Document,
         d.st = e.st, d.paused = e.paused, d.channel = e.channel
  PROVE  d = e
BY DEF Document

\* Load changes nothing of a file without records in transfer.
LEMMA LoadedUnchanged ==
  ASSUME NEW d \in Document, \A j \in Jobs : d.st[j] \notin {"uploading", "sending"}
  PROVE  LoadedQueue(d) = d
<1>1. \A j \in Jobs : Recovered(d.st[j]) = d.st[j] BY DEF Recovered
<1>2. [j \in Jobs |-> Recovered(d.st[j])] = d.st BY <1>1 DEF Document
<1>3. /\ LoadedQueue(d).st = d.st /\ LoadedQueue(d).paused = d.paused
      /\ LoadedQueue(d).channel = d.channel
  BY <1>2 DEF LoadedQueue, Document
<1>4. LoadedQueue(d) = [d EXCEPT !.st = d.st] BY <1>2 DEF LoadedQueue
<1> QED BY <1>4 DEF Document

\* A step outside persist: whoever changes the queue advances queueRevision and goes
\* to the head of persist.
LeavesSaving ==
  /\ disk' = disk
  /\ \A p \in Procs :
       \/ pc'[p] = pc[p] /\ cand'[p] = cand[p]
       \/ ~fresh[p] /\ pc[p] \notin {"snap", "lock", "save", "check"}
          /\ pc'[p] \notin {"lock", "save", "check"}
  /\ \/ mem' = mem /\ \A p \in Procs : fresh'[p] => fresh[p]
     \/ (\A p \in Procs : ~fresh'[p]) /\ \E p \in Procs : pc'[p] = "snap"

\* Such a step keeps Saved.
LEMMA FramedSaved ==
  ASSUME Saved, LeavesSaving, OnlyCommands'
  PROVE  Saved'
<1>1. CurrentIsMem' BY DEF Saved, LeavesSaving, CurrentIsMem
<1>2. OneWriter' BY DEF Saved, LeavesSaving, OneWriter, Writing
<1>3. CheckedIsDisk' BY DEF Saved, LeavesSaving, CheckedIsDisk
<1>4. SavedOrSaving'
  <2>1. CASE mem' = mem /\ \A p \in Procs : fresh'[p] => fresh[p]
    <3>1. CASE \E p \in Procs : WillSave(p)
      <4>1. PICK p \in Procs : WillSave(p) BY <3>1
      <4>2. WillSave(p)' BY <2>1, <4>1 DEF LeavesSaving, WillSave
      <4> QED BY <4>2 DEF SavedOrSaving
    <3>2. CASE ~\E p \in Procs : WillSave(p)
      <4>1. disk' = disk /\ mem' = mem BY <2>1 DEF LeavesSaving
      <4>2. disk = mem \/ mem = LoadedQueue(disk) BY <3>2 DEF Saved, SavedOrSaving
      <4>3. LoadedQueue(disk)' = LoadedQueue(disk) BY <4>1 DEF LoadedQueue
      <4> QED BY <4>1, <4>2, <4>3 DEF SavedOrSaving
    <3> QED BY <3>1, <3>2
  <2>2. CASE \E p \in Procs : pc'[p] = "snap" BY <2>2 DEF SavedOrSaving, WillSave
  <2> QED BY <2>1, <2>2 DEF LeavesSaving
<1> QED BY <1>1, <1>2, <1>3, <1>4 DEF Saved

\* Every step of a caller that does not persist is such a step.
LEMMA CallersSave ==
  ASSUME SaveMayFail = FALSE, Ops \cap Edits = {}, TypeOK, RunnerAlone, DeliveryInv, Settling,
         Saved, NEW c \in Callers,
         CallerBegins(c) \/ CallerContinues(c)
  PROVE  LeavesSaving /\ OnlyCommands'
<1>1. c \in Procs /\ Runner \in Procs /\ c # Runner /\ \A d \in Callers : d \in Procs
  BY ConstantsAssumption DEF ConstantsAssumption, Procs
<1>2. pc[c] # "failed" BY <1>1 DEF Settling, NothingFailed
<1>3. call[c].op \notin Edits BY DEF Saved, OnlyCommands
<1>4. \A op \in Edits : op \notin Ops OBVIOUS
<1>5. pc[c] \notin {"lock", "save", "check"} => ~fresh[c]
  BY <1>1, <1>3, <1>1 DEF DeliveryInv, FreshIsCurrent, EditIsCurrent, Plain
<1>6. \A q : Touch(q) => \A p \in Procs : ~fresh'[p] BY TouchFrames
<1>7. ASSUME NEW l, Goto(c, l), l \notin {"lock", "save", "check"},
             pc[c] \notin {"snap", "lock", "save", "check"}, disk' = disk, cand' = cand,
             run' = run, ctl'.pending = ctl.pending,
             \A d \in Callers \ {c} : call'[d].op = call[d].op,
             call'[c].op \notin Edits,
             \/ mem' = mem /\ \A p \in Procs : fresh'[p] => fresh[p]
             \/ l = "snap" /\ \A p \in Procs : ~fresh'[p]
      PROVE  LeavesSaving /\ OnlyCommands'
  <2>1. pc'[c] = l /\ \A p \in Procs \ {c} : pc'[p] = pc[p] BY <1>1, <1>7 DEF Goto, TypeOK
  <2>2. LeavesSaving BY <1>1, <1>7, <1>5, <2>1 DEF LeavesSaving
  <2>3. OnlyCommands' BY <1>7 DEF Saved, OnlyCommands
  <2> QED BY <2>2, <2>3
<1>8. ASSUME NEW op, NEW j, NEW s, Mutate(c, op, j, s) PROVE LeavesSaving /\ OnlyCommands'
  <2>1. call'[c].op = op /\ \A d \in Callers \ {c} : call'[d] = call[d]
    BY <1>8 DEF Mutate, NoCall, TypeOK
  <2>2. op \in Ops /\ pc[c] = "idle" BY <1>8 DEF Mutate, Begin
  <2> QED BY <1>7, <1>4, <1>8, <1>6, <2>1, <2>2 DEF Mutate
<1>9. ASSUME NEW op, NEW b, NEW r, NEW sig, ChangePause(c, op, b, r, sig)
      PROVE LeavesSaving /\ OnlyCommands'
  <2>1. call'[c].op = op /\ \A d \in Callers \ {c} : call'[d] = call[d]
    BY <1>9 DEF ChangePause, NoCall, TypeOK
  <2>2. op \in Ops /\ pc[c] = "idle" BY <1>9 DEF ChangePause, Begin
  <2>3. ctl'.pending = ctl.pending BY <1>9 DEF ChangePause, TypeOK, ControlType
  <2> QED BY <1>7, <1>4, <1>9, <1>6, <2>1, <2>2, <2>3 DEF ChangePause
<1>10. CASE Pause(c) \/ Resume(c) BY <1>10, <1>9 DEF Pause, Resume
<1>11. CASE CancelJob(c)
  <2>1. ASSUME NEW j \in Jobs, CancelActive(c, j) PROVE LeavesSaving /\ OnlyCommands'
    <3>1. call'[c].op = "cancel" /\ \A d \in Callers \ {c} : call'[d] = call[d]
      BY <2>1 DEF CancelActive, NoCall, TypeOK
    <3>2. ctl'.pending = ctl.pending BY <2>1 DEF CancelActive, TypeOK, ControlType
    <3> QED BY <1>7, <2>1, <3>1, <3>2 DEF CancelActive, Begin, revs, Edits
  <2>2. ASSUME NEW j \in Jobs, CancelWaiting(c, j) PROVE LeavesSaving /\ OnlyCommands'
    BY <1>8, <2>2 DEF CancelWaiting
  <2> QED BY <1>11, <2>1, <2>2 DEF CancelJob
<1>12. CASE Retry(c) \/ Skip(c) \/ MarkSent(c) BY <1>12, <1>8 DEF Retry, Skip, MarkSent
<1>13. CASE CancelAll(c) BY <1>13, <1>4 DEF CancelAll, Begin, Edits
<1>14. CASE RemoveJobs(c) \/ RemoveCompleted(c) \/ ResetJobs(c) \/ ApplyUploadLimit(c)
        \/ AddJobs(c) \/ SetChannel(c)
  BY <1>14, <1>4
  DEF RemoveJobs, RemoveCompleted, ResetJobs, ApplyUploadLimit, AddJobs, SetChannel, BeginEdit,
      Begin, Edits, NoCall
<1>15. CASE Start(c)
  <2>1. call'[c].op = "start" /\ \A d \in Callers \ {c} : call'[d].op = call[d].op
    BY <1>15, StartMoves DEF Start, Forget, TypeOK, NoCall
  <2>2. ctl'.pending = ctl.pending BY <1>15 DEF Start, TypeOK, ControlType
  <2>3. CASE IsPaused BY <1>15, <1>7, <1>6, <2>1, <2>2, <2>3 DEF Start, Begin, Edits
  <2>4. CASE ~IsPaused
    <3>1. mem' = mem
      <4>1. mem.paused = FALSE BY <2>4 DEF IsPaused, TypeOK, Document
      <4>2. mem' = [mem EXCEPT !.paused = FALSE] BY <1>15 DEF Start
      <4>3. mem' \in Document BY <4>2 DEF TypeOK, Document
      <4> QED BY <4>1, <4>2, <4>3, SameDocument DEF TypeOK, Document
    <3>2. fresh' = fresh BY <1>15, <2>4 DEF Start, revs
    <3> QED BY <1>15, <1>7, <2>1, <2>2, <3>1, <3>2 DEF Start, Begin, Edits
  <2> QED BY <2>3, <2>4
<1>16. Return(c) => /\ Goto(c, "idle") /\ call'[c].op = "none"
                   /\ \A d \in Callers \ {c} : call'[d] = call[d]
  BY DEF Return, TypeOK, NoCall
<1>17. CASE CallSaved(c)
  <2>1. CASE Return(c) BY <1>17, <1>7, <1>16, <2>1 DEF CallSaved, Edits
  <2>2. CASE Goto(c, "signal") /\ call' = call BY <1>17, <1>7, <1>3, <2>2 DEF CallSaved
  <2> QED BY <1>17, <2>1, <2>2 DEF CallSaved
<1>18. CASE Signal(c)
  <2>1. ctl'.pending = ctl.pending /\ mem' = mem /\ fresh' = fresh
    BY <1>18 DEF Signal, TypeOK, ControlType, revs
  <2>2. CASE Return(c) BY <1>18, <1>7, <1>16, <2>1, <2>2 DEF Signal, Edits
  <2>3. CASE Goto(c, "snap") /\ call' = [call EXCEPT ![c].sig = "none"]
    <3>1. \A d \in Callers : call'[d].op = call[d].op BY <2>3 DEF TypeOK, CallType
    <3> QED BY <1>18, <1>7, <1>3, <2>1, <2>3, <3>1 DEF Signal
  <2> QED BY <1>18, <2>2, <2>3 DEF Signal
<1>19. CASE StartSaved(c)
  <2>1. /\ UNCHANGED <<mem, disk, run, cand, fresh, ctl>> /\ pc[c] = "saved"
        /\ pc'[c] = "idle" /\ pc'[Runner] = "next"
        /\ \A p \in Procs \ {c, Runner} : pc'[p] = pc[p]
        /\ call'[c] = NoCall /\ \A d \in Callers \ {c} : call'[d] = call[d]
    BY <1>1, <1>19 DEF StartSaved, revs, TypeOK
  <2>2. pc[Runner] = "idle" BY <1>19 DEF StartSaved, RunnerAlone
  <2>3. ~fresh[Runner] BY <2>2, RunnerHoldsNothing
  <2>4. LeavesSaving BY <1>1, <1>5, <2>1, <2>2, <2>3 DEF LeavesSaving
  <2>5. OnlyCommands' BY <2>1 DEF Saved, OnlyCommands, NoCall, Edits
  <2> QED BY <2>4, <2>5
<1> QED
  BY <1>2, <1>3, <1>10, <1>11, <1>12, <1>13, <1>14, <1>15, <1>17, <1>18, <1>19
  DEF CallerBegins, CallerContinues, MutationFailed, PauseFailed, EditFailed, StartFailed,
      PrepareEdit, EditNothing, EditChanged, CommitCandidate, CommitRemoval, CommitCancelAll,
      CommitChannel, Committing, Edits

\* So is every step of the goroutine.
LEMMA RunnerSaves ==
  ASSUME TypeOK, RunnerAlone, DeliveryInv, Saved, RunnerSteps
  PROVE  LeavesSaving /\ OnlyCommands'
<1>1. Runner \in Procs /\ Runner \notin Callers /\ Procs = Callers \cup {Runner}
  BY ConstantsAssumption DEF ConstantsAssumption, Procs
<1>2. \A l : Goto(Runner, l) => /\ pc'[Runner] = l
                                /\ \A c \in Callers : pc'[c] = pc[c]
  BY RunnerFrames
<1>3. \A c \in Callers : call'[c].op \notin Edits
  BY RunnerKeepsRunDone DEF Saved, OnlyCommands
<1>4. /\ run \in RunType /\ ctl \in ControlType
      /\ run.at # "remove" /\ ctl.pending = {}
  BY DEF TypeOK, Saved, OnlyCommands
<1>5. Touch(Runner) => \A p \in Procs : ~fresh'[p] BY TouchFrames
<1>6. pc[Runner] \notin {"lock", "save", "check"} => ~fresh[Runner] BY <1>4, RunnerHoldsNothing
<1>7. ASSUME NEW l, Goto(Runner, l), l \notin {"lock", "save", "check"},
             pc[Runner] \notin {"snap", "lock", "save", "check"}, disk' = disk, cand' = cand,
             run'.at # "remove", ctl'.pending = {},
             \/ mem' = mem /\ revs' = revs
             \/ l = "snap" /\ Touch(Runner)
      PROVE  LeavesSaving /\ OnlyCommands'
  <2>1. LeavesSaving BY <1>1, <1>7, <1>2, <1>6, <1>5 DEF LeavesSaving, revs
  <2>2. OnlyCommands' BY <1>7, <1>3 DEF OnlyCommands
  <2> QED BY <2>1, <2>2
<1>8. \A e : [run EXCEPT !.err = e].at = run.at BY <1>4 DEF RunType
<1>9. \A j : ActiveCleared(j).pending = {} /\ PendingCleared(j).pending = {}
  BY <1>4 DEF ActiveCleared, PendingCleared, ControlType
<1>10. ASSUME NEW e, End(e), pc[Runner] \notin {"snap", "lock", "save", "check"}
        PROVE  LeavesSaving /\ OnlyCommands'
  BY <1>7, <1>8, <1>10, <1>4 DEF End, RunnerOnly
<1>11. ASSUME NEW l, RunnerOnly(l), run' = run \/ run' = NoRun,
              pc[Runner] \notin {"snap", "lock", "save", "check"},
              l \notin {"lock", "save", "check"}
       PROVE  LeavesSaving /\ OnlyCommands'
  BY <1>7, <1>11, <1>4 DEF RunnerOnly, NoRun
<1>12. ASSUME RunnerPersist, run'.at # "remove", ctl'.pending = {},
             pc[Runner] \notin {"snap", "lock", "save", "check"}
      PROVE  LeavesSaving /\ OnlyCommands'
  BY <1>7, <1>12 DEF RunnerPersist
<1>13. ASSUME NEW k \in {"unknown", "interrupt", "lost", "fail", "sent"}, NEW s, Conclude(k, s),
             ctl'.pending = {}, pc[Runner] \in {"dispatch", "fail"}
      PROVE  LeavesSaving /\ OnlyCommands'
  <2>1. run'.at = k BY <1>13, <1>4 DEF Conclude, RunType
  <2>2. (mem' = mem /\ revs' = revs) \/ Touch(Runner) BY <1>13 DEF Conclude
  <2>3. Goto(Runner, "snap") /\ disk' = disk /\ cand' = cand BY <1>13 DEF Conclude
  <2> QED BY <1>7, <1>13, <2>1, <2>2, <2>3
<1>14. CASE NextJob
  <2>1. CASE NothingToStart BY <1>14, <2>1, <1>11 DEF NextJob
  <2>2. CASE ~NothingToStart
    <3>1. RunnerOnly("selected") /\ run'.at = "none" /\ pc[Runner] = "next"
      BY <1>14, <2>2 DEF NextJob, NoRun
    <3> QED BY <3>1, <1>7, <1>4 DEF RunnerOnly
  <2> QED BY <2>1, <2>2
<1>15. CASE JobContext
  <2>1. CASE ctl.runDead BY <1>15, <2>1, <1>11 DEF JobContext
  <2>2. CASE ~ctl.runDead
    <3>1. ctl'.pending = {} BY <1>15, <2>2, <1>4 DEF JobContext, ControlType
    <3> QED BY <1>15, <2>2, <3>1, <1>7, <1>4 DEF JobContext
  <2> QED BY <2>1, <2>2
<1>16. CASE BeginAttempt BY <1>16, <1>11, <1>10 DEF BeginAttempt
<1>17. CASE OpenVerifiedJob BY <1>17, <1>11, <1>10 DEF OpenVerifiedJob
<1>18. CASE Reserve
  <2>1. run'.at = "uploading" /\ ctl'.pending = {}
    BY <1>18, <1>4 DEF Reserve, RunType, ControlType
  <2> QED BY <1>18, <2>1, <1>12 DEF Reserve
<1>19. CASE ReserveRefused BY <1>19, <1>10 DEF ReserveRefused
<1>20. CASE ReserveLost \/ PrepareLost BY <1>20, <1>10 DEF ReserveLost, PrepareLost, Persisted
<1>21. CASE Boundary BY <1>21, <1>11, <1>10 DEF Boundary, Persisted
<1>22. CASE UploadParts \/ UploadRejected \/ TransportError \/ TransportCancelled
  BY <1>22, <1>11, <1>10 DEF UploadParts, UploadRejected, TransportError, TransportCancelled
<1>23. CASE PrepareSend
  <2>1. CASE mem.st[run.job] = "uploading"
    <3>1. run'.at = "sending" /\ ctl' = ctl BY <1>23, <2>1, <1>4 DEF PrepareSend, RunType
    <3> QED BY <1>23, <2>1, <3>1, <1>12, <1>4 DEF PrepareSend
  <2>2. CASE mem.st[run.job] # "uploading"
    <3>1. (RunnerOnly("submit") /\ run' = run) \/ End("failed") BY <1>23, <2>2 DEF PrepareSend
    <3> QED BY <1>23, <3>1, <1>11, <1>10 DEF PrepareSend
  <2> QED BY <2>1, <2>2
<1>24. CASE SendPrepared \/ LastCheck \/ SendAnswered
  BY <1>24, <1>11, <1>10 DEF SendPrepared, LastCheck, SendAnswered, Persisted
<1>25. CASE Submit BY <1>25, <1>7, <1>4 DEF Submit
<1>26. CASE BeforeRetry
  <2>1. CASE IsPaused \/ ~Present(run.job) BY <1>26, <2>1, <1>10 DEF BeforeRetry
  <2>2. CASE ~IsPaused /\ Present(run.job)
    <3>1. run'.at = "retry" /\ ctl'.pending = {}
      BY <1>26, <2>2, <1>4 DEF BeforeRetry, RunType, ControlType
    <3> QED BY <1>26, <2>2, <3>1, <1>12 DEF BeforeRetry
  <2> QED BY <2>1, <2>2
<1>27. CASE RetryLost \/ RetryWaitCancelled \/ RetryWaitOver
  <2>1. ASSUME NEW l \in {"ended", "attempt"}, NEW q, RetryWaitEnds(l, q), q.at # "remove"
        PROVE  LeavesSaving /\ OnlyCommands'
    <3>1. ctl'.pending = {} BY <2>1, <1>4 DEF RetryWaitEnds, ControlType
    <3>2. pc[Runner] \in {"saved", "failed"}
      BY <1>27 DEF RetryLost, RetryWaitCancelled, RetryWaitOver, Persisted
    <3> QED BY <2>1, <3>1, <3>2, <1>7 DEF RetryWaitEnds
  <2>2. [run EXCEPT !.retry = @ + 1, !.at = "none"].at = "none" BY <1>4 DEF RunType
  <2>3. CASE RetryLost BY <2>1, <2>3, <1>8, <1>4 DEF RetryLost
  <2>4. CASE RetryWaitCancelled BY <2>1, <2>4, <1>8, <1>4 DEF RetryWaitCancelled
  <2>5. CASE RetryWaitOver BY <2>1, <2>2, <2>5, <1>8, <1>4 DEF RetryWaitOver
  <2> QED BY <1>27, <2>3, <2>4, <2>5
<1>28. CASE AttemptEnded
  <2>1. run'.at = run.at /\ ctl'.pending = {}
    BY <1>28, <1>4 DEF AttemptEnded, RunType, ControlType
  <2> QED BY <1>28, <2>1, <1>7, <1>4 DEF AttemptEnded
<1>29. CASE NotStarted BY <1>29, <1>7, <1>9 DEF NotStarted, NoRun
<1>30. CASE OutcomeUnknown \/ Interrupt \/ FailJob
  BY <1>30, <1>13, <1>9, <1>4 DEF OutcomeUnknown, Interrupt, FailJob
<1>31. CASE PersistenceLost BY <1>31, <1>7, <1>9, <1>4 DEF PersistenceLost
<1>32. CASE Sent
  <2>1. CASE Present(run.job) BY <1>32, <2>1, <1>13, <1>4 DEF Sent
  <2>2. CASE ~Present(run.job) BY <1>32, <2>2, <1>11 DEF Sent
  <2> QED BY <2>1, <2>2
<1>33. CASE FinishUnlessPending
  BY <1>33, <1>7, <1>9, <1>4 DEF FinishUnlessPending, AfterJob, NoRun
<1>34. CASE TerminalLost BY <1>34, <1>7, <1>8, <1>9, <1>4 DEF TerminalLost
<1>35. CASE StopAfterSave BY <1>35, <1>11 DEF StopAfterSave
<1>36. ~(PrepareRemoval \/ RemovedByOther \/ RemovalFailed \/ RemovalChanged \/ CommitPending)
  BY <1>4
  DEF PrepareRemoval, RemovedByOther, RemovalFailed, RemovalChanged, CommitPending, Persisted
<1>37. CASE FinishActiveJob BY <1>37, <1>7, <1>9 DEF FinishActiveJob, AfterJob, NoRun
<1>38. CASE Cleanup
  <2>1. run'.at = "final" /\ ctl'.pending = {} BY <1>38, <1>4 DEF Cleanup, NoRun, NoControl
  <2> QED BY <1>38, <2>1, <1>7 DEF Cleanup
<1>39. CASE CloseRunDone
  <2>1. run'.at = "none" /\ ctl'.pending = {}
    BY <1>39, <1>4 DEF CloseRunDone, NoRun, ControlType
  <2> QED BY <1>39, <2>1, <1>7 DEF CloseRunDone
<1> QED
  BY <1>14, <1>15, <1>16, <1>17, <1>18, <1>19, <1>20, <1>21, <1>22, <1>23, <1>24, <1>25, <1>26,
     <1>27, <1>28, <1>29, <1>30, <1>31, <1>32, <1>33, <1>34, <1>35, <1>36, <1>37, <1>38, <1>39
  DEF RunnerSteps

\* persist leaves its loop only when the file holds the queue, or with somebody else
\* still in it.
LEMMA PersistingSaves ==
  ASSUME SaveMayFail = FALSE, TypeOK, Saved, NEW p \in Procs, Persisting(p)
  PROVE  Saved'
<1> USE DEF Saved, TypeOK
<1>1. ~SaveFails(p) BY DEF SaveFails
<1>2. UNCHANGED <<mem, ctl, run, call>>
  BY <1>1 DEF Persisting, PersistSnapshot, Prepare, LockAndCheck, SaveSucceeds, Recheck
<1>3. OnlyCommands' BY <1>2 DEF OnlyCommands
<1>4. Plain(p) BY DEF OnlyCommands, Plain, Procs
<1>5. \A l : Goto(p, l) => pc'[p] = l /\ \A q \in Procs \ {p} : pc'[q] = pc[q]
  BY DEF Goto
<1>6. disk' = disk => LoadedQueue(disk)' = LoadedQueue(disk) BY DEF LoadedQueue
<1>7. CASE PersistSnapshot(p)
  <2>1. /\ pc'[p] = "lock" /\ pc[p] = "snap" /\ disk' = disk
        /\ cand' = [cand EXCEPT ![p] = mem] /\ fresh' = [fresh EXCEPT ![p] = TRUE]
    BY <1>5, <1>7 DEF PersistSnapshot, Prepare
  <2>2. \A q \in Procs \ {p} : pc'[q] = pc[q] /\ cand'[q] = cand[q] /\ fresh'[q] = fresh[q]
    BY <1>5, <1>7, <2>1 DEF PersistSnapshot, Prepare
  <2>3. CurrentIsMem' BY <1>2, <2>1, <2>2 DEF CurrentIsMem
  <2>4. OneWriter' /\ CheckedIsDisk' BY <2>1, <2>2 DEF OneWriter, CheckedIsDisk, Writing
  <2>5. SavedOrSaving' BY <2>1 DEF SavedOrSaving, WillSave
  <2> QED BY <1>3, <2>3, <2>4, <2>5
<1>8. CASE LockAndCheck(p)
  <2>1. /\ pc'[p] \in {"save", "snap"} /\ pc[p] = "lock" /\ disk' = disk /\ PersistMuFree
        /\ \A q \in Procs \ {p} : pc'[q] = pc[q] /\ cand'[q] = cand[q]
        /\ fresh' = fresh /\ (fresh[p] => cand' = cand)
    BY <1>5, <1>8 DEF LockAndCheck, revs
  <2>2. CurrentIsMem' BY <1>2, <2>1 DEF CurrentIsMem
  <2>3. OneWriter' /\ CheckedIsDisk'
    BY <2>1 DEF OneWriter, CheckedIsDisk, Writing, PersistMuFree
  <2>4. SavedOrSaving' BY <2>1 DEF SavedOrSaving, WillSave
  <2> QED BY <1>3, <2>2, <2>3, <2>4
<1>9. CASE SaveSucceeds(p)
  <2>1. /\ pc'[p] = "check" /\ pc[p] = "save" /\ disk' = cand[p]
        /\ \A q \in Procs \ {p} : pc'[q] = pc[q]
        /\ fresh' = fresh /\ cand' = cand
    BY <1>5, <1>9 DEF SaveSucceeds, revs
  <2>2. CurrentIsMem' BY <1>2, <2>1 DEF CurrentIsMem
  <2>3. OneWriter' /\ CheckedIsDisk' BY <2>1 DEF OneWriter, CheckedIsDisk, Writing
  <2>4. fresh[p] => disk' = mem' BY <1>2, <2>1 DEF CurrentIsMem
  <2>5. ~fresh[p] => WillSave(p)' BY <2>1 DEF WillSave
  <2>6. SavedOrSaving' BY <2>4, <2>5 DEF SavedOrSaving
  <2> QED BY <1>3, <2>2, <2>3, <2>6
<1>10. CASE Recheck(p)
  <2>1. /\ pc'[p] = (IF fresh[p] THEN "saved" ELSE "snap") /\ pc[p] = "check" /\ disk' = disk
        /\ \A q \in Procs \ {p} : pc'[q] = pc[q] /\ cand'[q] = cand[q] /\ fresh'[q] = fresh[q]
        /\ ~fresh'[p]
    BY <1>4, <1>5, <1>10 DEF Recheck
  <2>2. CurrentIsMem' BY <1>2, <2>1 DEF CurrentIsMem
  <2>3. OneWriter' /\ CheckedIsDisk' BY <2>1 DEF OneWriter, CheckedIsDisk, Writing
  <2>4. fresh[p] => disk' = mem' BY <1>2, <2>1 DEF CurrentIsMem, CheckedIsDisk
  <2>5. ~fresh[p] => WillSave(p)' BY <2>1 DEF WillSave
  <2>6. SavedOrSaving' BY <2>4, <2>5 DEF SavedOrSaving
  <2> QED BY <1>3, <2>2, <2>3, <2>6
<1> QED BY <1>1, <1>7, <1>8, <1>9, <1>10 DEF Persisting

\* After a start of the process memory is what Load makes of the file.
LEMMA LoadedSaved ==
  ASSUME Loaded, ctl = NoControl, run = NoRun
  PROVE  Saved
BY DEF Loaded, Saved, OnlyCommands, CurrentIsMem, OneWriter, CheckedIsDisk, SavedOrSaving,
       Writing, NoCall, NoControl, NoRun, Edits, Procs

\* Saved is inductive relative to the invariants above.
LEMMA SavedNext ==
  ASSUME SaveMayFail = FALSE, Ops \cap Edits = {},
         TypeOK, RunnerAlone, DeliveryInv, Settling, Saved, [Next]_vars
  PROVE  Saved'
<1>1. ASSUME NEW c \in Callers, CallerBegins(c) \/ CallerContinues(c) PROVE Saved'
  BY <1>1, CallersSave, FramedSaved
<1>2. ASSUME RunnerSteps PROVE Saved' BY <1>2, RunnerSaves, FramedSaved
<1>3. ASSUME NEW p \in Procs, Persisting(p) PROVE Saved' BY <1>3, PersistingSaves
<1>4. ASSUME UNCHANGED <<mem, disk, run, call, pc, cand, revs>>, ctl'.pending = ctl.pending
      PROVE  Saved'
  <2>1. LeavesSaving BY <1>4 DEF LeavesSaving, revs
  <2>2. OnlyCommands' BY <1>4 DEF Saved, OnlyCommands
  <2> QED BY <2>1, <2>2, FramedSaved
<1>5. ASSUME Crash PROVE Saved'
  <2>1. Loaded' BY <1>5, CrashLoads
  <2>2. (ctl = NoControl)' /\ (run = NoRun)' BY <1>5 DEF Crash, NoControl, NoRun
  <2> QED BY <2>1, <2>2, LoadedSaved, PTL
<1>6. Shutdown => ctl'.pending = ctl.pending BY DEF Shutdown, TypeOK, ControlType
<1> QED BY <1>1, <1>2, <1>3, <1>4, <1>5, <1>6 DEF Next, Rest, Shutdown, vars, revs

\* When nothing runs, nobody will save, so the file holds the queue.
LEMMA QuietSaved ==
  ASSUME TypeOK, Settling, Saved
  PROVE  RestartShowsQueue
<1> SUFFICES ASSUME Quiet PROVE mem = LoadedQueue(disk) BY DEF RestartShowsQueue
<1>1. Runner \in Procs BY DEF Procs
<1>2. disk = mem \/ mem = LoadedQueue(disk) BY DEF Quiet, Saved, SavedOrSaving, WillSave
<1>3. \A j \in Jobs : mem.st[j] \notin {"uploading", "sending"}
  BY <1>1 DEF Quiet, Settling, MovingHeld, Moving, WithRecord, RecordPoints, PersistPoints
<1>4. LoadedQueue(mem) = mem BY <1>3, LoadedUnchanged DEF TypeOK
<1>5. disk = mem => LoadedQueue(disk) = LoadedQueue(mem) BY DEF LoadedQueue
<1> QED BY <1>2, <1>4, <1>5

\* When nothing runs a restart shows the queue that the user sees: among commands and
\* the goroutine no persist overwrites a newer one and none returns too early.  Edits
\* are excluded, for which this is false (UQPublish), and so are failing saves.
THEOREM RestartShows ==
  ASSUME SaveMayFail = FALSE, Ops \cap Edits = {}
  PROVE  Spec => []RestartShowsQueue
<1>1. Init => Saved BY InitLoads, LoadedSaved DEF Init
<1>2. (TypeOK /\ RetriesLeft) /\ RunnerAlone /\ DeliveryInv /\ Settling /\ Saved /\ [Next]_vars
      => Saved'
  BY SavedNext
<1>3. (TypeOK /\ RetriesLeft) /\ Settling /\ Saved => RestartShowsQueue BY QuietSaved
<1>4. RetrySaved BY DEF RetrySaved
<1>5. Spec => []Settling BY <1>4, SettlingAlways
<1> QED BY <1>1, <1>2, <1>3, <1>5, TypeCorrect, StartsAlone, DeliverySafe, PTL DEF Spec
=============================================================================
