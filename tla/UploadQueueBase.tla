-------------------------- MODULE UploadQueueBase --------------------------
(***************************************************************************)
(* What the proofs about UploadQueue rest on, for every value of its       *)
(* constants: its variables keep their types, and a run is never started   *)
(* beside another one (RunnerAlone, inductive together with TypeOK).       *)
(* For the types lemmas about the helpers come first; then one lemma for   *)
(* the callers, one for the upload goroutine and one for persist, each     *)
(* with one step per action.                                               *)
(***************************************************************************)
EXTENDS UploadQueue, TLAPS

-----------------------------------------------------------------------------
(* Lemmas about the values the actions build.                              *)

\* A document stays a document when one record, all records or the pause flag
\* are replaced.
LEMMA DocumentUpdate ==
  ASSUME NEW d \in Document
  PROVE  /\ \A j, s : s \in JobState => [d EXCEPT !.st[j] = s] \in Document
         /\ \A st \in [Jobs -> JobState] : [d EXCEPT !.st = st] \in Document
         /\ \A b \in BOOLEAN : [d EXCEPT !.paused = b] \in Document
         /\ d.st \in [Jobs -> JobState] /\ d.paused \in BOOLEAN
         /\ d.channel \in Channels \cup {NoChannel}
BY DEF Document

\* The empty values have their types.
LEMMA EmptyTypes ==
  /\ NoCall \in CallType
  /\ NoRun \in RunType
  /\ EmptyDocument \in Document
  /\ NoControl \in ControlType
<1>1. NoCall \in CallType BY DEF NoCall, CallType, JobState, NoJob, NoChannel
<1>2. NoRun \in RunType
  BY ConstantsAssumption DEF ConstantsAssumption, NoRun, RunType, NoJob, NoChannel
<1>3. EmptyDocument \in Document BY DEF EmptyDocument, Document, JobState, NoChannel
<1>4. NoControl \in ControlType BY DEF NoControl, ControlType, NoJob
<1> QED BY <1>1, <1>2, <1>3, <1>4

\* The helpers of the actions keep the types of what they change.
LEMMA HelperTypes ==
  ASSUME TypeOK
  PROVE  /\ \A j, s : s \in JobState /\ SetJob(j, s) => mem' \in Document
         /\ \A p : Touch(p) => /\ fresh' \in [Procs -> BOOLEAN]
                              /\ own' \in [Callers -> BOOLEAN]
         /\ \A p : TouchPause(p) => pown' \in [Callers -> BOOLEAN]
         /\ \A j : ActiveCleared(j) \in ControlType /\ PendingCleared(j) \in ControlType
         /\ \A sig : Forget(sig) \in [Callers -> CallType]
<1> USE DEF TypeOK
<1>1. \A j, s : s \in JobState /\ SetJob(j, s) => mem' \in Document
  BY DocumentUpdate DEF SetJob
<1>2. \A p : Touch(p) => fresh' \in [Procs -> BOOLEAN] /\ own' \in [Callers -> BOOLEAN]
  BY DEF Touch
<1>3. \A p : TouchPause(p) => pown' \in [Callers -> BOOLEAN]
  BY DEF TouchPause
<1>4. \A j : ActiveCleared(j) \in ControlType
  BY DEF ActiveCleared, ControlType, NoJob
<1>5. \A j : PendingCleared(j) \in ControlType
  BY DEF PendingCleared, ControlType
<1>6. \A sig : Forget(sig) \in [Callers -> CallType]
  <2> TAKE sig
  <2>1. \A c \in Callers : [call[c] EXCEPT !.sig = "none"] \in CallType
    BY DEF CallType
  <2> QED BY <2>1 DEF Forget
<1> QED BY <1>1, <1>2, <1>3, <1>4, <1>5, <1>6

\* Every edit prepares a document.
LEMMA CandidateType ==
  ASSUME TypeOK, NEW c \in Callers
  PROVE  Candidate(c) \in Document
<1>1. call[c] \in CallType /\ mem \in Document BY DEF TypeOK
<1>2. \A j \in Jobs : Edited(c, j) \in JobState
  <2> TAKE j \in Jobs
  <2>1. mem.st[j] \in JobState /\ call[c].state \in JobState
    BY <1>1 DEF Document, CallType
  <2> QED BY <2>1 DEF Edited, JobState
<1> QED BY <1>1, <1>2 DEF Candidate, Document, CallType

-----------------------------------------------------------------------------
(* Lemmas about the helpers that are whole steps.                          *)

\* A caller's call returns or goes on with well-typed locals.
LEMMA CallerMoves ==
  ASSUME TypeOK, NEW c \in Callers
  PROVE  /\ Return(c) => /\ call' \in [Callers -> CallType]
                         /\ pc' \in [Procs -> CallerPoints \cup RunnerPoints]
                         /\ opMu' \in Callers \cup {NoCaller}
         /\ \A l \in CallerPoints :
              Goto(c, l) => pc' \in [Procs -> CallerPoints \cup RunnerPoints]
         /\ \A sig \in {"none", "job", "run"} :
              call' = [call EXCEPT ![c].sig = sig] => call' \in [Callers -> CallType]
         /\ \A r \in CallType : [call EXCEPT ![c] = r] \in [Callers -> CallType]
<1> USE DEF TypeOK
<1>1. \A l \in CallerPoints :
        Goto(c, l) => pc' \in [Procs -> CallerPoints \cup RunnerPoints]
  BY DEF Goto, Procs
<1>2. \A r \in CallType : [call EXCEPT ![c] = r] \in [Callers -> CallType]
  OBVIOUS
<1>3. \A sig \in {"none", "job", "run"} :
        call' = [call EXCEPT ![c].sig = sig] => call' \in [Callers -> CallType]
  <2> TAKE sig \in {"none", "job", "run"}
  <2>1. [call[c] EXCEPT !.sig = sig] \in CallType BY DEF CallType
  <2> QED BY <2>1
<1>4. Return(c) => /\ call' \in [Callers -> CallType]
                   /\ pc' \in [Procs -> CallerPoints \cup RunnerPoints]
                   /\ opMu' \in Callers \cup {NoCaller}
  BY <1>1, <1>2, EmptyTypes DEF Return, CallerPoints
<1> QED BY <1>1, <1>2, <1>3, <1>4

\* A call begins with well-typed locals.
LEMMA BeginTypes ==
  ASSUME TypeOK, NEW c \in Callers
  PROVE  /\ \A op : Begin(c, op) => calls' \in 0..MaxCalls /\ op \in AllOps
         /\ \A op, j, s : j \in Jobs /\ s \in JobState /\ Mutate(c, op, j, s)
              /\ outcome' \in [Jobs -> {"none", "open", "skipped"}] => TypeOK'
         /\ \A request \in CallType :
              BeginEdit(c, request) /\ used' \subseteq Jobs => TypeOK'
<1> USE DEF TypeOK
<1>1. \A op : Begin(c, op) => calls' \in 0..MaxCalls /\ op \in AllOps
  BY ConstantsAssumption DEF ConstantsAssumption, Begin
<1>2. ASSUME NEW op, NEW j \in Jobs, NEW s \in JobState, Mutate(c, op, j, s),
             outcome' \in [Jobs -> {"none", "open", "skipped"}]
      PROVE  TypeOK'
  <2>1. mem' \in Document BY <1>2, HelperTypes DEF Mutate
  <2>2. fresh' \in [Procs -> BOOLEAN] /\ own' \in [Callers -> BOOLEAN]
    BY <1>2, HelperTypes DEF Mutate
  <2>3. calls' \in 0..MaxCalls /\ op \in AllOps BY <1>1, <1>2 DEF Mutate
  <2>4. [NoCall EXCEPT !.op = op, !.job = j, !.state = mem.st[j]] \in CallType
    <3>1. mem.st[j] \in JobState BY DEF Document
    <3> QED BY <2>3, <3>1, EmptyTypes DEF CallType
  <2>5. call' \in [Callers -> CallType] BY <1>2, <2>4, CallerMoves DEF Mutate
  <2>6. pc' \in [Procs -> CallerPoints \cup RunnerPoints]
    BY <1>2, CallerMoves DEF Mutate, CallerPoints, PersistPoints
  <2> QED BY <1>2, <2>1, <2>2, <2>3, <2>5, <2>6 DEF Mutate, Begin
<1>3. ASSUME NEW request \in CallType, BeginEdit(c, request), used' \subseteq Jobs
      PROVE  TypeOK'
  <2>1. calls' \in 0..MaxCalls BY <1>1, <1>3 DEF BeginEdit
  <2>2. call' \in [Callers -> CallType] BY <1>3, CallerMoves DEF BeginEdit
  <2>3. pc' \in [Procs -> CallerPoints \cup RunnerPoints]
    BY <1>3, CallerMoves DEF BeginEdit, CallerPoints, PersistPoints
  <2> QED BY <1>3, <2>1, <2>2, <2>3 DEF BeginEdit, Begin, revs
<1> QED BY <1>1, <1>2, <1>3

\* A change of the pause flags is well-typed.
LEMMA ChangePauseTypes ==
  ASSUME TypeOK, NEW c \in Callers, NEW op, NEW paused \in BOOLEAN,
         NEW requested \in BOOLEAN, NEW sig \in {"none", "job"},
         ChangePause(c, op, paused, requested, sig)
  PROVE  TypeOK'
<1> USE DEF TypeOK
<1>1. calls' \in 0..MaxCalls /\ op \in AllOps BY BeginTypes DEF ChangePause
<1>2. mem' \in Document BY DocumentUpdate DEF ChangePause
<1>3. ctl' \in ControlType BY DEF ChangePause, ControlType
<1>4. call' \in [Callers -> CallType]
  <2>1. mem.paused \in BOOLEAN /\ ctl.pauseRequested \in BOOLEAN
    BY DEF Document, ControlType
  <2>2. [NoCall EXCEPT !.op = op, !.was = mem.paused, !.wasReq = ctl.pauseRequested,
                       !.sig = sig] \in CallType
    BY <1>1, <2>1, EmptyTypes DEF CallType
  <2> QED BY <2>2, CallerMoves DEF ChangePause
<1>5. pc' \in [Procs -> CallerPoints \cup RunnerPoints]
  BY CallerMoves DEF ChangePause, CallerPoints, PersistPoints
<1>6. fresh' \in [Procs -> BOOLEAN] /\ own' \in [Callers -> BOOLEAN]
      /\ pown' \in [Callers -> BOOLEAN]
  BY HelperTypes DEF ChangePause
<1>7. opMu' \in Callers \cup {NoCaller} BY DEF ChangePause, MaybeExclusive
<1> QED BY <1>1, <1>2, <1>3, <1>4, <1>5, <1>6, <1>7 DEF ChangePause, Begin

\* Marking the active record for removal keeps the type of ctl.
LEMMA MarkedType ==
  ASSUME TypeOK, NEW c \in Callers, NEW st
  PROVE  MarkedForRemoval(c, ctl, st) \in ControlType
<1>1. ctl \in ControlType BY DEF TypeOK
<1> QED BY <1>1 DEF MarkedForRemoval, ControlType

-----------------------------------------------------------------------------
(* One step per action: the beginning of a call.                           *)

\* Beginning a call keeps the types.
LEMMA CallerBeginsType ==
  ASSUME TypeOK, NEW c \in Callers, CallerBegins(c)
  PROVE  TypeOK'
<1> USE DEF TypeOK
<1>1. ASSUME Start(c) PROVE TypeOK'
  <2>1. calls' \in 0..MaxCalls BY <1>1, BeginTypes DEF Start
  <2>2. mem' \in Document BY <1>1, DocumentUpdate DEF Start
  <2>3. ctl' \in ControlType BY <1>1 DEF Start, ControlType, NoJob
  <2>4. call' \in [Callers -> CallType]
    <3>1. IsPaused \in BOOLEAN BY DEF IsPaused, Document, ControlType
    <3>2. [NoCall EXCEPT !.op = "start", !.was = IsPaused] \in CallType
      BY <3>1, EmptyTypes DEF CallType, AllOps
    <3> QED BY <1>1, <3>2, HelperTypes DEF Start
  <2>5. pc' \in [Procs -> CallerPoints \cup RunnerPoints]
    BY <1>1, CallerMoves DEF Start, CallerPoints, PersistPoints
  <2>6. fresh' \in [Procs -> BOOLEAN] /\ own' \in [Callers -> BOOLEAN]
        /\ pown' \in [Callers -> BOOLEAN]
    BY <1>1, HelperTypes DEF Start, revs
  <2> QED BY <1>1, <2>1, <2>2, <2>3, <2>4, <2>5, <2>6 DEF Start, Begin
<1>2. ASSUME Pause(c) PROVE TypeOK'
  <2>1. (ctl.running \/ ctl.pauseRequested) \in BOOLEAN OBVIOUS
  <2> QED BY <1>2, <2>1, ChangePauseTypes DEF Pause
<1>3. ASSUME Resume(c) PROVE TypeOK'
  BY <1>3, ChangePauseTypes DEF Resume
<1>4. ASSUME NEW j \in Jobs, CancelActive(c, j) PROVE TypeOK'
  <2>1. calls' \in 0..MaxCalls BY <1>4, BeginTypes DEF CancelActive
  <2>2. ctl' \in ControlType BY <1>4 DEF CancelActive, ControlType
  <2>3. [NoCall EXCEPT !.op = "cancel", !.job = j, !.sig = "job"] \in CallType
    BY EmptyTypes DEF CallType, AllOps
  <2>4. call' \in [Callers -> CallType] BY <1>4, <2>3, CallerMoves DEF CancelActive
  <2>5. pc' \in [Procs -> CallerPoints \cup RunnerPoints]
    BY <1>4, CallerMoves DEF CancelActive, CallerPoints
  <2> QED BY <1>4, <2>1, <2>2, <2>4, <2>5 DEF CancelActive, Begin, revs
<1>5. ASSUME NEW j \in Jobs, CancelWaiting(c, j) PROVE TypeOK'
  BY <1>5, BeginTypes DEF CancelWaiting, JobState
<1>6. ASSUME CancelAll(c) PROVE TypeOK'
  <2>1. calls' \in 0..MaxCalls BY <1>6, BeginTypes DEF CancelAll
  <2>2. \A sig \in {"none", "run"} :
          [NoCall EXCEPT !.op = "cancelAll", !.sig = sig] \in CallType
    BY EmptyTypes DEF CallType, AllOps
  <2>3. call' \in [Callers -> CallType] BY <1>6, <2>2, CallerMoves DEF CancelAll
  <2>4. pc' \in [Procs -> CallerPoints \cup RunnerPoints]
    BY <1>6, CallerMoves DEF CancelAll, CallerPoints, PersistPoints
  <2> QED BY <1>6, <2>1, <2>3, <2>4 DEF CancelAll, Begin, revs
<1>7. ASSUME Retry(c) PROVE TypeOK'
  <2>1. outcome' \in [Jobs -> {"none", "open", "skipped"}] BY <1>7 DEF Retry
  <2> QED BY <1>7, <2>1, BeginTypes DEF Retry, JobState
<1>8. ASSUME Skip(c) PROVE TypeOK'
  <2>1. outcome' \in [Jobs -> {"none", "open", "skipped"}] BY <1>8 DEF Skip
  <2> QED BY <1>8, <2>1, BeginTypes DEF Skip, JobState
<1>9. ASSUME MarkSent(c) PROVE TypeOK'
  BY <1>9, BeginTypes DEF MarkSent, JobState
<1>10. ASSUME RemoveJobs(c) PROVE TypeOK'
  <2>1. \A sel \in SUBSET Jobs : [NoCall EXCEPT !.op = "remove", !.sel = sel] \in CallType
    BY EmptyTypes DEF CallType, AllOps
  <2> QED BY <1>10, <2>1, BeginTypes DEF RemoveJobs
<1>11. ASSUME RemoveCompleted(c) PROVE TypeOK'
  <2>1. [NoCall EXCEPT !.op = "removeCompleted"] \in CallType
    BY EmptyTypes DEF CallType, AllOps
  <2> QED BY <1>11, <2>1, BeginTypes DEF RemoveCompleted
<1>12. ASSUME ResetJobs(c) PROVE TypeOK'
  <2>1. \A mode \in ResetModes, sel \in SUBSET Jobs :
          [NoCall EXCEPT !.op = "reset", !.mode = mode, !.sel = sel] \in CallType
    BY EmptyTypes DEF CallType, AllOps
  <2> QED BY <1>12, <2>1, BeginTypes DEF ResetJobs
<1>13. ASSUME ApplyUploadLimit(c) PROVE TypeOK'
  <2>1. \A limit \in 0..N :
          [NoCall EXCEPT !.op = "limit", !.sel = {j \in Jobs : j > limit}] \in CallType
    BY EmptyTypes DEF CallType, AllOps
  <2> QED BY <1>13, <2>1, BeginTypes DEF ApplyUploadLimit
<1>14. ASSUME AddJobs(c) PROVE TypeOK'
  <2>1. \A j \in Jobs, s \in {"queued", "oversize"} :
          [NoCall EXCEPT !.op = "add", !.sel = {j}, !.state = s] \in CallType
    BY EmptyTypes DEF CallType, AllOps, JobState
  <2> QED BY <1>14, <2>1, BeginTypes DEF AddJobs
<1>15. ASSUME SetChannel(c) PROVE TypeOK'
  <2>1. \A ch \in Channels : [NoCall EXCEPT !.op = "setChannel", !.chan = ch] \in CallType
    BY EmptyTypes DEF CallType, AllOps
  <2> QED BY <1>15, <2>1, BeginTypes DEF SetChannel
<1> QED
  BY <1>1, <1>2, <1>3, <1>4, <1>5, <1>6, <1>7, <1>8, <1>9, <1>10, <1>11, <1>12,
     <1>13, <1>14, <1>15
  DEF CallerBegins, CancelJob

-----------------------------------------------------------------------------
(* One step per action: the rest of a call.                                *)

\* The end of an edit that publishes its candidate.
LEMMA CommittingTypes ==
  ASSUME TypeOK, NEW c \in Callers, NEW ops, Committing(c, ops)
  PROVE  /\ fresh' \in [Procs -> BOOLEAN] /\ own' \in [Callers -> BOOLEAN]
         /\ cand' \in [Procs -> Document]
         /\ [mem EXCEPT !.st = cand[c].st] \in Document
         /\ \A b \in BOOLEAN : [mem EXCEPT !.st = cand[c].st, !.paused = b] \in Document
<1> USE DEF TypeOK
<1>1. cand[c] \in Document BY DEF Procs
<1>2. [mem EXCEPT !.st = cand[c].st] \in Document
      /\ \A b \in BOOLEAN : [mem EXCEPT !.st = cand[c].st, !.paused = b] \in Document
  BY <1>1 DEF Document
<1>3. fresh' \in [Procs -> BOOLEAN] /\ own' \in [Callers -> BOOLEAN]
  BY HelperTypes DEF Committing
<1>4. cand' \in [Procs -> Document] BY EmptyTypes DEF Committing
<1> QED BY <1>2, <1>3, <1>4

\* Continuing a call keeps the types.
LEMMA CallerContinuesType ==
  ASSUME TypeOK, NEW c \in Callers, CallerContinues(c)
  PROVE  TypeOK'
<1> USE DEF TypeOK
<1>0. call[c] \in CallType /\ c \in Procs BY DEF Procs
<1>1. ASSUME MutationFailed(c) PROVE TypeOK'
  <2>1. mem' \in Document BY <1>0, <1>1, HelperTypes DEF MutationFailed, CallType
  <2>2. fresh' \in [Procs -> BOOLEAN] /\ own' \in [Callers -> BOOLEAN]
    BY <1>1, HelperTypes DEF MutationFailed, revs
  <2> QED BY <1>1, <2>1, <2>2, CallerMoves DEF MutationFailed, budget
<1>2. ASSUME CallSaved(c) PROVE TypeOK'
  <2>1. call' \in [Callers -> CallType] /\ opMu' \in Callers \cup {NoCaller}
        /\ pc' \in [Procs -> CallerPoints \cup RunnerPoints]
    BY <1>2, CallerMoves DEF CallSaved, CallerPoints
  <2> QED BY <1>2, <2>1 DEF CallSaved, budget
<1>3. ASSUME Signal(c) PROVE TypeOK'
  <2>1. ctl' \in ControlType BY <1>3 DEF Signal, ControlType
  <2>2. call' \in [Callers -> CallType] /\ opMu' \in Callers \cup {NoCaller}
        /\ pc' \in [Procs -> CallerPoints \cup RunnerPoints]
    BY <1>3, CallerMoves DEF Signal, CallerPoints, PersistPoints
  <2> QED BY <1>3, <2>1, <2>2 DEF Signal, revs, budget
<1>4. ASSUME PauseFailed(c) PROVE TypeOK'
  <2>1. call[c].was \in BOOLEAN /\ call[c].wasReq \in BOOLEAN BY <1>0 DEF CallType
  <2>2. mem' \in Document BY <1>4, <2>1, DocumentUpdate DEF PauseFailed
  <2>3. ctl' \in ControlType BY <1>4, <2>1 DEF PauseFailed, ControlType
  <2>4. pown' \in [Callers -> BOOLEAN] BY <1>4, HelperTypes DEF PauseFailed
  <2> QED BY <1>4, <2>2, <2>3, <2>4, CallerMoves DEF PauseFailed, revs, budget
<1>5. ASSUME PrepareEdit(c) PROVE TypeOK'
  <2>1. cand' \in [Procs -> Document] BY <1>5, CandidateType DEF PrepareEdit, Prepare
  <2>2. pc' \in [Procs -> CallerPoints \cup RunnerPoints]
    BY <1>5, CallerMoves DEF PrepareEdit, Prepare, CallerPoints, PersistPoints
  <2> QED BY <1>5, <2>1, <2>2 DEF PrepareEdit, Prepare, budget
<1>6. ASSUME EditNothing(c) PROVE TypeOK'
  <2>1. ctl' \in ControlType BY <1>6, MarkedType DEF EditNothing
  <2>2. call' \in [Callers -> CallType] /\ opMu' \in Callers \cup {NoCaller}
        /\ pc' \in [Procs -> CallerPoints \cup RunnerPoints]
    BY <1>6, CallerMoves DEF EditNothing, ReturnOrSignal, CallerPoints
  <2> QED BY <1>6, <2>1, <2>2 DEF EditNothing, revs, budget
<1>7. ASSUME EditFailed(c) PROVE TypeOK'
  BY <1>7, CallerMoves DEF EditFailed, revs, budget
<1>8. ASSUME EditChanged(c) PROVE TypeOK'
  <2>1. cand' \in [Procs -> Document] BY <1>8, EmptyTypes DEF EditChanged
  <2>2. pc' \in [Procs -> CallerPoints \cup RunnerPoints]
    BY <1>8, CallerMoves DEF EditChanged, CallerPoints, PersistPoints
  <2> QED BY <1>8, <2>1, <2>2 DEF EditChanged, revs, budget
<1>9. ASSUME CommitCandidate(c) PROVE TypeOK'
  <2>1. mem' \in Document /\ fresh' \in [Procs -> BOOLEAN]
        /\ own' \in [Callers -> BOOLEAN] /\ cand' \in [Procs -> Document]
    BY <1>9, CommittingTypes DEF CommitCandidate
  <2>2. outcome' \in [Jobs -> {"none", "open", "skipped"}] BY <1>9 DEF CommitCandidate
  <2> QED BY <1>9, <2>1, <2>2, CallerMoves DEF CommitCandidate, Committing, budget
<1>10. ASSUME CommitRemoval(c) PROVE TypeOK'
  <2>1. mem' \in Document /\ fresh' \in [Procs -> BOOLEAN]
        /\ own' \in [Callers -> BOOLEAN] /\ cand' \in [Procs -> Document]
    BY <1>10, CommittingTypes DEF CommitRemoval
  <2>2. ctl' \in ControlType BY <1>10, MarkedType DEF CommitRemoval
  <2>3. call' \in [Callers -> CallType] /\ opMu' \in Callers \cup {NoCaller}
        /\ pc' \in [Procs -> CallerPoints \cup RunnerPoints]
    BY <1>10, CallerMoves DEF CommitRemoval, ReturnOrSignal, CallerPoints
  <2> QED BY <1>10, <2>1, <2>2, <2>3 DEF CommitRemoval, Committing, budget
<1>11. ASSUME CommitCancelAll(c) PROVE TypeOK'
  <2>1. mem' \in Document /\ fresh' \in [Procs -> BOOLEAN]
        /\ own' \in [Callers -> BOOLEAN] /\ cand' \in [Procs -> Document]
    BY <1>11, CommittingTypes DEF CommitCancelAll
  <2>2. ctl' \in ControlType BY <1>11 DEF CommitCancelAll, ControlType
  <2>3. call' \in [Callers -> CallType] /\ opMu' \in Callers \cup {NoCaller}
        /\ pc' \in [Procs -> CallerPoints \cup RunnerPoints]
    BY <1>11, CallerMoves DEF CommitCancelAll, CallerPoints
  <2>4. pown' \in [Callers -> BOOLEAN] BY <1>11, HelperTypes DEF CommitCancelAll
  <2> QED BY <1>11, <2>1, <2>2, <2>3, <2>4 DEF CommitCancelAll, Committing, budget
<1>12. ASSUME CommitChannel(c) PROVE TypeOK'
  <2>1. fresh' \in [Procs -> BOOLEAN]
        /\ own' \in [Callers -> BOOLEAN] /\ cand' \in [Procs -> Document]
    BY <1>12, CommittingTypes DEF CommitChannel
  <2>2. mem' \in Document BY <1>0, <1>12 DEF CommitChannel, Document, CallType
  <2> QED BY <1>12, <2>1, <2>2, CallerMoves DEF CommitChannel, Committing, budget
<1>13. ASSUME StartSaved(c) PROVE TypeOK'
  <2>1. call' \in [Callers -> CallType] BY <1>13, CallerMoves, EmptyTypes DEF StartSaved
  <2>2. pc' \in [Procs -> CallerPoints \cup RunnerPoints]
    BY <1>13 DEF StartSaved, Procs, CallerPoints, RunnerPoints
  <2> QED BY <1>13, <2>1, <2>2 DEF StartSaved, revs, budget
<1>14. ASSUME StartFailed(c) PROVE TypeOK'
  <2>1. mem' \in Document BY <1>14, DocumentUpdate DEF StartFailed
  <2>2. ctl' \in ControlType BY <1>14 DEF StartFailed, ControlType
  <2>3. fresh' \in [Procs -> BOOLEAN] /\ own' \in [Callers -> BOOLEAN]
        /\ pown' \in [Callers -> BOOLEAN]
    BY <1>14, HelperTypes DEF StartFailed, revs
  <2> QED BY <1>14, <2>1, <2>2, <2>3, CallerMoves DEF StartFailed, budget
<1> QED
  BY <1>1, <1>2, <1>3, <1>4, <1>5, <1>6, <1>7, <1>8, <1>9, <1>10, <1>11, <1>12,
     <1>13, <1>14
  DEF CallerContinues

-----------------------------------------------------------------------------
(* One step per action: the upload goroutine.                              *)

\* The goroutine moves on with well-typed locals.
LEMMA RunnerMoves ==
  ASSUME TypeOK
  PROVE  /\ \A l \in RunnerPoints :
              Goto(Runner, l) => pc' \in [Procs -> CallerPoints \cup RunnerPoints]
         /\ \A l \in RunnerPoints :
              RunnerOnly(l) /\ run' \in RunType => TypeOK'
         /\ \A e : End(e) /\ [run EXCEPT !.err = e] \in RunType => TypeOK'
         /\ RunnerPersist /\ mem' \in Document /\ ctl' \in ControlType
              /\ run' \in RunType /\ UNCHANGED outcome => TypeOK'
         /\ \A k, s : Conclude(k, s) /\ s \in JobState /\ ctl' \in ControlType
              /\ [run EXCEPT !.at = k, !.kind = k] \in RunType => TypeOK'
<1> USE DEF TypeOK
<1>1. \A l \in RunnerPoints :
        Goto(Runner, l) => pc' \in [Procs -> CallerPoints \cup RunnerPoints]
  BY DEF Goto, Procs
<1>2. \A l \in RunnerPoints : RunnerOnly(l) /\ run' \in RunType => TypeOK'
  BY <1>1 DEF RunnerOnly, revs, budget
<1>3. \A e : End(e) /\ [run EXCEPT !.err = e] \in RunType => TypeOK'
  BY <1>2 DEF End, RunnerPoints
<1>4. ASSUME RunnerPersist, mem' \in Document, ctl' \in ControlType,
             run' \in RunType, UNCHANGED outcome
      PROVE  TypeOK'
  <2>1. pc' \in [Procs -> CallerPoints \cup RunnerPoints]
    BY <1>1, <1>4 DEF RunnerPersist, RunnerPoints, PersistPoints
  <2>2. fresh' \in [Procs -> BOOLEAN] /\ own' \in [Callers -> BOOLEAN]
    BY <1>4, HelperTypes DEF RunnerPersist
  <2> QED BY <1>4, <2>1, <2>2 DEF RunnerPersist, budget
<1>5. ASSUME NEW k, NEW s \in JobState, Conclude(k, s), ctl' \in ControlType,
             [run EXCEPT !.at = k, !.kind = k] \in RunType
      PROVE  TypeOK'
  <2>1. mem' \in Document BY <1>5, HelperTypes DEF Conclude
  <2>2. fresh' \in [Procs -> BOOLEAN] /\ own' \in [Callers -> BOOLEAN]
    BY <1>5, HelperTypes DEF Conclude, revs
  <2>3. pc' \in [Procs -> CallerPoints \cup RunnerPoints]
    BY <1>1, <1>5 DEF Conclude, RunnerPoints, PersistPoints
  <2> QED BY <1>5, <2>1, <2>2, <2>3 DEF Conclude, budget
<1> QED BY <1>1, <1>2, <1>3, <1>4, <1>5

\* A step of the goroutine keeps the types; a retry needs the bound of RetriesLeft.
LEMMA RunnerStepsType ==
  ASSUME TypeOK, RetriesLeft, RunnerSteps
  PROVE  TypeOK'
<1> USE DEF TypeOK
<1>e. \A e \in {"ok", "cancelled", "notRunnable", "unknown", "paused", "lost", "ctx",
                "failed", "return", "go"} : [run EXCEPT !.err = e] \in RunType
  BY DEF RunType
<1>k. \A k \in {"unknown", "lost", "interrupt", "fail", "sent"} :
        [run EXCEPT !.at = k, !.kind = k] \in RunType
  BY DEF RunType
<1>a. \A k \in {"uploading", "sending", "retry", "remove"} :
        [run EXCEPT !.at = k] \in RunType
  BY DEF RunType
<1>l. "next" \in RunnerPoints /\ "selected" \in RunnerPoints /\ "attempt" \in RunnerPoints
      /\ "open" \in RunnerPoints /\ "reserve" \in RunnerPoints /\ "upload" \in RunnerPoints
      /\ "beforeSend" \in RunnerPoints /\ "submit" \in RunnerPoints
      /\ "slot" \in RunnerPoints /\ "inflight" \in RunnerPoints
      /\ "retry" \in RunnerPoints /\ "ended" \in RunnerPoints
      /\ "dispatch" \in RunnerPoints /\ "fail" \in RunnerPoints
      /\ "finish" \in RunnerPoints /\ "cleanup" \in RunnerPoints
      /\ "idle" \in RunnerPoints /\ "snap" \in RunnerPoints /\ "lock" \in RunnerPoints
  BY DEF RunnerPoints, PersistPoints
<1>1. ASSUME NextJob PROVE TypeOK'
  <2>1. run' \in RunType
    <3>1. \A j \in Jobs : [NoRun EXCEPT !.job = j, !.chan = mem.channel] \in RunType
      BY EmptyTypes, DocumentUpdate DEF RunType
    <3>2. CASE NothingToStart BY <1>1, <3>2 DEF NextJob
    <3>3. CASE ~NothingToStart
      <4>1. PICK j \in Jobs : run' = [NoRun EXCEPT !.job = j, !.chan = mem.channel]
        BY <1>1, <3>3 DEF NextJob, RunnableJobs
      <4> QED BY <3>1, <4>1
    <3> QED BY <3>2, <3>3
  <2> QED BY <1>1, <1>l, <2>1, RunnerMoves DEF NextJob
<1>2. ASSUME JobContext PROVE TypeOK'
  <2>1. CASE ctl.runDead
    BY <1>2, <1>l, <2>1, RunnerMoves DEF JobContext
  <2>2. CASE ~ctl.runDead
    <3>1. [ctl EXCEPT !.jobDead = FALSE] \in ControlType BY DEF ControlType
    <3>2. pc' \in [Procs -> CallerPoints \cup RunnerPoints]
      BY <1>2, <1>l, <2>2, RunnerMoves DEF JobContext
    <3>3. ctl' \in ControlType BY <1>2, <2>2, <3>1 DEF JobContext
    <3>4. call' \in [Callers -> CallType] BY <1>2, <2>2, HelperTypes DEF JobContext
    <3> QED BY <1>2, <2>2, <3>2, <3>3, <3>4 DEF JobContext, revs, budget
  <2> QED BY <2>1, <2>2
<1>3. ASSUME BeginAttempt PROVE TypeOK'
  BY <1>3, <1>e, <1>l, RunnerMoves DEF BeginAttempt
<1>4. ASSUME OpenVerifiedJob PROVE TypeOK'
  BY <1>4, <1>e, <1>l, RunnerMoves DEF OpenVerifiedJob
<1>5. ASSUME Reserve PROVE TypeOK'
  <2>1. mem' \in Document BY <1>5, HelperTypes DEF Reserve, JobState
  <2>2. ctl' \in ControlType BY <1>5 DEF Reserve, ControlType, RunType
  <2> QED BY <1>5, <1>a, <2>1, <2>2, RunnerMoves DEF Reserve
<1>6. ASSUME ReserveRefused PROVE TypeOK'
  BY <1>6, <1>e, RunnerMoves DEF ReserveRefused
<1>7. ASSUME ReserveLost PROVE TypeOK'
  BY <1>7, <1>e, RunnerMoves DEF ReserveLost
<1>8. ASSUME Boundary PROVE TypeOK'
  BY <1>8, <1>e, <1>l, RunnerMoves DEF Boundary
<1>9. ASSUME UploadParts \/ UploadRejected PROVE TypeOK'
  BY <1>9, <1>e, <1>l, RunnerMoves DEF UploadParts, UploadRejected
<1>10. ASSUME TransportError \/ TransportCancelled PROVE TypeOK'
  BY <1>10, <1>e, <1>l, RunnerMoves DEF TransportError, TransportCancelled
<1>11. ASSUME PrepareSend PROVE TypeOK'
  <2>1. CASE mem.st[run.job] = "uploading"
    <3>1. mem' \in Document BY <1>11, <2>1, HelperTypes DEF PrepareSend, JobState
    <3> QED BY <1>11, <1>a, <2>1, <3>1, RunnerMoves DEF PrepareSend
  <2>2. CASE mem.st[run.job] # "uploading"
    BY <1>11, <1>e, <1>l, <2>2, RunnerMoves DEF PrepareSend
  <2> QED BY <2>1, <2>2
<1>12. ASSUME SendPrepared \/ PrepareLost \/ LastCheck PROVE TypeOK'
  BY <1>12, <1>e, <1>l, RunnerMoves DEF SendPrepared, PrepareLost, LastCheck
<1>13. ASSUME Submit PROVE TypeOK'
  <2>1. pc' \in [Procs -> CallerPoints \cup RunnerPoints]
    BY <1>13, <1>l, RunnerMoves DEF Submit
  <2> QED BY <1>13, <2>1 DEF Submit, revs, budget
<1>14. ASSUME SendAnswered PROVE TypeOK'
  BY <1>14, <1>e, RunnerMoves DEF SendAnswered
<1>15. ASSUME BeforeRetry PROVE TypeOK'
  <2>1. CASE IsPaused \/ ~Present(run.job)
    BY <1>15, <1>e, <2>1, RunnerMoves DEF BeforeRetry
  <2>2. CASE ~IsPaused /\ Present(run.job)
    <3>1. SetJob(run.job, "uploading") /\ ctl' = [ctl EXCEPT !.retryWait = TRUE]
          /\ run' = [run EXCEPT !.at = "retry"] /\ RunnerPersist /\ UNCHANGED outcome
      BY <1>15, <2>2 DEF BeforeRetry
    <3>2. mem' \in Document BY <3>1, HelperTypes DEF JobState
    <3>3. ctl' \in ControlType BY <3>1 DEF ControlType
    <3> QED BY <1>a, <3>1, <3>2, <3>3, RunnerMoves
  <2> QED BY <2>1, <2>2
<1>16. ASSUME NEW l \in RunnerPoints, NEW r \in RunType, RetryWaitEnds(l, r) PROVE TypeOK'
  <2>1. ctl' \in ControlType BY <1>16 DEF RetryWaitEnds, ControlType
  <2>2. pc' \in [Procs -> CallerPoints \cup RunnerPoints]
    BY <1>16, RunnerMoves DEF RetryWaitEnds
  <2> QED BY <1>16, <2>1, <2>2 DEF RetryWaitEnds, revs, budget
<1>17. ASSUME RetryLost \/ RetryWaitCancelled PROVE TypeOK'
  BY <1>e, <1>l, <1>16, <1>17 DEF RetryLost, RetryWaitCancelled
<1>18. ASSUME RetryWaitOver PROVE TypeOK'
  <2>1. CASE IsPaused BY <1>e, <1>l, <1>16, <1>18, <2>1 DEF RetryWaitOver
  <2>2. CASE ~IsPaused
    <3>1. [run EXCEPT !.retry = @ + 1, !.at = "none"] \in RunType
      <4>1. run.retry < MaxRetry
        BY <1>18 DEF RetryWaitOver, Persisted, RetriesLeft, At, PersistPoints
      <4>2. run \in RunType /\ run.retry \in 0..MaxRetry BY DEF RunType
      <4>3. run.retry + 1 \in 0..MaxRetry
        BY <4>1, <4>2, ConstantsAssumption DEF ConstantsAssumption
      <4> QED BY <4>2, <4>3 DEF RunType
    <3> QED BY <1>l, <1>16, <1>18, <2>2, <3>1 DEF RetryWaitOver
  <2> QED BY <2>1, <2>2
<1>19. ASSUME AttemptEnded PROVE TypeOK'
  <2>1. run' \in RunType
    <3>1. ContextDead \in BOOLEAN /\ ctl.cancelAll \in BOOLEAN
      BY DEF ContextDead, ControlType
    <3> QED BY <1>19, <3>1 DEF AttemptEnded, RunType
  <2>2. ctl' \in ControlType BY <1>19 DEF AttemptEnded, ControlType, NoJob
  <2>3. pc' \in [Procs -> CallerPoints \cup RunnerPoints]
    BY <1>19, <1>l, RunnerMoves DEF AttemptEnded
  <2> QED BY <1>19, <2>1, <2>2, <2>3 DEF AttemptEnded, revs, budget
<1>20. ASSUME NotStarted PROVE TypeOK'
  BY <1>20, <1>l, RunnerMoves, HelperTypes, EmptyTypes DEF NotStarted, revs, budget
<1>21. ASSUME OutcomeUnknown PROVE TypeOK'
  BY <1>21, <1>k, RunnerMoves, HelperTypes DEF OutcomeUnknown, JobState
<1>22. ASSUME PersistenceLost PROVE TypeOK'
  BY <1>22, <1>l, RunnerMoves, HelperTypes DEF PersistenceLost, revs, budget
<1>23. ASSUME Interrupt PROVE TypeOK'
  BY <1>23, <1>k, RunnerMoves DEF Interrupt, JobState
<1>24. ASSUME FailJob PROVE TypeOK'
  BY <1>24, <1>k, RunnerMoves DEF FailJob, JobState
<1>25. ASSUME Sent PROVE TypeOK'
  BY <1>25, <1>k, <1>l, RunnerMoves, EmptyTypes DEF Sent, JobState
<1>26. ASSUME FinishUnlessPending PROVE TypeOK'
  <2>1. run' \in RunType BY <1>26, <1>a, EmptyTypes DEF FinishUnlessPending
  <2>2. ctl' \in ControlType BY <1>26, HelperTypes DEF FinishUnlessPending
  <2>3. pc' \in [Procs -> CallerPoints \cup RunnerPoints]
    BY <1>26, <1>l, RunnerMoves DEF FinishUnlessPending, AfterJob
  <2> QED BY <1>26, <2>1, <2>2, <2>3 DEF FinishUnlessPending, revs, budget
<1>27. ASSUME TerminalLost PROVE TypeOK'
  BY <1>27, <1>e, <1>l, RunnerMoves, HelperTypes DEF TerminalLost, revs, budget
<1>28. ASSUME StopAfterSave PROVE TypeOK'
  BY <1>28, <1>l, RunnerMoves DEF StopAfterSave
<1>29. ASSUME PrepareRemoval PROVE TypeOK'
  <2>1. [mem EXCEPT !.st[run.job] = "absent"] \in Document BY DocumentUpdate DEF JobState
  <2>2. pc' \in [Procs -> CallerPoints \cup RunnerPoints]
    BY <1>29, <1>l, RunnerMoves DEF PrepareRemoval, Prepare
  <2> QED BY <1>29, <2>1, <2>2 DEF PrepareRemoval, Prepare, budget
<1>30. ASSUME NEW c1 \in ControlType, NEW e \in {"go", "return"}, RemovalEnds(c1, e),
              mem' \in Document, cand' \in [Procs -> Document],
              fresh' \in [Procs -> BOOLEAN], own' \in [Callers -> BOOLEAN]
       PROVE  TypeOK'
  <2>1. pc' \in [Procs -> CallerPoints \cup RunnerPoints]
    BY <1>30, <1>l, RunnerMoves DEF RemovalEnds
  <2> QED BY <1>30, <1>e, <2>1 DEF RemovalEnds, budget
<1>31. ASSUME RemovedByOther \/ RemovalFailed PROVE TypeOK'
  BY <1>30, <1>31, HelperTypes DEF RemovedByOther, RemovalFailed, revs
<1>32. ASSUME RemovalChanged PROVE TypeOK'
  BY <1>32, <1>l, RunnerMoves, EmptyTypes DEF RemovalChanged, revs, budget
<1>33. ASSUME CommitPending PROVE TypeOK'
  <2>1. cand[Runner] \in Document BY DEF Procs
  <2>2. mem' \in Document BY <1>33, <2>1 DEF CommitPending, Document
  <2>3. cand' \in [Procs -> Document] BY <1>33, EmptyTypes DEF CommitPending
  <2> QED BY <1>30, <1>33, <2>2, <2>3, HelperTypes DEF CommitPending
<1>34. ASSUME FinishActiveJob PROVE TypeOK'
  BY <1>34, <1>l, RunnerMoves, HelperTypes, EmptyTypes
  DEF FinishActiveJob, AfterJob, revs, budget
<1>35. ASSUME Cleanup PROVE TypeOK'
  <2>1. run' \in RunType BY <1>35, EmptyTypes DEF Cleanup, RunType
  <2>2. ctl' \in ControlType BY <1>35, EmptyTypes DEF Cleanup, ControlType
  <2>3. pown' \in [Callers -> BOOLEAN] BY <1>35, HelperTypes DEF Cleanup
  <2>4. pc' \in [Procs -> CallerPoints \cup RunnerPoints]
    BY <1>35, <1>l, RunnerMoves DEF Cleanup
  <2> QED BY <1>35, <2>1, <2>2, <2>3, <2>4 DEF Cleanup, revs, budget
<1>36. ASSUME CloseRunDone PROVE TypeOK'
  <2>1. ctl' \in ControlType BY <1>36 DEF CloseRunDone, ControlType
  <2>2. pc' \in [Procs -> CallerPoints \cup RunnerPoints]
    BY <1>36, <1>l, RunnerMoves DEF CloseRunDone
  <2> QED BY <1>36, <2>1, <2>2, EmptyTypes DEF CloseRunDone, revs, budget
<1> QED
  BY <1>1, <1>2, <1>3, <1>4, <1>5, <1>6, <1>7, <1>8, <1>9, <1>10, <1>11, <1>12,
     <1>13, <1>14, <1>15, <1>17, <1>18, <1>19, <1>20, <1>21, <1>22, <1>23, <1>24,
     <1>25, <1>26, <1>27, <1>28, <1>29, <1>31, <1>32, <1>33, <1>34, <1>35, <1>36
  DEF RunnerSteps

-----------------------------------------------------------------------------
(* One step per action: persist, and what remains.                         *)

\* Saving the queue keeps the types.
LEMMA PersistingType ==
  ASSUME TypeOK, NEW p \in Procs, Persisting(p)
  PROVE  TypeOK'
<1> USE DEF TypeOK
<1>1. \A l \in PersistPoints :
        Goto(p, l) => pc' \in [Procs -> CallerPoints \cup RunnerPoints]
  BY DEF Goto, Procs, RunnerPoints
<1>2. \A d \in Document : [cand EXCEPT ![p] = d] \in [Procs -> Document] OBVIOUS
<1>3. ASSUME PersistSnapshot(p) PROVE TypeOK'
  BY <1>1, <1>2, <1>3 DEF PersistSnapshot, Prepare, PersistPoints, budget
<1>4. ASSUME LockAndCheck(p) PROVE TypeOK'
  <2>1. cand' \in [Procs -> Document] BY <1>4, EmptyTypes DEF LockAndCheck
  <2>2. pc' \in [Procs -> CallerPoints \cup RunnerPoints]
    BY <1>1, <1>4 DEF LockAndCheck, PersistPoints
  <2> QED BY <1>4, <2>1, <2>2 DEF LockAndCheck, revs, budget
<1>5. ASSUME SaveSucceeds(p) PROVE TypeOK'
  <2>1. pc' \in [Procs -> CallerPoints \cup RunnerPoints]
    BY <1>1, <1>5 DEF SaveSucceeds, PersistPoints
  <2> QED BY <1>5, <2>1 DEF SaveSucceeds, revs, budget
<1>6. ASSUME SaveFails(p) PROVE TypeOK'
  <2>1. pc' \in [Procs -> CallerPoints \cup RunnerPoints]
    BY <1>1, <1>6 DEF SaveFails, PersistPoints
  <2>2. disk' \in Document /\ cand' \in [Procs -> Document] /\ fresh' \in [Procs -> BOOLEAN]
    BY <1>6, EmptyTypes DEF SaveFails
  <2> QED BY <1>6, <2>1, <2>2 DEF SaveFails, budget
<1>7. ASSUME Recheck(p) PROVE TypeOK'
  <2>1. pc' \in [Procs -> CallerPoints \cup RunnerPoints]
    BY <1>1, <1>7 DEF Recheck, PersistPoints
  <2>2. cand' \in [Procs -> Document] BY <1>7, EmptyTypes DEF Recheck
  <2>3. fresh' \in [Procs -> BOOLEAN] BY <1>7 DEF Recheck
  <2> QED BY <1>7, <2>1, <2>2, <2>3 DEF Recheck, budget
<1> QED BY <1>3, <1>4, <1>5, <1>6, <1>7 DEF Persisting

\* Store.Load turns a stored queue into a queue.
LEMMA LoadedType ==
  ASSUME NEW d \in Document
  PROVE  LoadedQueue(d) \in Document
<1>1. \A j \in Jobs : Recovered(d.st[j]) \in JobState BY DEF Document, Recovered, JobState
<1> QED BY <1>1 DEF LoadedQueue, Document

\* A crash and the restart keep the types.
LEMMA CrashType ==
  ASSUME TypeOK, Crash
  PROVE  TypeOK'
<1> USE DEF TypeOK
<1>1. mem' \in Document BY LoadedType DEF Crash
<1>2. crashes' \in 0..MaxCrashes BY ConstantsAssumption DEF ConstantsAssumption, Crash
<1>3. fresh' \in [Procs -> BOOLEAN] /\ own' \in [Callers -> BOOLEAN]
      /\ pown' \in [Callers -> BOOLEAN]
  BY HelperTypes DEF Crash
<1>4. call' \in [Callers -> CallType] /\ ctl' \in ControlType /\ run' \in RunType
      /\ cand' \in [Procs -> Document]
  BY EmptyTypes DEF Crash
<1>5. pc' \in [Procs -> CallerPoints \cup RunnerPoints] BY DEF Crash, CallerPoints
<1> QED BY <1>1, <1>2, <1>3, <1>4, <1>5 DEF Crash

-----------------------------------------------------------------------------
(* RetriesLeft.                                                            *)

\* The callers never touch the locals of the goroutine, and only send it from
\* "idle" to its first step.
LEMMA CallersLeaveRun ==
  ASSUME TypeOK, NEW c \in Callers, CallerBegins(c) \/ CallerContinues(c)
  PROVE  run' = run /\ pc'[Runner] \in {pc[Runner], "next"}
<1> USE ConstantsAssumption DEF ConstantsAssumption, TypeOK, Procs
<1>1. c # Runner OBVIOUS
<1>2. CASE CallerBegins(c)
  <2>1. \A op, j, s : Mutate(c, op, j, s) => run' = run /\ pc'[Runner] = pc[Runner]
    BY <1>1 DEF Mutate, Goto
  <2>2. \A request : BeginEdit(c, request) => run' = run /\ pc'[Runner] = pc[Runner]
    BY <1>1 DEF BeginEdit, Goto
  <2>3. \A op, paused, requested, sig : ChangePause(c, op, paused, requested, sig)
          => run' = run /\ pc'[Runner] = pc[Runner]
    BY <1>1 DEF ChangePause, Goto
  <2>4. Start(c) \/ CancelAll(c) \/ (\E j \in Jobs : CancelActive(c, j))
          => run' = run /\ pc'[Runner] = pc[Runner]
    BY <1>1 DEF Start, CancelAll, CancelActive, Goto
  <2>5. CancelJob(c) \/ Retry(c) \/ Skip(c) \/ MarkSent(c)
          => run' = run /\ pc'[Runner] = pc[Runner]
    BY <2>1, <2>4 DEF CancelJob, CancelWaiting, Retry, Skip, MarkSent
  <2>6. RemoveJobs(c) \/ RemoveCompleted(c) \/ ResetJobs(c) \/ ApplyUploadLimit(c)
          \/ AddJobs(c) \/ SetChannel(c) => run' = run /\ pc'[Runner] = pc[Runner]
    BY <2>2 DEF RemoveJobs, RemoveCompleted, ResetJobs, ApplyUploadLimit, AddJobs, SetChannel
  <2>7. Pause(c) \/ Resume(c) => run' = run /\ pc'[Runner] = pc[Runner]
    BY <2>3 DEF Pause, Resume
  <2> QED BY <1>2, <2>4, <2>5, <2>6, <2>7 DEF CallerBegins
<1>3. CASE CallerContinues(c)
  <2>1. \A l : Goto(c, l) => pc'[Runner] = pc[Runner] BY <1>1 DEF Goto
  <2>2. Return(c) => pc'[Runner] = pc[Runner] BY <2>1 DEF Return
  <2>3. \A m : ReturnOrSignal(c, m) => pc'[Runner] = pc[Runner] BY <2>1, <2>2 DEF ReturnOrSignal
  <2>4. \A ops : Committing(c, ops) => run' = run BY DEF Committing
  <2>5. MutationFailed(c) \/ CallSaved(c) \/ Signal(c) \/ PauseFailed(c) \/ EditFailed(c)
          \/ EditChanged(c) \/ StartFailed(c) => run' = run /\ pc'[Runner] = pc[Runner]
    BY <2>1, <2>2
    DEF MutationFailed, CallSaved, Signal, PauseFailed, EditFailed, EditChanged, StartFailed
  <2>6. PrepareEdit(c) \/ EditNothing(c) => run' = run /\ pc'[Runner] = pc[Runner]
    BY <2>1, <2>3 DEF PrepareEdit, Prepare, EditNothing
  <2>7. CommitCandidate(c) \/ CommitRemoval(c) \/ CommitCancelAll(c) \/ CommitChannel(c)
          => run' = run /\ pc'[Runner] = pc[Runner]
    BY <2>1, <2>2, <2>3, <2>4
    DEF CommitCandidate, CommitRemoval, CommitCancelAll, CommitChannel
  <2>8. StartSaved(c) => run' = run /\ pc'[Runner] = "next"
    BY <1>1 DEF StartSaved
  <2> QED BY <1>3, <2>5, <2>6, <2>7, <2>8 DEF CallerContinues
<1> QED BY <1>2, <1>3

\* persist keeps the locals of the goroutine and, if it is the goroutine that
\* persists, moves it between the points of persist only.
LEMMA PersistLeavesRun ==
  ASSUME TypeOK, NEW p \in Procs, Persisting(p)
  PROVE  /\ run' = run
         /\ p # Runner => pc'[Runner] = pc[Runner]
         /\ p = Runner => pc[Runner] \in PersistPoints /\ pc'[Runner] \in PersistPoints
<1> USE DEF TypeOK, Goto, PersistPoints, Procs
<1>1. CASE PersistSnapshot(p) BY <1>1 DEF PersistSnapshot, Prepare
<1>2. CASE LockAndCheck(p) BY <1>2 DEF LockAndCheck
<1>3. CASE SaveSucceeds(p) BY <1>3 DEF SaveSucceeds
<1>4. CASE SaveFails(p) BY <1>4 DEF SaveFails
<1>5. CASE Recheck(p) BY <1>5 DEF Recheck
<1> QED BY <1>1, <1>2, <1>3, <1>4, <1>5 DEF Persisting

\* The goroutine comes to a retry wait only through TransportError.
LEMMA RunnerRetries ==
  ASSUME TypeOK, RetriesLeft, RunnerSteps
  PROVE  RetriesLeft'
<1> USE DEF RetriesLeft, At, PersistPoints, TypeOK, Procs, Goto, RunnerOnly, End
<1>1. \A l : Goto(Runner, l) => pc'[Runner] = l OBVIOUS
<1>2. \A k, s : Conclude(k, s) /\ k # "retry" => RetriesLeft'
  BY DEF Conclude, RunType
<1>3. ASSUME NextJob \/ JobContext \/ BeginAttempt \/ OpenVerifiedJob PROVE RetriesLeft'
  BY <1>3 DEF NextJob, JobContext, BeginAttempt, OpenVerifiedJob
<1>4. ASSUME Reserve \/ ReserveRefused \/ ReserveLost \/ Boundary PROVE RetriesLeft'
  BY <1>4 DEF Reserve, ReserveRefused, ReserveLost, Boundary, RunnerPersist, RunType
<1>5. ASSUME UploadParts \/ UploadRejected \/ TransportError \/ TransportCancelled
      PROVE  RetriesLeft'
  BY <1>5 DEF UploadParts, UploadRejected, TransportError, TransportCancelled
<1>6. ASSUME PrepareSend \/ SendPrepared \/ PrepareLost \/ LastCheck \/ Submit \/ SendAnswered
      PROVE  RetriesLeft'
  BY <1>6
  DEF PrepareSend, SendPrepared, PrepareLost, LastCheck, Submit, SendAnswered,
      RunnerPersist, RunType
<1>7. ASSUME BeforeRetry PROVE RetriesLeft'
  BY <1>7 DEF BeforeRetry, RunnerPersist, RunType
<1>8. ASSUME RetryLost \/ RetryWaitCancelled \/ RetryWaitOver PROVE RetriesLeft'
  BY <1>8 DEF RetryLost, RetryWaitCancelled, RetryWaitOver, RetryWaitEnds
<1>9. ASSUME AttemptEnded \/ NotStarted \/ PersistenceLost PROVE RetriesLeft'
  BY <1>9 DEF AttemptEnded, NotStarted, PersistenceLost
<1>10. ASSUME OutcomeUnknown \/ Interrupt \/ FailJob \/ Sent PROVE RetriesLeft'
  <2>1. CASE Sent /\ ~Present(run.job) BY <2>1 DEF Sent
  <2>2. CASE ~(Sent /\ ~Present(run.job))
    <3>1. PICK k \in {"unknown", "interrupt", "lost", "fail", "sent"} : \E s : Conclude(k, s)
      BY <1>10, <2>2 DEF OutcomeUnknown, Interrupt, FailJob, Sent
    <3> QED BY <1>2, <3>1
  <2> QED BY <2>1, <2>2
<1>11. ASSUME FinishUnlessPending \/ TerminalLost \/ StopAfterSave PROVE RetriesLeft'
  BY <1>11 DEF FinishUnlessPending, TerminalLost, StopAfterSave, AfterJob, RunType
<1>12. ASSUME PrepareRemoval \/ RemovedByOther \/ RemovalFailed PROVE RetriesLeft'
  BY <1>12 DEF PrepareRemoval, Prepare, RemovedByOther, RemovalFailed, RemovalEnds
<1>13. ASSUME RemovalChanged \/ CommitPending \/ FinishActiveJob PROVE RetriesLeft'
  BY <1>13 DEF RemovalChanged, Persisted, CommitPending, RemovalEnds, FinishActiveJob, AfterJob
<1>14. ASSUME Cleanup \/ CloseRunDone PROVE RetriesLeft'
  BY <1>14 DEF Cleanup, CloseRunDone, NoRun
<1> QED
  BY <1>3, <1>4, <1>5, <1>6, <1>7, <1>8, <1>9, <1>10, <1>11, <1>12, <1>13, <1>14
  DEF RunnerSteps

-----------------------------------------------------------------------------
(* The theorem.                                                            *)

\* The first state of a process is well-typed.
LEMMA InitTypes ==
  ASSUME Init
  PROVE  TypeOK /\ RetriesLeft
<1>1. disk \in Document BY ConstantsAssumption DEF ConstantsAssumption, Init, Document
<1>2. mem \in Document BY <1>1, LoadedType DEF Init
<1>3. calls \in 0..MaxCalls /\ crashes \in 0..MaxCrashes
  BY ConstantsAssumption DEF ConstantsAssumption, Init
<1>4. RetriesLeft
  BY DEF Init, RetriesLeft, At, PersistPoints, Procs
<1> QED BY <1>1, <1>2, <1>3, <1>4, EmptyTypes DEF Init, TypeOK, CallerPoints

\* TypeOK and RetriesLeft together are inductive.
LEMMA NextTypes ==
  ASSUME TypeOK, RetriesLeft, [Next]_vars
  PROVE  TypeOK' /\ RetriesLeft'
<1>1. ASSUME NEW c \in Callers, CallerBegins(c) \/ CallerContinues(c)
      PROVE  TypeOK' /\ RetriesLeft'
  <2>1. TypeOK' BY <1>1, CallerBeginsType, CallerContinuesType
  <2>2. RetriesLeft'
    BY <1>1, CallersLeaveRun DEF RetriesLeft, At, PersistPoints
  <2> QED BY <2>1, <2>2
<1>2. ASSUME RunnerSteps PROVE TypeOK' /\ RetriesLeft'
  BY <1>2, RunnerStepsType, RunnerRetries
<1>3. ASSUME NEW p \in Procs, Persisting(p) PROVE TypeOK' /\ RetriesLeft'
  <2>1. TypeOK' BY <1>3, PersistingType
  <2>2. run' = run BY <1>3, PersistLeavesRun
  <2>3. \/ pc'[Runner] = pc[Runner]
        \/ pc[Runner] \in PersistPoints /\ pc'[Runner] \in PersistPoints
    BY <1>3, PersistLeavesRun
  <2>4. "retry" \notin PersistPoints BY DEF PersistPoints
  <2>5. RetriesLeft' BY <2>2, <2>3, <2>4 DEF RetriesLeft, At
  <2> QED BY <2>1, <2>5
<1>4. ASSUME Shutdown PROVE TypeOK' /\ RetriesLeft'
  <2>1. ctl' \in ControlType BY <1>4 DEF Shutdown, TypeOK, ControlType
  <2> QED BY <1>4, <2>1 DEF Shutdown, TypeOK, revs, budget, RetriesLeft, At
<1>5. ASSUME Crash PROVE TypeOK' /\ RetriesLeft'
  BY <1>5, CrashType DEF Crash, RetriesLeft, At, PersistPoints, Procs
<1>6. ASSUME UNCHANGED vars PROVE TypeOK' /\ RetriesLeft'
  BY <1>6 DEF vars, TypeOK, RetriesLeft, At
<1> QED BY <1>1, <1>2, <1>3, <1>4, <1>5, <1>6 DEF Next, Rest

\* Every variable keeps its type, for all queues, all numbers of callers and all
\* bounds: in particular the number of retries of a file never exceeds MaxRetry
\* (uploadRetryDelays is never indexed beyond its end), and the record that the
\* goroutine works on is always a record of the queue or none.
THEOREM TypeCorrect == Spec => [](TypeOK /\ RetriesLeft)
<1>1. Init => TypeOK /\ RetriesLeft BY InitTypes
<1>2. TypeOK /\ RetriesLeft /\ [Next]_vars => (TypeOK /\ RetriesLeft)' BY NextTypes
<1> QED BY <1>1, <1>2, PTL DEF Spec

-----------------------------------------------------------------------------
(* A run is never started beside another one.                              *)

\* What a step may do to the variables RunnerAlone is about: the goroutine is
\* where it was, the reservation of the run is kept, and c is the only caller
\* whose operation or hold of opMu may change.
AloneFrame(c) ==
  /\ pc'[Runner] = pc[Runner]
  /\ ctl'.runDone = ctl.runDone
  /\ \A d \in Callers \ {c} :
       /\ call'[d].op = call[d].op
       /\ opMu = d => opMu' = d
  /\ call'[c].op = "start" => call[c].op = "start" /\ (opMu = c => opMu' = c)

\* The helpers of the callers move the caller only, and release opMu only if it
\* is theirs.
LEMMA CallerFrames ==
  ASSUME TypeOK, NEW c \in Callers
  PROVE  /\ \A l : Goto(c, l) => /\ \A p \in Procs \ {c} : pc'[p] = pc[p]
                                 /\ pc'[c] = l
                                 /\ pc'[Runner] = pc[Runner]
         /\ Return(c) => /\ \A p \in Procs \ {c} : pc'[p] = pc[p]
                         /\ pc'[c] = "idle"
                         /\ pc'[Runner] = pc[Runner]
                         /\ \A d \in Callers \ {c} : call'[d] = call[d]
                         /\ call'[c] = NoCall
                         /\ \A d \in Callers \ {c} : opMu = d => opMu' = d
<1>1. c \in Procs /\ Runner \in Procs /\ c # Runner
  BY ConstantsAssumption DEF ConstantsAssumption, Procs
<1> QED BY <1>1 DEF TypeOK, Goto, Return

\* ReturnOrSignal keeps the operations of the others.
LEMMA ReturnOrSignalFrames ==
  ASSUME TypeOK, NEW c \in Callers, NEW marked, ReturnOrSignal(c, marked)
  PROVE  /\ \A p \in Procs \ {c} : pc'[p] = pc[p]
         /\ pc'[c] \in {"idle", "signal"}
         /\ pc'[Runner] = pc[Runner]
         /\ \A d \in Callers \ {c} : call'[d] = call[d]
         /\ \A d \in Callers \ {c} : opMu = d => opMu' = d
         /\ \/ call'[c] = NoCall
            \/ /\ call'[c].op = call[c].op
               /\ call'[c].sel = call[c].sel
               /\ opMu' = opMu
<1>1. CASE Return(c) BY <1>1, CallerFrames
<1>2. CASE Goto(c, "signal") /\ call' = [call EXCEPT ![c].sig = "job"] /\ opMu' = opMu
  <2>1. call'[c].op = call[c].op /\ call'[c].sel = call[c].sel
    BY <1>2 DEF TypeOK, CallType
  <2>2. \A d \in Callers \ {c} : call'[d] = call[d]
    BY <1>2 DEF TypeOK
  <2> QED BY <1>2, <2>1, <2>2, CallerFrames
<1> QED BY <1>1, <1>2 DEF ReturnOrSignal

\* A call that begins, other than Start, is no start.
LEMMA BeginAlone ==
  ASSUME TypeOK, NEW c \in Callers, CallerBegins(c), ~Start(c)
  PROVE  AloneFrame(c)
<1> USE DEF TypeOK
<1>1. ASSUME NEW op \in AllOps \ {"start"}, NEW j, NEW s, Mutate(c, op, j, s)
      PROVE  AloneFrame(c)
  <2>1. call'[c].op = op BY <1>1 DEF Mutate, NoCall
  <2>2. \A d \in Callers \ {c} : call'[d] = call[d] BY <1>1 DEF Mutate
  <2> QED BY <1>1, <2>1, <2>2, CallerFrames DEF Mutate, AloneFrame
<1>2. ASSUME NEW r, r.op # "start", BeginEdit(c, r) PROVE AloneFrame(c)
  <2>1. call'[c].op = r.op BY <1>2 DEF BeginEdit
  <2>2. \A d \in Callers \ {c} : call'[d] = call[d] BY <1>2 DEF BeginEdit
  <2>3. opMu = NoCaller /\ NoCaller \notin Callers
    BY <1>2, ConstantsAssumption DEF BeginEdit, ConstantsAssumption
  <2> QED BY <1>2, <2>1, <2>2, <2>3, CallerFrames DEF BeginEdit, AloneFrame
<1>3. ASSUME NEW op \in {"pause", "resume"}, NEW b, NEW r, NEW sig,
             ChangePause(c, op, b, r, sig)
      PROVE  AloneFrame(c)
  <2>1. call'[c].op = op BY <1>3 DEF ChangePause, NoCall
  <2>2. \A d \in Callers \ {c} : call'[d] = call[d] BY <1>3 DEF ChangePause
  <2>3. \A d \in Callers \ {c} : opMu = d => opMu' = d
    BY <1>3, ConstantsAssumption DEF ChangePause, MaybeExclusive, ConstantsAssumption
  <2>4. ctl'.runDone = ctl.runDone BY <1>3 DEF ChangePause, ControlType
  <2> QED BY <1>3, <2>1, <2>2, <2>3, <2>4, CallerFrames DEF ChangePause, AloneFrame
<1>4. ASSUME NEW j \in Jobs, CancelActive(c, j) PROVE AloneFrame(c)
  <2>1. call'[c].op = "cancel" BY <1>4 DEF CancelActive, NoCall
  <2>2. \A d \in Callers \ {c} : call'[d] = call[d] BY <1>4 DEF CancelActive
  <2>3. ctl'.runDone = ctl.runDone BY <1>4 DEF CancelActive, ControlType
  <2> QED BY <1>4, <2>1, <2>2, <2>3, CallerFrames DEF CancelActive, AloneFrame
<1>5. ASSUME CancelAll(c) PROVE AloneFrame(c)
  <2>1. call'[c].op = "cancelAll" BY <1>5 DEF CancelAll, NoCall
  <2>2. \A d \in Callers \ {c} : call'[d] = call[d] BY <1>5 DEF CancelAll
  <2> QED BY <1>5, <2>1, <2>2, CallerFrames DEF CancelAll, AloneFrame
<1>6. ASSUME CancelJob(c) \/ Retry(c) \/ Skip(c) \/ MarkSent(c) PROVE AloneFrame(c)
  BY <1>1, <1>4, <1>6 DEF CancelJob, CancelWaiting, Retry, Skip, MarkSent, AllOps
<1>7. ASSUME Pause(c) \/ Resume(c) PROVE AloneFrame(c)
  BY <1>3, <1>7 DEF Pause, Resume
<1>8. ASSUME RemoveJobs(c) \/ RemoveCompleted(c) \/ ResetJobs(c) PROVE AloneFrame(c)
  BY <1>2, <1>8 DEF RemoveJobs, RemoveCompleted, ResetJobs, NoCall
<1>9. ASSUME ApplyUploadLimit(c) \/ AddJobs(c) \/ SetChannel(c) PROVE AloneFrame(c)
  BY <1>2, <1>9 DEF ApplyUploadLimit, AddJobs, SetChannel, NoCall
<1> QED BY <1>5, <1>6, <1>7, <1>8, <1>9 DEF CallerBegins

\* A call that continues, other than StartSaved and StartFailed, is no start.
LEMMA ContinueAlone ==
  ASSUME TypeOK, NEW c \in Callers, CallerContinues(c), ~StartSaved(c), ~StartFailed(c)
  PROVE  AloneFrame(c)
<1> USE DEF TypeOK
<1>1. ASSUME Return(c), ctl'.runDone = ctl.runDone PROVE AloneFrame(c)
  BY <1>1, CallerFrames DEF AloneFrame, NoCall
<1>2. ASSUME NEW marked, ReturnOrSignal(c, marked), ctl'.runDone = ctl.runDone
      PROVE  AloneFrame(c)
  BY <1>2, ReturnOrSignalFrames DEF AloneFrame, NoCall
<1>3. ASSUME NEW l, Goto(c, l), UNCHANGED <<call, opMu, ctl>> PROVE AloneFrame(c)
  BY <1>3, CallerFrames DEF AloneFrame
<1>4. ASSUME NEW l, NEW sig, Goto(c, l), call' = [call EXCEPT ![c].sig = sig],
             opMu' = opMu, ctl'.runDone = ctl.runDone
      PROVE  AloneFrame(c)
  <2>1. call'[c].op = call[c].op BY <1>4 DEF CallType
  <2>2. \A d \in Callers \ {c} : call'[d] = call[d] BY <1>4
  <2> QED BY <1>4, <2>1, <2>2, CallerFrames DEF AloneFrame
<1>5. \A st : MarkedForRemoval(c, ctl, st).runDone = ctl.runDone
  BY DEF MarkedForRemoval, ControlType
<1>6. CASE MutationFailed(c) BY <1>1, <1>6 DEF MutationFailed
<1>7. CASE CallSaved(c) BY <1>1, <1>3, <1>7 DEF CallSaved
<1>8. CASE Signal(c)
  <2>1. ctl'.runDone = ctl.runDone BY <1>8 DEF Signal, ControlType
  <2> QED BY <1>1, <1>4, <1>8, <2>1 DEF Signal
<1>9. CASE PauseFailed(c)
  <2>1. ctl'.runDone = ctl.runDone BY <1>9 DEF PauseFailed, ControlType
  <2> QED BY <1>1, <1>9, <2>1 DEF PauseFailed
<1>10. CASE PrepareEdit(c) BY <1>3, <1>10 DEF PrepareEdit, Prepare
<1>11. CASE EditNothing(c) BY <1>2, <1>5, <1>11 DEF EditNothing
<1>12. CASE EditFailed(c) BY <1>1, <1>12 DEF EditFailed
<1>13. CASE EditChanged(c) BY <1>3, <1>13 DEF EditChanged
<1>14. CASE CommitCandidate(c) BY <1>1, <1>14 DEF CommitCandidate
<1>15. CASE CommitRemoval(c) BY <1>2, <1>5, <1>15 DEF CommitRemoval
<1>16. CASE CommitCancelAll(c)
  <2>1. ctl'.runDone = ctl.runDone BY <1>16 DEF CommitCancelAll, ControlType
  <2> QED BY <1>1, <1>4, <1>16, <2>1 DEF CommitCancelAll
<1>17. CASE CommitChannel(c) BY <1>1, <1>17 DEF CommitChannel
<1> QED
  BY <1>6, <1>7, <1>8, <1>9, <1>10, <1>11, <1>12, <1>13, <1>14, <1>15, <1>16, <1>17
  DEF CallerContinues

\* Such a step keeps RunnerAlone.
LEMMA FramedAlone ==
  ASSUME RunnerAlone, NEW c \in Callers, AloneFrame(c)
  PROVE  RunnerAlone'
BY DEF RunnerAlone, AloneFrame

\* Start and what follows it: opMu is held from the reservation of the run until
\* the goroutine exists or the reservation is given back.
LEMMA StartAlone ==
  ASSUME TypeOK, RunnerAlone, NEW c \in Callers,
         Start(c) \/ StartSaved(c) \/ StartFailed(c)
  PROVE  RunnerAlone'
<1> USE DEF TypeOK
<1>1. \A d \in Callers : call[d].op = "start" => opMu = d BY DEF RunnerAlone
<1>2. CASE Start(c)
  <2>1. pc[Runner] = "idle" BY <1>2 DEF Start, MayStart, RunnerAlone
  <2>2. pc'[Runner] = "idle" BY <1>2, <2>1, CallerFrames DEF Start
  <2>3. ctl'.runDone BY <1>2 DEF Start, ControlType
  <2>4. \A d \in Callers \ {c} : call'[d].op = call[d].op
    BY <1>2 DEF Start, Forget, CallType
  <2>5. \A d \in Callers \ {c} : call[d].op # "start"
    BY <1>1, <1>2, ConstantsAssumption DEF Start, ConstantsAssumption
  <2>6. opMu' = c BY <1>2 DEF Start
  <2> QED BY <2>2, <2>3, <2>4, <2>5, <2>6 DEF RunnerAlone
<1>3. CASE StartSaved(c)
  <2>1. ctl.runDone /\ opMu = c BY <1>3 DEF StartSaved, RunnerAlone
  <2>2. \A d \in Callers : call'[d].op # "start"
    BY <1>1, <1>3, <2>1 DEF StartSaved, NoCall
  <2> QED BY <1>3, <2>1, <2>2 DEF StartSaved, RunnerAlone
<1>4. CASE StartFailed(c)
  <2>1. pc[Runner] = "idle" /\ opMu = c BY <1>4 DEF StartFailed, RunnerAlone
  <2>2. Return(c) BY <1>4 DEF StartFailed
  <2>3. pc'[Runner] = "idle" BY <2>1, <2>2, CallerFrames
  <2>4. \A d \in Callers : call'[d].op # "start"
    BY <1>1, <2>1, <2>2, CallerFrames DEF NoCall
  <2> QED BY <2>3, <2>4 DEF RunnerAlone
<1> QED BY <1>2, <1>3, <1>4

\* The goroutine keeps its reservation until its last step.
LEMMA RunnerKeepsRunDone ==
  ASSUME TypeOK, RunnerSteps
  PROVE  /\ pc[Runner] # "idle"
         /\ \A c \in Callers : call'[c].op = call[c].op
         /\ opMu' = opMu
         /\ ctl'.runDone = ctl.runDone \/ pc'[Runner] = "idle"
<1> USE DEF TypeOK, RunnerOnly, End, RunnerPersist, Procs
<1>1. \A sig : call' = Forget(sig) => \A c \in Callers : call'[c].op = call[c].op
  BY DEF Forget, CallType
<1>2. \A j : ActiveCleared(j).runDone = ctl.runDone /\ PendingCleared(j).runDone = ctl.runDone
  BY DEF ActiveCleared, PendingCleared, ControlType
<1>3. CASE NextJob \/ BeginAttempt \/ OpenVerifiedJob
  BY <1>3 DEF NextJob, BeginAttempt, OpenVerifiedJob
<1>4. CASE JobContext
  <2>1. CASE ctl.runDead BY <1>4, <2>1 DEF JobContext
  <2>2. CASE ~ctl.runDead
    <3>1. ctl'.runDone = ctl.runDone BY <1>4, <2>2 DEF JobContext, ControlType
    <3> QED BY <1>1, <1>4, <2>2, <3>1 DEF JobContext
  <2> QED BY <2>1, <2>2
<1>5. CASE Reserve
  <2>1. ctl'.runDone = ctl.runDone BY <1>5 DEF Reserve, ControlType
  <2> QED BY <1>5, <2>1 DEF Reserve
<1>6. CASE ReserveRefused \/ ReserveLost \/ Boundary
  BY <1>6 DEF ReserveRefused, ReserveLost, Boundary, Persisted
<1>7. CASE UploadParts \/ UploadRejected \/ TransportError \/ TransportCancelled
  BY <1>7 DEF UploadParts, UploadRejected, TransportError, TransportCancelled
<1>8. CASE PrepareSend \/ SendPrepared \/ PrepareLost
  BY <1>8 DEF PrepareSend, SendPrepared, PrepareLost, Persisted
<1>9. CASE LastCheck \/ Submit \/ SendAnswered
  BY <1>9 DEF LastCheck, Submit, SendAnswered
<1>10. CASE BeforeRetry
  <2>1. ctl'.runDone = ctl.runDone BY <1>10 DEF BeforeRetry, ControlType
  <2> QED BY <1>10, <2>1 DEF BeforeRetry
<1>11. \A l, r : RetryWaitEnds(l, r) =>
         ctl'.runDone = ctl.runDone /\ call' = call /\ opMu' = opMu
  BY DEF RetryWaitEnds, ControlType
<1>12. CASE RetryLost \/ RetryWaitCancelled \/ RetryWaitOver
  BY <1>11, <1>12 DEF RetryLost, RetryWaitCancelled, RetryWaitOver, Persisted
<1>13. CASE AttemptEnded
  <2>1. ctl'.runDone = ctl.runDone BY <1>13 DEF AttemptEnded, ControlType
  <2> QED BY <1>13, <2>1 DEF AttemptEnded
<1>14. CASE NotStarted \/ PersistenceLost
  BY <1>2, <1>14 DEF NotStarted, PersistenceLost
<1>15. \A k, s : Conclude(k, s) => call' = call /\ opMu' = opMu BY DEF Conclude
<1>16. CASE OutcomeUnknown \/ Interrupt \/ FailJob \/ Sent
  BY <1>2, <1>15, <1>16 DEF OutcomeUnknown, Interrupt, FailJob, Sent
<1>17. CASE FinishUnlessPending \/ TerminalLost \/ StopAfterSave
  BY <1>2, <1>17 DEF FinishUnlessPending, TerminalLost, StopAfterSave
<1>18. CASE PrepareRemoval \/ RemovedByOther \/ RemovalFailed
  BY <1>2, <1>18
  DEF PrepareRemoval, Prepare, RemovedByOther, RemovalFailed, RemovalEnds, Persisted
<1>19. CASE RemovalChanged \/ CommitPending
  BY <1>2, <1>19 DEF RemovalChanged, CommitPending, RemovalEnds, Persisted
<1>20. CASE FinishActiveJob BY <1>2, <1>20 DEF FinishActiveJob
<1>21. CASE Cleanup BY <1>21 DEF Cleanup, NoControl
<1>22. CASE CloseRunDone BY <1>22 DEF CloseRunDone, Goto
<1> QED
  BY <1>3, <1>4, <1>5, <1>6, <1>7, <1>8, <1>9, <1>10, <1>12, <1>13, <1>14, <1>16,
     <1>17, <1>18, <1>19, <1>20, <1>21, <1>22
  DEF RunnerSteps

\* RunnerAlone is inductive relative to TypeOK.
LEMMA AloneNext ==
  ASSUME TypeOK, RunnerAlone, [Next]_vars
  PROVE  RunnerAlone'
<1>1. ASSUME NEW c \in Callers, CallerBegins(c) \/ CallerContinues(c) PROVE RunnerAlone'
  BY <1>1, BeginAlone, ContinueAlone, FramedAlone, StartAlone
<1>2. ASSUME RunnerSteps PROVE RunnerAlone'
  BY <1>2, RunnerKeepsRunDone DEF RunnerAlone
<1>3. ASSUME NEW p \in Procs, Persisting(p) PROVE RunnerAlone'
  <2>1. call' = call /\ opMu' = opMu /\ ctl' = ctl
    BY <1>3 DEF Persisting, PersistSnapshot, Prepare, LockAndCheck, SaveSucceeds, SaveFails,
                Recheck
  <2>2. pc'[Runner] = "idle" <=> pc[Runner] = "idle"
    BY <1>3, PersistLeavesRun DEF PersistPoints
  <2> QED BY <2>1, <2>2 DEF RunnerAlone
<1>4. ASSUME Shutdown PROVE RunnerAlone'
  BY <1>4 DEF Shutdown, RunnerAlone, TypeOK, ControlType
<1>5. ASSUME Crash PROVE RunnerAlone'
  BY <1>5 DEF Crash, RunnerAlone, NoCall, Procs
<1>6. ASSUME UNCHANGED vars PROVE RunnerAlone'
  BY <1>6 DEF vars, RunnerAlone
<1> QED BY <1>1, <1>2, <1>3, <1>4, <1>5, <1>6 DEF Next, Rest

\* Start never runs beside another run: while the upload goroutine exists no call
\* has reserved a run, and a call that has reserved one holds opMu and runDone
\* until the goroutine takes over.
THEOREM StartsAlone == Spec => []RunnerAlone
<1>1. Init => RunnerAlone BY DEF Init, RunnerAlone, NoCall, Procs
<1>2. TypeOK /\ RetriesLeft /\ RunnerAlone /\ [Next]_vars => RunnerAlone' BY AloneNext
<1> QED BY <1>1, <1>2, TypeCorrect, PTL DEF Spec
=============================================================================
