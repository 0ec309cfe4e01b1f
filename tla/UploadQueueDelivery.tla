------------------------ MODULE UploadQueueDelivery ------------------------
(***************************************************************************)
(* What UploadQueue promises about deliveries, for every value of its      *)
(* constants.  DeliveryInv is inductive together with TypeOK and           *)
(* RunnerAlone.  The effect of a step is first summarised by a frame: what *)
(* it leaves alone and what it may do to a record.  One lemma shows that   *)
(* the frame keeps the invariant, and one step per action that the action  *)
(* has the frame.                                                          *)
(***************************************************************************)
EXTENDS UploadQueueBase

-----------------------------------------------------------------------------
(* Callers: the frame.                                                     *)

\* A step of the caller c leaves the goroutine, the file, and the progress of
\* the other callers alone.
CallerLeaves(c) ==
  /\ run' = run
  /\ disk' = disk
  /\ pc'[Runner] = pc[Runner]
  /\ pc'[c] # "save"
  /\ \A p \in Procs \ {c} : pc'[p] = pc[p] /\ cand'[p] = cand[p]
  /\ \A d \in Callers \ {c} :
       /\ call'[d].op = call[d].op
       /\ call'[d].sel = call[d].sel
       /\ call'[d].job = call[d].job
       /\ call'[d].state = call[d].state
       /\ opMu = d => opMu' = d
  /\ used \subseteq used'

\* What it may do to records: it never moves one that is being transferred, never
\* unsettles one whose outcome is open, and brings in new ones only under opMu.
CallerMay(c) ==
  /\ \A j \in Jobs : outcome'[j] = "open" => outcome[j] = "open"
  /\ \A j \in Jobs : mem'.st[j] # mem.st[j] =>
       /\ mem.st[j] \notin {"uploading", "sending"}
       /\ outcome'[j] = "open" => mem'.st[j] \in Settled
       /\ mem.st[j] = "absent" => j \in used /\ opMu = c

\* It advances queueRevision when it changes a record.
CallerRevises(c) ==
  /\ \A p \in Procs \ {c} : fresh'[p] => fresh[p] /\ mem'.st = mem.st
  /\ \A d \in Callers \ {c} : own'[d] => own[d] /\ mem'.st = mem.st

\* Such a step keeps DeliveryInv, if c's own candidate, own change and own
\* additions are right.
LEMMA FramedCaller ==
  ASSUME TypeOK, DeliveryInv, NEW c \in Callers,
         CallerLeaves(c), CallerMay(c), CallerRevises(c),
         EditIsCurrent(c)', ChangeIsOwn(c)', AddsNew(c)'
  PROVE  DeliveryInv'
<1>0. c \in Procs /\ Runner \in Procs /\ c # Runner /\ Callers = Procs \ {Runner}
  BY ConstantsAssumption DEF ConstantsAssumption, Procs
<1>1. OpenIsSettled'
  BY DEF OpenIsSettled, DeliveryInv, CallerMay, CallerLeaves
<1>2. FreshIsCurrent'
  <2>1. ASSUME NEW p \in Procs \ {c}, fresh'[p] PROVE EditIsCurrent(p)'
    <3>1. EditIsCurrent(p) /\ fresh[p] /\ mem'.st = mem.st
      BY <2>1 DEF DeliveryInv, FreshIsCurrent, CallerRevises
    <3>2. pc'[p] = pc[p] /\ cand'[p] = cand[p] /\ run' = run BY DEF CallerLeaves
    <3>3. p # Runner => call'[p].op = call[p].op /\ call'[p].sel = call[p].sel
      BY <1>0 DEF CallerLeaves
    <3>4. Plain(p)' <=> Plain(p) BY <3>2, <3>3 DEF Plain
    <3>5. \A j, s, t : MayPrepare(p, j, s, t)' <=> MayPrepare(p, j, s, t)
      BY <3>2, <3>3 DEF MayPrepare
    <3>6. \A j \in Jobs : MayPrepare(p, j, mem.st[j], cand[p].st[j])'
      BY <3>1, <3>2, <3>5 DEF EditIsCurrent
    <3> QED BY <3>1, <3>2, <3>4, <3>6 DEF EditIsCurrent
  <2>2. \A p \in Procs \ {c} : EditIsCurrent(p)' BY <2>1 DEF EditIsCurrent
  <2> QED BY <2>2 DEF FreshIsCurrent
<1>3. OwnIsCurrent'
  <2>1. ASSUME NEW d \in Callers \ {c} PROVE ChangeIsOwn(d)'
    BY <1>0
    DEF DeliveryInv, OwnIsCurrent, ChangeIsOwn, CallerLeaves, CallerMay, CallerRevises
  <2> QED BY <2>1 DEF OwnIsCurrent
<1>4. NotYetSubmitted'
  BY DEF DeliveryInv, NotYetSubmitted, BeforeSubmission, CallerLeaves, CallerMay
<1>5. RecordFollows'
  <2>1. At({"upload", "beforeSend"}, "uploading") \/ At({"submit", "slot", "inflight"}, "sending")
          => run.job \in Jobs
    BY DEF DeliveryInv, NotYetSubmitted, BeforeSubmission, RecordFollows, At
  <2> QED BY <2>1 DEF DeliveryInv, RecordFollows, At, CallerLeaves, CallerMay
<1>6. NoOlderSave'
  <2>1. \A p \in Procs : pc'[p] = "save" => pc[p] = "save" /\ cand'[p] = cand[p]
    BY <1>0 DEF CallerLeaves
  <2> QED
    BY <2>1 DEF DeliveryInv, NoOlderSave, SendingSaved, CallerLeaves, CallerMay
<1>7. UnusedAreAbsent'
  <2>1. \A p \in Procs : pc'[p] = "save" => pc[p] = "save" /\ cand'[p] = cand[p]
    BY <1>0 DEF CallerLeaves
  <2> QED
    BY <2>1 DEF DeliveryInv, IdsAreNew, UnusedAreAbsent, CallerLeaves, CallerMay
<1>8. ASSUME NEW d \in Callers \ {c} PROVE AddsNew(d)'
  BY DEF DeliveryInv, IdsAreNew, AddsNew, CallerLeaves, CallerMay, TypeOK, CallType
<1>9. IdsAreNew' BY <1>7, <1>8 DEF IdsAreNew
<1> QED BY <1>1, <1>2, <1>3, <1>4, <1>5, <1>6, <1>9 DEF DeliveryInv

-----------------------------------------------------------------------------
(* Callers: the actions.                                                   *)

\* Where a caller holds no candidate and no change of its own.
LEMMA NothingHeld ==
  ASSUME DeliveryInv, NEW c \in Callers
  PROVE  /\ pc[c] \notin {"lock", "save", "check", "saved"} => ~fresh[c]
         /\ pc[c] = "saved" /\ call[c].op \notin Edits => ~fresh[c]
         /\ pc[c] \notin PersistPoints \/ call[c].op \notin Mutations => ~own[c]
BY ConstantsAssumption
DEF ConstantsAssumption, Procs, DeliveryInv, FreshIsCurrent, EditIsCurrent, Plain,
    OwnIsCurrent, ChangeIsOwn

\* A change of the queue makes every captured revision an old one.
LEMMA TouchFrames ==
  ASSUME NEW q, Touch(q)
  PROVE  /\ \A p \in Procs : ~fresh'[p]
         /\ \A d \in Callers : own'[d] <=> d = q
BY DEF Touch

\* The frame of a step that moves the caller only.
LEMMA CallerLeavesBy ==
  ASSUME TypeOK, NEW c \in Callers,
         run' = run, disk' = disk, used \subseteq used',
         \A p \in Procs \ {c} : cand'[p] = cand[p]
  PROVE  /\ \A l : /\ l # "save" /\ Goto(c, l)
                   /\ \A d \in Callers \ {c} : call'[d] = call[d]
                   /\ \A d \in Callers \ {c} : opMu = d => opMu' = d
                   => CallerLeaves(c)
         /\ Return(c) => CallerLeaves(c)
         /\ \A m : ReturnOrSignal(c, m) => CallerLeaves(c)
<1>1. ASSUME NEW l, l # "save", Goto(c, l),
             \A d \in Callers \ {c} : call'[d] = call[d],
             \A d \in Callers \ {c} : opMu = d => opMu' = d
      PROVE  CallerLeaves(c)
  BY <1>1, CallerFrames DEF CallerLeaves
<1>2. ASSUME Return(c) PROVE CallerLeaves(c)
  BY <1>2, CallerFrames DEF CallerLeaves
<1>3. ASSUME NEW m, ReturnOrSignal(c, m) PROVE CallerLeaves(c)
  BY <1>3, ReturnOrSignalFrames DEF CallerLeaves
<1> QED BY <1>1, <1>2, <1>3

\* A step of a caller that changes no record.
LEMMA QuietCaller ==
  ASSUME TypeOK, DeliveryInv, NEW c \in Callers, CallerLeaves(c),
         mem'.st = mem.st, outcome' = outcome,
         \A p \in Procs \ {c} : fresh'[p] => fresh[p],
         \A d \in Callers \ {c} : own'[d] => own[d],
         ~fresh'[c], ~own'[c],
         AddsNew(c)'
  PROVE  DeliveryInv'
<1>1. CallerMay(c) BY DEF CallerMay
<1>2. CallerRevises(c) BY DEF CallerRevises
<1>3. EditIsCurrent(c)' /\ ChangeIsOwn(c)' BY DEF EditIsCurrent, ChangeIsOwn
<1> QED BY <1>1, <1>2, <1>3, FramedCaller

\* A decision of the user on one record.
LEMMA MutateDelivery ==
  ASSUME TypeOK, DeliveryInv, NEW c \in Callers,
         NEW op \in Mutations, NEW j \in Jobs,
         NEW s \in {"cancelled", "queued", "skipped", "sent"},
         Mutate(c, op, j, s),
         mem.st[j] \notin {"uploading", "sending"},
         \A k \in Jobs : outcome'[k] = "open" => outcome[k] = "open",
         outcome'[j] = "open" => s \in Settled
  PROVE  DeliveryInv'
<1> USE DEF TypeOK
<1>1. CallerLeaves(c)
  BY CallerLeavesBy DEF Mutate
<1>2. mem'.st = [mem.st EXCEPT ![j] = s] /\ mem.st[j] # "absent"
  BY DEF Mutate, SetJob, Present, Document
<1>3. mem.st \in [Jobs -> JobState] BY DEF Document
<1>4. CallerMay(c) BY <1>2, <1>3 DEF CallerMay
<1>5. Touch(c) BY DEF Mutate
<1>6. CallerRevises(c) BY <1>5, TouchFrames DEF CallerRevises
<1>7. EditIsCurrent(c)' BY <1>5, TouchFrames DEF EditIsCurrent, Procs
<1>8. call'[c] = [NoCall EXCEPT !.op = op, !.job = j, !.state = mem.st[j]]
  BY DEF Mutate
<1>9. call'[c].op = op /\ call'[c].job = j /\ call'[c].state = mem.st[j]
  BY <1>8 DEF NoCall
<1>10. AddsNew(c)' BY <1>9 DEF AddsNew, Mutations
<1>11. outcome'[j] = "open" => mem.st[j] \in Settled BY DEF DeliveryInv, OpenIsSettled
<1>12. pc'[c] = "snap" BY CallerFrames DEF Mutate
<1>13. ChangeIsOwn(c)'
  BY <1>2, <1>3, <1>9, <1>11, <1>12 DEF ChangeIsOwn, PersistPoints
<1> QED BY <1>1, <1>4, <1>6, <1>7, <1>10, <1>13, FramedCaller

\* Beginning a call keeps DeliveryInv.
LEMMA CallerBeginsDelivery ==
  ASSUME TypeOK, DeliveryInv, NEW c \in Callers, CallerBegins(c)
  PROVE  DeliveryInv'
<1> USE DEF TypeOK
<1>0. c \in Procs /\ NoCaller \notin Callers
  BY ConstantsAssumption DEF ConstantsAssumption, Procs
<1>i. pc[c] = "idle" => ~fresh[c] /\ ~own[c] BY NothingHeld DEF PersistPoints
<1>1. ASSUME NEW r, BeginEdit(c, r), r.op # "add", used' = used PROVE DeliveryInv'
  <2>1. \A d \in Callers \ {c} : call'[d] = call[d] BY <1>1 DEF BeginEdit
  <2>2. CallerLeaves(c) BY <1>0, <1>1, <2>1, CallerLeavesBy DEF BeginEdit
  <2>3. AddsNew(c)' BY <1>1 DEF BeginEdit, AddsNew
  <2> QED BY <1>i, <1>1, <2>2, <2>3, QuietCaller DEF BeginEdit, Begin, revs
<1>2. CASE AddJobs(c)
  <2>1. PICK j \in Jobs \ used, s \in {"queued", "oversize"} :
          /\ BeginEdit(c, [NoCall EXCEPT !.op = "add", !.sel = {j}, !.state = s])
          /\ used' = used \cup {j}
    BY <1>2 DEF AddJobs
  <2>2. \A d \in Callers \ {c} : call'[d] = call[d] BY <2>1 DEF BeginEdit
  <2>3. CallerLeaves(c) BY <1>0, <2>1, <2>2, CallerLeavesBy DEF BeginEdit
  <2>4. call'[c].sel = {j} BY <2>1 DEF BeginEdit, NoCall
  <2>5. mem.st[j] = "absent" /\ outcome[j] # "open"
    BY DEF DeliveryInv, IdsAreNew, UnusedAreAbsent
  <2>6. mem' = mem /\ outcome' = outcome /\ opMu' = c /\ revs' = revs BY <2>1 DEF BeginEdit
  <2>7. AddsNew(c)' BY <2>1, <2>4, <2>5, <2>6 DEF AddsNew
  <2> QED BY <1>i, <2>1, <2>3, <2>6, <2>7, QuietCaller DEF BeginEdit, Begin, revs
<1>3. CASE RemoveJobs(c) \/ RemoveCompleted(c) \/ ResetJobs(c)
  BY <1>1, <1>3 DEF RemoveJobs, RemoveCompleted, ResetJobs, NoCall
<1>4. CASE ApplyUploadLimit(c) \/ SetChannel(c)
  BY <1>1, <1>4 DEF ApplyUploadLimit, SetChannel, NoCall
<1>5. ASSUME NEW op \in {"pause", "resume"}, NEW b, NEW r, NEW sig,
             ChangePause(c, op, b, r, sig)
      PROVE  DeliveryInv'
  <2>1. call'[c].op = op BY <1>5 DEF ChangePause, NoCall
  <2>2. \A d \in Callers \ {c} : call'[d] = call[d] BY <1>5 DEF ChangePause
  <2>3. \A d \in Callers \ {c} : opMu = d => opMu' = d
    BY <1>0, <1>5 DEF ChangePause, MaybeExclusive
  <2>4. CallerLeaves(c) BY <1>5, <2>2, <2>3, CallerLeavesBy DEF ChangePause
  <2>5. mem'.st = mem.st BY <1>5 DEF ChangePause, Document
  <2>6. AddsNew(c)' BY <2>1 DEF AddsNew
  <2>7. Touch(NoCaller) BY <1>5 DEF ChangePause
  <2> QED BY <1>0, <1>5, <2>4, <2>5, <2>6, <2>7, TouchFrames, QuietCaller DEF ChangePause
<1>6. CASE Pause(c) \/ Resume(c) BY <1>5, <1>6 DEF Pause, Resume
<1>7. CASE Start(c)
  <2>1. call'[c].op = "start" BY <1>7 DEF Start, Forget, NoCall
  <2>2. \A d \in Callers \ {c} :
          /\ call'[d].op = call[d].op /\ call'[d].sel = call[d].sel
          /\ call'[d].job = call[d].job /\ call'[d].state = call[d].state
    BY <1>7 DEF Start, Forget, CallType
  <2>3. CallerLeaves(c) BY <1>0, <1>7, <2>2, CallerFrames DEF Start, CallerLeaves
  <2>4. mem'.st = mem.st BY <1>7 DEF Start, Document
  <2>5. AddsNew(c)' BY <2>1 DEF AddsNew
  <2>6. (revs' = revs \/ Touch(NoCaller)) /\ pc[c] = "idle" /\ outcome' = outcome
    BY <1>7 DEF Start, Begin
  <2> QED BY <1>0, <1>i, <2>3, <2>4, <2>5, <2>6, TouchFrames, QuietCaller DEF revs
<1>8. ASSUME NEW j \in Jobs, CancelActive(c, j) PROVE DeliveryInv'
  <2>1. call'[c].op = "cancel" BY <1>8 DEF CancelActive, NoCall
  <2>2. \A d \in Callers \ {c} : call'[d] = call[d] BY <1>8 DEF CancelActive
  <2>3. CallerLeaves(c) BY <1>8, <2>2, CallerLeavesBy DEF CancelActive
  <2>4. AddsNew(c)' BY <2>1 DEF AddsNew
  <2> QED BY <1>i, <1>8, <2>3, <2>4, QuietCaller DEF CancelActive, Begin, revs
<1>9. CASE CancelAll(c)
  <2>1. call'[c].op = "cancelAll" BY <1>9 DEF CancelAll, NoCall
  <2>2. \A d \in Callers \ {c} : call'[d] = call[d] BY <1>9 DEF CancelAll
  <2>3. CallerLeaves(c) BY <1>9, <2>2, CallerLeavesBy DEF CancelAll
  <2>4. AddsNew(c)' BY <2>1 DEF AddsNew
  <2> QED BY <1>i, <1>9, <2>3, <2>4, QuietCaller DEF CancelAll, Begin, revs
<1>o. \A j \in Jobs : outcome[j] = "open" => mem.st[j] \in Settled
  BY DEF DeliveryInv, OpenIsSettled
<1>10. ASSUME NEW j \in Jobs, CancelWaiting(c, j) PROVE DeliveryInv'
  BY <1>o, <1>10, MutateDelivery DEF CancelWaiting, Cancellable, Settled, Mutations
<1>11. CASE Retry(c)
  BY <1>11, MutateDelivery DEF Retry, Retryable, Mutations
<1>12. CASE Skip(c)
  BY <1>12, MutateDelivery DEF Skip, Skippable, Mutations
<1>13. CASE MarkSent(c)
  BY <1>13, MutateDelivery DEF MarkSent, Settled, Mutations
<1> QED
  BY <1>2, <1>3, <1>4, <1>6, <1>7, <1>8, <1>9, <1>10, <1>11, <1>12, <1>13
  DEF CallerBegins, CancelJob

\* Every edit only prepares what MayPrepare allows.
LEMMA EditsMayPrepare ==
  ASSUME NEW c \in Callers, NEW j \in Jobs
  PROVE  MayPrepare(c, j, mem.st[j], Candidate(c).st[j])
<1>0. c # Runner BY ConstantsAssumption DEF ConstantsAssumption
<1>1. Candidate(c).st[j] = Edited(c, j) BY DEF Candidate
<1>2. MayPrepare(c, j, mem.st[j], Edited(c, j))
  <2> DEFINE s == mem.st[j]
             op == call[c].op
  <2>1. CASE op = "cancelAll" /\ s \in Cancellable
    BY <2>1 DEF Edited, MayPrepare
  <2>2. CASE op = "remove" /\ j \in call[c].sel /\ s \in Removable /\ j # ctl.active
    BY <2>2 DEF Edited, MayPrepare
  <2>3. CASE op = "removeCompleted" /\ s \in Completed
    BY <2>3 DEF Edited, MayPrepare, Completed, Removable, JobState
  <2>4. CASE op = "reset" /\ MatchesReset(call[c].mode, s, j \in call[c].sel)
    BY <2>4 DEF Edited, MayPrepare, MatchesReset
  <2>5. CASE op = "limit"
    BY <2>5 DEF Edited, MayPrepare, LimitEditable
  <2>6. CASE op = "add" /\ j \in call[c].sel /\ s = "absent"
    BY <1>0, <2>6 DEF MayPrepare
  <2>7. CASE Edited(c, j) = s BY <2>7 DEF MayPrepare
  <2> QED BY <2>1, <2>2, <2>3, <2>4, <2>5, <2>6, <2>7 DEF Edited
<1> QED BY <1>1, <1>2

\* Publishing a candidate whose revision is current keeps DeliveryInv.
LEMMA CommitDelivery ==
  ASSUME TypeOK, DeliveryInv, NEW c \in Callers, NEW ops, Committing(c, ops),
         CallerLeaves(c), AddsNew(c)',
         mem'.st = cand[c].st,
         \A j \in Jobs : outcome'[j] = "open" => outcome[j] = "open"
  PROVE  DeliveryInv'
<1>0. c \in Procs /\ c # Runner /\ NoCaller \notin Callers
  BY ConstantsAssumption DEF ConstantsAssumption, Procs
<1>1. \A j \in Jobs : MayPrepare(c, j, mem.st[j], cand[c].st[j])
  BY <1>0 DEF Committing, DeliveryInv, FreshIsCurrent, EditIsCurrent
<1>2. CallerMay(c)
  <2>1. ASSUME NEW j \in Jobs, mem'.st[j] # mem.st[j]
        PROVE  /\ mem.st[j] \notin {"uploading", "sending"}
               /\ outcome'[j] = "open" => mem'.st[j] \in Settled
               /\ mem.st[j] = "absent" => j \in used /\ opMu = c
    <3>1. outcome'[j] = "open" => mem.st[j] \in Settled
      BY DEF DeliveryInv, OpenIsSettled
    <3>2. CASE mem.st[j] = "absent" /\ call[c].op = "add" /\ j \in call[c].sel
      BY <3>2 DEF DeliveryInv, IdsAreNew, AddsNew
    <3>3. CASE ~(mem.st[j] = "absent" /\ call[c].op = "add" /\ j \in call[c].sel)
      BY <1>0, <1>1, <2>1, <3>1, <3>3
      DEF MayPrepare, Cancellable, Removable, Recoverable, LimitEditable, Settled
    <3> QED BY <3>2, <3>3
  <2> QED BY <2>1 DEF CallerMay
<1>3. Touch(NoCaller) BY DEF Committing
<1>4. CallerRevises(c) BY <1>0, <1>3, TouchFrames DEF CallerRevises
<1>5. EditIsCurrent(c)' /\ ChangeIsOwn(c)'
  BY <1>0, <1>3, TouchFrames DEF EditIsCurrent, ChangeIsOwn
<1> QED BY <1>2, <1>4, <1>5, FramedCaller

\* Continuing a call keeps DeliveryInv.
LEMMA CallerContinuesDelivery ==
  ASSUME TypeOK, DeliveryInv, NEW c \in Callers, CallerContinues(c), ~StartSaved(c)
  PROVE  DeliveryInv'
<1> USE DEF TypeOK
<1>0. c \in Procs /\ c # Runner /\ NoCaller \notin Callers
  BY ConstantsAssumption DEF ConstantsAssumption, Procs
<1>i. /\ pc[c] \in {"failed", "snap", "signal", "presignal"} => ~fresh[c]
      /\ pc[c] = "saved" /\ call[c].op \notin Edits => ~fresh[c]
      /\ pc[c] \in {"signal", "presignal"} \/ call[c].op \notin Mutations => ~own[c]
  BY NothingHeld DEF PersistPoints
<1>r. Return(c) => AddsNew(c)' BY CallerFrames DEF AddsNew, NoCall
<1>s. ASSUME NEW m, ReturnOrSignal(c, m), call[c].op # "add" PROVE AddsNew(c)'
  BY <1>s, ReturnOrSignalFrames DEF AddsNew, NoCall
<1>t. ASSUME call'[c].op = call[c].op, call'[c].sel = call[c].sel, opMu' = opMu,
             used' = used, mem' = mem, outcome' = outcome
      PROVE  AddsNew(c)'
  BY <1>t DEF DeliveryInv, IdsAreNew, AddsNew
<1>1. CASE MutationFailed(c)
  <2>1. Return(c) /\ pc[c] = "failed" BY <1>1 DEF MutationFailed
  <2>2. CallerLeaves(c) BY <1>1, <2>1, CallerLeavesBy DEF MutationFailed
  <2>3. AddsNew(c)' BY <1>r, <2>1
  <2>4. CASE own[c]
    <3> DEFINE j == call[c].job
               s == call[c].state
    <3>1. /\ j \in Jobs
          /\ mem.st[j] \in {"cancelled", "queued", "skipped", "sent"}
          /\ outcome[j] = "open" => s \in Settled
      BY <2>4 DEF DeliveryInv, OwnIsCurrent, ChangeIsOwn
    <3>2. Present(j) BY <3>1 DEF Present, Jobs, NoJob
    <3>3. SetJob(j, s) /\ Touch(NoCaller) /\ outcome' = outcome
      BY <1>1, <2>4, <3>2 DEF MutationFailed
    <3>4. mem'.st = [mem.st EXCEPT ![j] = s] BY <3>3 DEF SetJob, Document
    <3>5. CallerMay(c) BY <3>1, <3>3, <3>4 DEF CallerMay, Document
    <3>6. CallerRevises(c) BY <1>0, <3>3, TouchFrames DEF CallerRevises
    <3>7. EditIsCurrent(c)' /\ ChangeIsOwn(c)'
      BY <1>0, <3>3, TouchFrames DEF EditIsCurrent, ChangeIsOwn
    <3> QED BY <2>2, <2>3, <3>5, <3>6, <3>7, FramedCaller
  <2>5. CASE ~own[c]
    BY <1>i, <1>1, <2>1, <2>2, <2>3, <2>5, QuietCaller DEF MutationFailed, revs
  <2> QED BY <2>4, <2>5
<1>2. CASE CallSaved(c)
  <2>1. CallerLeaves(c) BY <1>2, CallerLeavesBy DEF CallSaved
  <2>2. AddsNew(c)' BY <1>r, <1>t, <1>2 DEF CallSaved
  <2>3. ~fresh[c] BY <1>i, <1>2 DEF CallSaved, Mutations, Edits
  <2> QED BY <1>2, <2>1, <2>2, <2>3, QuietCaller DEF CallSaved
<1>3. CASE Signal(c)
  <2>1. CASE pc[c] = "signal"
    BY <1>i, <1>r, <1>3, <2>1, CallerLeavesBy, QuietCaller DEF Signal, revs
  <2>2. CASE pc[c] = "presignal"
    <3>1. call' = [call EXCEPT ![c].sig = "none"] BY <1>3, <2>2 DEF Signal
    <3>2. call'[c].op = call[c].op /\ call'[c].sel = call[c].sel BY <3>1 DEF CallType
    <3>3. CallerLeaves(c) BY <1>3, <2>2, <3>1, CallerLeavesBy DEF Signal
    <3>4. AddsNew(c)' BY <1>t, <1>3, <2>2, <3>2 DEF Signal
    <3> QED BY <1>i, <1>3, <2>2, <3>3, <3>4, QuietCaller DEF Signal, revs
  <2> QED BY <1>3, <2>1, <2>2 DEF Signal
<1>4. CASE PauseFailed(c)
  <2>1. mem'.st = mem.st BY <1>4 DEF PauseFailed, Document
  <2>2. CallerLeaves(c) BY <1>4, CallerLeavesBy DEF PauseFailed
  <2>3. ~fresh[c] /\ ~own[c] BY <1>i, <1>4 DEF PauseFailed, Mutations
  <2> QED BY <1>r, <1>4, <2>1, <2>2, <2>3, QuietCaller DEF PauseFailed, revs
<1>5. CASE PrepareEdit(c)
  <2>1. /\ mem' = mem /\ outcome' = outcome /\ own' = own /\ call' = call /\ run' = run
        /\ fresh' = [fresh EXCEPT ![c] = TRUE] /\ cand' = [cand EXCEPT ![c] = Candidate(c)]
        /\ used' = used /\ opMu' = opMu /\ Goto(c, "lock")
    BY <1>5 DEF PrepareEdit, Prepare
  <2>2. CallerLeaves(c) BY <1>5, <2>1, CallerLeavesBy DEF PrepareEdit, Prepare
  <2>3. CallerMay(c) /\ CallerRevises(c) BY <2>1 DEF CallerMay, CallerRevises
  <2>4. EditIsCurrent(c)'
    <3>1. pc'[c] = "lock" BY <2>1, CallerFrames
    <3>2. cand'[c] = Candidate(c) BY <1>0, <2>1
    <3>3. \A j \in Jobs : MayPrepare(c, j, mem.st[j], Candidate(c).st[j])
      BY EditsMayPrepare
    <3>4. \A j, s, t : MayPrepare(c, j, s, t)' <=> MayPrepare(c, j, s, t)
      BY <2>1 DEF MayPrepare
    <3> QED BY <2>1, <3>1, <3>2, <3>3, <3>4 DEF EditIsCurrent
  <2>5. ~own[c] BY <1>i, <1>5 DEF PrepareEdit, Edits, Mutations
  <2>6. ChangeIsOwn(c)' BY <2>1, <2>5 DEF ChangeIsOwn
  <2>7. AddsNew(c)' BY <1>t, <2>1
  <2> QED BY <2>2, <2>3, <2>4, <2>6, <2>7, FramedCaller
<1>6. CASE EditNothing(c)
  <2>1. PICK m : ReturnOrSignal(c, m) BY <1>6 DEF EditNothing
  <2>2. CallerLeaves(c) BY <1>6, <2>1, CallerLeavesBy DEF EditNothing
  <2>3. AddsNew(c)'
    BY <1>t, <1>6, <2>1, ReturnOrSignalFrames DEF EditNothing, AddsNew, NoCall
  <2>4. ~fresh[c] /\ ~own[c] BY <1>i, <1>6 DEF EditNothing, Edits, Mutations
  <2> QED BY <1>6, <2>2, <2>3, <2>4, QuietCaller DEF EditNothing, revs
<1>7. CASE EditFailed(c)
  <2>1. CallerLeaves(c) BY <1>7, CallerLeavesBy DEF EditFailed
  <2>2. ~fresh[c] /\ ~own[c] BY <1>i, <1>7 DEF EditFailed, Edits, Mutations
  <2> QED BY <1>r, <1>7, <2>1, <2>2, QuietCaller DEF EditFailed, revs
<1>8. CASE EditChanged(c)
  <2>1. CallerLeaves(c) BY <1>8, CallerLeavesBy DEF EditChanged
  <2>2. ~fresh[c] /\ ~own[c] BY <1>i, <1>8 DEF EditChanged, Edits, Mutations
  <2>3. AddsNew(c)' BY <1>t, <1>8 DEF EditChanged
  <2> QED BY <1>8, <2>1, <2>2, <2>3, QuietCaller DEF EditChanged, revs
<1>9. CASE CommitCandidate(c)
  <2>1. CallerLeaves(c) BY <1>9, CallerLeavesBy DEF CommitCandidate, Committing
  <2>2. mem'.st = cand[c].st BY <1>9 DEF CommitCandidate, Document
  <2>3. \A j \in Jobs : outcome'[j] = "open" => outcome[j] = "open"
    BY <1>9 DEF CommitCandidate
  <2> QED BY <1>r, <1>9, <2>1, <2>2, <2>3, CommitDelivery DEF CommitCandidate
<1>10. CASE CommitRemoval(c)
  <2>1. PICK m : ReturnOrSignal(c, m) BY <1>10 DEF CommitRemoval
  <2>2. CallerLeaves(c) BY <1>10, <2>1, CallerLeavesBy DEF CommitRemoval, Committing
  <2>3. AddsNew(c)' BY <1>s, <1>10, <2>1 DEF CommitRemoval, Committing
  <2>4. mem'.st = cand[c].st BY <1>10 DEF CommitRemoval, Document
  <2> QED BY <1>10, <2>2, <2>3, <2>4, CommitDelivery DEF CommitRemoval
<1>11. CASE CommitCancelAll(c)
  <2>1. call[c].op = "cancelAll" BY <1>11 DEF CommitCancelAll, Committing
  <2>2. mem'.st = cand[c].st BY <1>11 DEF CommitCancelAll, Document
  <2>3. CASE ctl.running
    <3>1. call' = [call EXCEPT ![c].sig = "run"] /\ Goto(c, "signal") /\ opMu' = opMu
      BY <1>11, <2>3 DEF CommitCancelAll
    <3>2. call'[c].op = call[c].op BY <3>1 DEF CallType
    <3>3. CallerLeaves(c) BY <1>11, <3>1, CallerLeavesBy DEF CommitCancelAll, Committing
    <3>4. AddsNew(c)' BY <2>1, <3>2 DEF AddsNew
    <3> QED BY <1>11, <2>2, <3>3, <3>4, CommitDelivery DEF CommitCancelAll
  <2>4. CASE ~ctl.running
    BY <1>r, <1>11, <2>2, <2>4, CallerLeavesBy, CommitDelivery
    DEF CommitCancelAll, Committing
  <2> QED BY <2>3, <2>4
<1>12. CASE CommitChannel(c)
  <2>1. CallerLeaves(c) BY <1>12, CallerLeavesBy DEF CommitChannel, Committing
  <2>2. mem'.st = mem.st BY <1>12 DEF CommitChannel, Document
  <2>3. Touch(NoCaller) BY <1>12 DEF CommitChannel, Committing
  <2> QED
    BY <1>0, <1>r, <1>12, <2>1, <2>2, <2>3, TouchFrames, QuietCaller DEF CommitChannel
<1>13. CASE StartFailed(c)
  <2>1. CallerLeaves(c) BY <1>13, CallerLeavesBy DEF StartFailed
  <2>2. mem'.st = mem.st /\ outcome' = outcome BY <1>13 DEF StartFailed, Document
  <2>3. ~fresh[c] /\ ~own[c] BY <1>i, <1>13 DEF StartFailed, Mutations
  <2>4. revs' = revs \/ Touch(NoCaller) BY <1>13 DEF StartFailed
  <2>5. AddsNew(c)' BY <1>r, <1>13 DEF StartFailed
  <2> QED BY <1>0, <2>1, <2>2, <2>3, <2>4, <2>5, TouchFrames, QuietCaller DEF revs
<1> QED
  BY <1>1, <1>2, <1>3, <1>4, <1>5, <1>6, <1>7, <1>8, <1>9, <1>10, <1>11, <1>12, <1>13
  DEF CallerContinues

-----------------------------------------------------------------------------
(* The upload goroutine: the frame.                                        *)

\* A step of the goroutine leaves the file and the progress of the callers alone.
RunnerLeaves ==
  /\ UNCHANGED <<disk, used, opMu>>
  /\ pc'[Runner] \notin {"save", "check", "saved"}
  /\ \A c \in Callers :
       /\ pc'[c] = pc[c] /\ cand'[c] = cand[c]
       /\ call'[c].op = call[c].op
       /\ call'[c].sel = call[c].sel
       /\ call'[c].job = call[c].job
       /\ call'[c].state = call[c].state

\* What it may do to records.
RunnerMay ==
  /\ outcome' = outcome
  /\ \A j \in Jobs : mem'.st[j] # mem.st[j] =>
       /\ mem.st[j] # "absent"
       /\ outcome[j] = "open" => mem'.st[j] \in Settled

\* It advances queueRevision when it changes a record.
RunnerRevises ==
  \A c \in Callers :
    /\ fresh'[c] => fresh[c] /\ mem'.st = mem.st
    /\ own'[c] => own[c] /\ mem'.st = mem.st

\* It comes to the submission only from a save of "sending".
SubmitsSaved ==
  pc'[Runner] \in {"submit", "slot", "inflight"} =>
    run'.job = run.job /\ SendingSaved({"check", "saved"})

\* Such a step keeps DeliveryInv, if what concerns the goroutine itself is right.
LEMMA FramedRunner ==
  ASSUME TypeOK, DeliveryInv, RunnerLeaves, RunnerMay, RunnerRevises, SubmitsSaved,
         EditIsCurrent(Runner)', NotYetSubmitted', RecordFollows'
  PROVE  DeliveryInv'
<1>0. Runner \in Procs /\ Runner \notin Callers /\ Callers = Procs \ {Runner}
  BY ConstantsAssumption DEF ConstantsAssumption, Procs
<1>1. OpenIsSettled'
  BY DEF OpenIsSettled, DeliveryInv, RunnerMay, RunnerLeaves
<1>2. FreshIsCurrent'
  <2>1. ASSUME NEW c \in Callers, fresh'[c] PROVE EditIsCurrent(c)'
    <3>1. EditIsCurrent(c) /\ fresh[c] /\ mem'.st = mem.st
      BY <1>0, <2>1 DEF DeliveryInv, FreshIsCurrent, RunnerRevises
    <3>2. pc'[c] = pc[c] /\ cand'[c] = cand[c] /\ c # Runner
          /\ call'[c].op = call[c].op /\ call'[c].sel = call[c].sel
      BY <1>0 DEF RunnerLeaves
    <3>3. Plain(c)' <=> Plain(c) BY <3>2 DEF Plain
    <3>4. \A j, s, t : MayPrepare(c, j, s, t)' <=> MayPrepare(c, j, s, t)
      BY <3>2 DEF MayPrepare
    <3>5. \A j \in Jobs : MayPrepare(c, j, mem.st[j], cand[c].st[j])'
      BY <3>1, <3>2, <3>4 DEF EditIsCurrent
    <3> QED BY <3>1, <3>2, <3>3, <3>5 DEF EditIsCurrent
  <2>2. \A c \in Callers : EditIsCurrent(c)' BY <2>1 DEF EditIsCurrent
  <2> QED BY <1>0, <2>2 DEF FreshIsCurrent
<1>3. OwnIsCurrent'
  BY DEF DeliveryInv, OwnIsCurrent, ChangeIsOwn, RunnerLeaves, RunnerMay, RunnerRevises
<1>4. NoOlderSave'
  <2>1. \A p \in Procs : pc'[p] = "save" => pc[p] = "save" /\ cand'[p] = cand[p]
    BY <1>0 DEF RunnerLeaves
  <2>2. SendingSaved({"check", "saved"}) => SendingSaved({"save", "check", "saved"})
    BY DEF SendingSaved
  <2>3. \A points \in SUBSET {"save", "check", "saved"} :
          SendingSaved(points)' => run'.job = run.job /\ SendingSaved({"check", "saved"})
    BY DEF SendingSaved, SubmitsSaved, RunnerLeaves
  <2> QED BY <2>1, <2>2, <2>3 DEF DeliveryInv, NoOlderSave, RunnerLeaves, RunnerMay
<1>5. IdsAreNew'
  <2>1. \A p \in Procs : pc'[p] = "save" => pc[p] = "save" /\ cand'[p] = cand[p]
    BY <1>0 DEF RunnerLeaves
  <2>2. UnusedAreAbsent'
    BY <2>1 DEF DeliveryInv, IdsAreNew, UnusedAreAbsent, RunnerLeaves, RunnerMay
  <2>3. ASSUME NEW c \in Callers PROVE AddsNew(c)'
    <3>1. used \subseteq Jobs BY DEF TypeOK
    <3>2. AddsNew(c) BY DEF DeliveryInv, IdsAreNew
    <3> QED BY <3>1, <3>2 DEF AddsNew, RunnerLeaves, RunnerMay
  <2> QED BY <2>2, <2>3 DEF IdsAreNew
<1> QED BY <1>1, <1>2, <1>3, <1>4, <1>5 DEF DeliveryInv

\* Where the goroutine holds no candidate.
LEMMA RunnerHoldsNothing ==
  ASSUME DeliveryInv, pc[Runner] \notin {"lock", "save", "check"},
         pc[Runner] = "saved" => run.at # "remove"
  PROVE  ~fresh[Runner]
BY DEF Procs, DeliveryInv, FreshIsCurrent, EditIsCurrent, Plain

\* Its helpers move the goroutine only.
LEMMA RunnerFrames ==
  ASSUME TypeOK
  PROVE  /\ \A l : Goto(Runner, l) => /\ pc'[Runner] = l
                                      /\ \A c \in Callers : pc'[c] = pc[c]
         /\ \A sig : call' = Forget(sig) =>
              \A c \in Callers : /\ call'[c].op = call[c].op
                                 /\ call'[c].sel = call[c].sel
                                 /\ call'[c].job = call[c].job
                                 /\ call'[c].state = call[c].state
<1>1. Runner \in Procs /\ Runner \notin Callers
  BY ConstantsAssumption DEF ConstantsAssumption, Procs
<1>2. \A l : Goto(Runner, l) => /\ pc'[Runner] = l
                                /\ \A c \in Callers : pc'[c] = pc[c]
  BY <1>1 DEF TypeOK, Goto, Procs
<1>3. \A sig : call' = Forget(sig) =>
        \A c \in Callers : /\ call'[c].op = call[c].op
                           /\ call'[c].sel = call[c].sel
                           /\ call'[c].job = call[c].job
                           /\ call'[c].state = call[c].state
  BY DEF Forget, TypeOK, CallType
<1> QED BY <1>2, <1>3

\* Where the goroutine goes without touching a record: it may come to be before a
\* submission only from there or with a record it may run, and to the points where
\* the state of its record is known only from such a point.
RunnerContinues ==
  /\ BeforeSubmission' =>
       \/ BeforeSubmission /\ run'.job = run.job
       \/ run'.job \in Jobs /\ mem.st[run'.job] \in Runnable
  /\ At({"upload", "beforeSend"}, "uploading")' =>
       At({"upload", "beforeSend"}, "uploading") /\ run'.job = run.job
  /\ At({"submit", "slot", "inflight"}, "sending")' =>
       At({"submit", "slot", "inflight"}, "sending") /\ run'.job = run.job
  /\ SubmitsSaved

\* A step of the goroutine that touches no record.
LEMMA QuietRunner ==
  ASSUME TypeOK, DeliveryInv, RunnerLeaves, RunnerContinues,
         mem' = mem, outcome' = outcome,
         \A c \in Callers : (fresh'[c] => fresh[c]) /\ (own'[c] => own[c]),
         ~fresh'[Runner]
  PROVE  DeliveryInv'
<1>1. RunnerMay /\ RunnerRevises /\ SubmitsSaved
  BY DEF RunnerMay, RunnerRevises, RunnerContinues
<1>2. EditIsCurrent(Runner)' BY DEF EditIsCurrent
<1>3. \A j \in Jobs : mem.st[j] \in Runnable => outcome[j] # "open"
  BY DEF DeliveryInv, OpenIsSettled, Runnable, Settled
<1>4. NotYetSubmitted'
  BY <1>3 DEF DeliveryInv, NotYetSubmitted, RunnerContinues
<1>5. RecordFollows'
  BY DEF DeliveryInv, RecordFollows, RunnerContinues
<1> QED BY <1>1, <1>2, <1>4, <1>5, FramedRunner

\* A step of the goroutine that sets its record to s, or finds it removed, and
\* then persists.
LEMMA PersistRunner ==
  ASSUME TypeOK, DeliveryInv, Goto(Runner, "snap"),
         UNCHANGED <<disk, call, cand, opMu, outcome, used>>,
         NEW s,
         \/ SetJob(run.job, s) /\ Present(run.job) /\ Touch(Runner)
         \/ UNCHANGED mem /\ (Touch(Runner) \/ (UNCHANGED revs /\ ~fresh[Runner])),
         run'.job = run.job,
         Present(run.job) /\ outcome[run.job] = "open" => s \in Settled,
         run'.at \in {"uploading", "sending", "retry"} => BeforeSubmission,
         run'.at \in {"uploading", "sending"} => mem'.st[run.job] = run'.at
  PROVE  DeliveryInv'
<1> USE DEF TypeOK
<1>0. Runner \in Procs /\ Runner \notin Callers
  BY ConstantsAssumption DEF ConstantsAssumption, Procs
<1>1. pc'[Runner] = "snap" /\ \A c \in Callers : pc'[c] = pc[c] BY RunnerFrames
<1>2. RunnerLeaves BY <1>1 DEF RunnerLeaves
<1>3. RunnerMay BY DEF RunnerMay, SetJob, Present, Document
<1>4. RunnerRevises
  <2>1. CASE Touch(Runner)
    <3>1. \A c \in Callers : ~fresh'[c] /\ ~own'[c] BY <1>0, <2>1, TouchFrames DEF Procs
    <3> QED BY <3>1 DEF RunnerRevises
  <2>2. CASE UNCHANGED mem /\ UNCHANGED revs BY <2>2 DEF RunnerRevises, revs
  <2> QED BY <2>1, <2>2
<1>5. SubmitsSaved BY <1>1 DEF SubmitsSaved
<1>6. EditIsCurrent(Runner)' BY <1>0, TouchFrames DEF EditIsCurrent, revs
<1>7. NotYetSubmitted'
  BY <1>1 DEF NotYetSubmitted, BeforeSubmission, PersistPoints, DeliveryInv
<1>8. RecordFollows'
  BY <1>1 DEF RecordFollows, At, PersistPoints, BeforeSubmission, DeliveryInv, NotYetSubmitted
<1> QED BY <1>2, <1>3, <1>4, <1>5, <1>6, <1>7, <1>8, FramedRunner

-----------------------------------------------------------------------------
(* The upload goroutine: the actions.                                      *)

\* A step that only moves the goroutine on, from a point where it holds no
\* candidate.
RunnerMovesOn(l) ==
  /\ Goto(Runner, l)
  /\ UNCHANGED <<mem, disk, outcome, used, opMu, revs>>
  /\ \A c \in Callers : cand'[c] = cand[c]
  /\ call' = call \/ \E sig : call' = Forget(sig)
  /\ pc[Runner] \notin {"lock", "save", "check"}
  /\ pc[Runner] = "saved" => run.at # "remove"

\* It keeps DeliveryInv if it is a continuation.
LEMMA MovesOnDelivery ==
  ASSUME TypeOK, DeliveryInv, NEW l, l \notin {"save", "check", "saved"},
         RunnerMovesOn(l), RunnerContinues
  PROVE  DeliveryInv'
<1>1. RunnerLeaves BY RunnerFrames DEF RunnerMovesOn, RunnerLeaves
<1>2. ~fresh[Runner] BY RunnerHoldsNothing DEF RunnerMovesOn
<1> QED BY <1>1, <1>2, QuietRunner DEF RunnerMovesOn, revs

\* The end of an attempt that was not submitted, or whose answer has come.
LEMMA EndDelivery ==
  ASSUME TypeOK, DeliveryInv, NEW e, run' = [run EXCEPT !.err = e], RunnerMovesOn("ended"),
         BeforeSubmission \/ e \in {"ok", "unknown"}
  PROVE  DeliveryInv'
<1>1. run'.job = run.job /\ run'.at = run.at /\ run'.err = e BY DEF TypeOK, RunType
<1>2. pc'[Runner] = "ended" BY RunnerFrames DEF RunnerMovesOn
<1>3. RunnerContinues
  BY <1>1, <1>2 DEF RunnerContinues, BeforeSubmission, At, SubmitsSaved, PersistPoints
<1> QED BY <1>3, MovesOnDelivery

\* The beginning of an attempt.
LEMMA AttemptBeginsDelivery ==
  ASSUME TypeOK, DeliveryInv,
         NextJob \/ JobContext \/ BeginAttempt \/ OpenVerifiedJob \/ Reserve
           \/ ReserveRefused \/ ReserveLost \/ Boundary
  PROVE  DeliveryInv'
<1> USE DEF RunnerOnly, End, Persisted
<1>0. \A l : Goto(Runner, l) => pc'[Runner] = l BY RunnerFrames
<1>c. ASSUME NEW l \in {"cleanup", "attempt", "open", "reserve"},
             RunnerMovesOn(l), run' = run, BeforeSubmission
      PROVE  DeliveryInv'
  <2>1. RunnerContinues
    BY <1>0, <1>c DEF RunnerMovesOn, RunnerContinues, At, SubmitsSaved, PersistPoints
  <2> QED BY <1>c, <2>1, MovesOnDelivery
<1>1. CASE NextJob
  <2>1. CASE NothingToStart
    <3>1. RunnerMovesOn("cleanup") /\ run' = run BY <1>1, <2>1 DEF NextJob, RunnerMovesOn
    <3>2. RunnerContinues
      BY <1>0, <3>1
      DEF RunnerMovesOn, RunnerContinues, BeforeSubmission, At, SubmitsSaved, PersistPoints
    <3> QED BY <3>1, <3>2, MovesOnDelivery
  <2>2. CASE ~NothingToStart
    <3>1. RunnerMovesOn("selected") BY <1>1, <2>2 DEF NextJob, RunnerMovesOn
    <3>2. PICK j \in RunnableJobs : run' = [NoRun EXCEPT !.job = j, !.chan = mem.channel]
      BY <1>1, <2>2 DEF NextJob
    <3>3. run'.job = j BY <3>2 DEF NoRun
    <3>4. RunnerContinues
      BY <1>0, <3>1, <3>3
      DEF RunnerMovesOn, RunnerContinues, RunnableJobs, At, SubmitsSaved, PersistPoints
    <3> QED BY <3>1, <3>4, MovesOnDelivery
  <2> QED BY <2>1, <2>2
<1>2. CASE JobContext
  BY <1>c, <1>2 DEF JobContext, RunnerMovesOn, BeforeSubmission
<1>3. CASE BeginAttempt
  <2>1. BeforeSubmission BY <1>3 DEF BeginAttempt, BeforeSubmission
  <2>2. CASE End("ctx") BY <1>3, <2>1, <2>2, EndDelivery DEF BeginAttempt, RunnerMovesOn
  <2>3. CASE End("paused") BY <1>3, <2>1, <2>3, EndDelivery DEF BeginAttempt, RunnerMovesOn
  <2>4. CASE RunnerOnly("open") /\ run' = run
    BY <1>3, <1>c, <2>1, <2>4 DEF BeginAttempt, RunnerMovesOn
  <2> QED BY <1>3, <2>2, <2>3, <2>4 DEF BeginAttempt
<1>4. CASE OpenVerifiedJob
  BY <1>4, <1>c, EndDelivery DEF OpenVerifiedJob, RunnerMovesOn, BeforeSubmission
<1>5. CASE Reserve
  <2>1. BeforeSubmission BY <1>5 DEF Reserve, BeforeSubmission
  <2>2. run.job \in Jobs /\ outcome[run.job] # "open"
    BY <2>1 DEF DeliveryInv, NotYetSubmitted
  <2>3. Present(run.job)
    BY <1>5, <2>2 DEF Reserve, MayReserve, Runnable, Present, Jobs, NoJob
  <2>4. run'.job = run.job /\ run'.at = "uploading"
    BY <1>5 DEF Reserve, TypeOK, RunType
  <2>5. mem'.st[run.job] = "uploading"
    BY <1>5, <2>2 DEF Reserve, SetJob, TypeOK, Document
  <2> QED
    BY <1>5, <2>1, <2>2, <2>3, <2>4, <2>5, PersistRunner DEF Reserve, RunnerPersist
<1>6. CASE ReserveRefused
  <2>1. PICK e : End(e) BY <1>6 DEF ReserveRefused
  <2> QED BY <1>6, <2>1, EndDelivery DEF ReserveRefused, RunnerMovesOn, BeforeSubmission
<1>7. CASE ReserveLost
  BY <1>7, EndDelivery DEF ReserveLost, RunnerMovesOn, BeforeSubmission, PersistPoints
<1>8. CASE Boundary
  <2>1. BeforeSubmission BY <1>8 DEF Boundary, BeforeSubmission, PersistPoints
  <2>2. CASE End("ctx") BY <1>8, <2>1, <2>2, EndDelivery DEF Boundary, RunnerMovesOn
  <2>3. CASE End("paused") BY <1>8, <2>1, <2>3, EndDelivery DEF Boundary, RunnerMovesOn
  <2>4. CASE RunnerOnly("upload") /\ run' = run
    <3>1. RunnerMovesOn("upload") BY <1>8, <2>4 DEF Boundary, RunnerMovesOn
    <3>2. RunnerContinues
      BY <1>0, <1>8, <2>1, <2>4, <3>1
      DEF Boundary, RunnerMovesOn, RunnerContinues, At, SubmitsSaved, PersistPoints
    <3> QED BY <3>1, <3>2, MovesOnDelivery
  <2> QED BY <1>8, <2>2, <2>3, <2>4 DEF Boundary
<1> QED BY <1>1, <1>2, <1>3, <1>4, <1>5, <1>6, <1>7, <1>8

\* The transfer: up to the submission, and the retry.
LEMMA TransferDelivery ==
  ASSUME TypeOK, DeliveryInv,
         UploadParts \/ UploadRejected \/ TransportError \/ TransportCancelled
           \/ PrepareSend \/ SendPrepared \/ PrepareLost \/ LastCheck \/ SendAnswered
  PROVE  DeliveryInv'
<1> USE DEF RunnerOnly, End, Persisted
<1>0. \A l : Goto(Runner, l) => pc'[Runner] = l BY RunnerFrames
<1>1. CASE UploadParts
  <2>1. RunnerMovesOn("beforeSend") BY <1>1 DEF UploadParts, RunnerMovesOn
  <2>2. RunnerContinues
    BY <1>0, <1>1, <2>1
    DEF UploadParts, RunnerMovesOn, RunnerContinues, BeforeSubmission, At, SubmitsSaved,
        PersistPoints
  <2> QED BY <2>1, <2>2, MovesOnDelivery
<1>2. CASE UploadRejected
  BY <1>2, EndDelivery DEF UploadRejected, RunnerMovesOn, BeforeSubmission
<1>3. CASE TransportError
  <2>1. CASE End("failed")
    BY <1>3, <2>1, EndDelivery DEF TransportError, RunnerMovesOn, BeforeSubmission
  <2>2. CASE RunnerOnly("retry") /\ run' = run
    <3>1. RunnerMovesOn("retry") BY <1>3, <2>2 DEF TransportError, RunnerMovesOn
    <3>2. RunnerContinues
      BY <1>0, <1>3, <2>2
      DEF TransportError, RunnerContinues, BeforeSubmission, At, SubmitsSaved, PersistPoints
    <3> QED BY <3>1, <3>2, MovesOnDelivery
  <2> QED BY <1>3, <2>1, <2>2 DEF TransportError
<1>4. CASE TransportCancelled
  BY <1>4, EndDelivery DEF TransportCancelled, RunnerMovesOn, BeforeSubmission
<1>5. CASE PrepareSend
  <2>1. BeforeSubmission BY <1>5 DEF PrepareSend, BeforeSubmission
  <2>2. run.job \in Jobs BY <2>1 DEF DeliveryInv, NotYetSubmitted
  <2>3. mem.st[run.job] = "uploading"
    BY <1>5 DEF PrepareSend, DeliveryInv, RecordFollows, At
  <2>4. SetJob(run.job, "sending") /\ run' = [run EXCEPT !.at = "sending"] /\ RunnerPersist
        /\ outcome' = outcome
    BY <1>5, <2>3 DEF PrepareSend
  <2>5. Present(run.job) BY <2>2, <2>3 DEF Present, Jobs, NoJob
  <2>6. run'.job = run.job /\ run'.at = "sending" BY <2>4 DEF TypeOK, RunType
  <2>7. mem'.st[run.job] = "sending" BY <2>2, <2>4 DEF SetJob, TypeOK, Document
  <2> QED BY <2>1, <2>4, <2>5, <2>6, <2>7, PersistRunner DEF RunnerPersist, Settled
<1>6. CASE SendPrepared
  <2>1. RunnerMovesOn("submit") BY <1>6 DEF SendPrepared, RunnerMovesOn
  <2>2. RunnerContinues
    BY <1>0, <1>6
    DEF SendPrepared, RunnerContinues, BeforeSubmission, At, SubmitsSaved, SendingSaved,
        PersistPoints
  <2> QED BY <2>1, <2>2, MovesOnDelivery
<1>7. CASE PrepareLost
  BY <1>7, EndDelivery DEF PrepareLost, RunnerMovesOn, BeforeSubmission, PersistPoints
<1>8. CASE LastCheck
  <2>1. RunnerMovesOn("slot") BY <1>8 DEF LastCheck, RunnerMovesOn
  <2>2. RunnerContinues
    BY <1>0, <1>8
    DEF LastCheck, RunnerContinues, BeforeSubmission, At, SubmitsSaved, SendingSaved,
        PersistPoints
  <2> QED BY <2>1, <2>2, MovesOnDelivery
<1>9. CASE SendAnswered
  BY <1>9, EndDelivery DEF SendAnswered, RunnerMovesOn
<1> QED BY <1>1, <1>2, <1>3, <1>4, <1>5, <1>6, <1>7, <1>8, <1>9

\* The submission itself: the record is "sending" in memory, in queue.json and in
\* whatever is just being written there.
LEMMA SubmitDelivery ==
  ASSUME TypeOK, DeliveryInv, Submit
  PROVE  DeliveryInv'
<1> USE DEF TypeOK
<1>0. Runner \in Procs /\ Runner \notin Callers
  BY ConstantsAssumption DEF ConstantsAssumption, Procs
<1> DEFINE j == run.job
<1>1. /\ pc'[Runner] = "inflight" /\ \A c \in Callers : pc'[c] = pc[c]
      /\ UNCHANGED <<mem, disk, run, call, cand, fresh, own, opMu, used>>
      /\ outcome' = [outcome EXCEPT ![j] = "open"]
  BY RunnerFrames DEF Submit, revs
<1>2. /\ j \in Jobs
      /\ mem.st[j] = "sending"
      /\ disk.st[j] = "sending"
      /\ \A p \in Procs : pc[p] = "save" => cand[p].st[j] = "sending"
  BY DEF Submit, DeliveryInv, NotYetSubmitted, BeforeSubmission, RecordFollows, At,
         NoOlderSave, SendingSaved
<1>3. \A k \in Jobs : outcome'[k] = "open" => k = j \/ outcome[k] = "open" BY <1>1
<1>4. OpenIsSettled'
  BY <1>1, <1>2, <1>3 DEF DeliveryInv, OpenIsSettled, Settled
<1>5. ~fresh[Runner] BY RunnerHoldsNothing DEF Submit
<1>6. FreshIsCurrent'
  <2>1. ASSUME NEW c \in Callers, fresh[c] PROVE EditIsCurrent(c)'
    <3>1. EditIsCurrent(c) BY DEF DeliveryInv, FreshIsCurrent, Procs
    <3>2. Plain(c)' <=> Plain(c) BY <1>0, <1>1 DEF Plain
    <3>3. \A k, s, t : MayPrepare(c, k, s, t)' <=> MayPrepare(c, k, s, t)
      BY <1>1 DEF MayPrepare
    <3> QED BY <1>1, <2>1, <3>1, <3>2, <3>3 DEF EditIsCurrent
  <2> QED BY <1>0, <1>1, <1>5, <2>1 DEF FreshIsCurrent, EditIsCurrent, Procs
<1>7. OwnIsCurrent'
  BY <1>1, <1>2, <1>3 DEF DeliveryInv, OwnIsCurrent, ChangeIsOwn
<1>8. NotYetSubmitted' /\ RecordFollows'
  BY <1>1, <1>2 DEF NotYetSubmitted, BeforeSubmission, RecordFollows, At, PersistPoints
<1>9. NoOlderSave'
  <2>1. \A p \in Procs : pc'[p] = "save" => pc[p] = "save" /\ cand'[p] = cand[p]
    BY <1>0, <1>1 DEF Procs
  <2> QED BY <1>1, <1>2, <1>3, <2>1 DEF DeliveryInv, NoOlderSave, Settled
<1>10. IdsAreNew'
  <2>1. \A p \in Procs : pc'[p] = "save" => pc[p] = "save" /\ cand'[p] = cand[p]
    BY <1>0, <1>1 DEF Procs
  <2>2. UnusedAreAbsent'
    BY <1>1, <1>2, <1>3, <2>1 DEF DeliveryInv, IdsAreNew, UnusedAreAbsent
  <2>3. ASSUME NEW c \in Callers PROVE AddsNew(c)'
    <3>1. AddsNew(c) BY DEF DeliveryInv, IdsAreNew
    <3> QED BY <1>1, <1>2, <1>3, <3>1 DEF AddsNew
  <2> QED BY <2>2, <2>3 DEF IdsAreNew
<1> QED BY <1>4, <1>6, <1>7, <1>8, <1>9, <1>10 DEF DeliveryInv

\* Before and after the wait for a retry.
LEMMA RetryDelivery ==
  ASSUME TypeOK, DeliveryInv,
         BeforeRetry \/ RetryLost \/ RetryWaitCancelled \/ RetryWaitOver
  PROVE  DeliveryInv'
<1> USE DEF Persisted
<1>0. \A l : Goto(Runner, l) => pc'[Runner] = l BY RunnerFrames
<1>1. CASE BeforeRetry
  <2>1. BeforeSubmission BY <1>1 DEF BeforeRetry, BeforeSubmission
  <2>2. CASE \E e : End(e)
    BY <1>1, <2>1, <2>2, EndDelivery DEF BeforeRetry, End, RunnerOnly, RunnerMovesOn
  <2>3. CASE ~\E e : End(e)
    <3>1. /\ SetJob(run.job, "uploading") /\ Present(run.job)
          /\ run' = [run EXCEPT !.at = "retry"] /\ RunnerPersist /\ outcome' = outcome
      BY <1>1, <2>3 DEF BeforeRetry
    <3>2. run'.job = run.job /\ run'.at = "retry" BY <3>1 DEF TypeOK, RunType
    <3>3. outcome[run.job] # "open" BY <2>1 DEF DeliveryInv, NotYetSubmitted
    <3> QED BY <2>1, <3>1, <3>2, <3>3, PersistRunner DEF RunnerPersist
  <2> QED BY <2>2, <2>3
<1>2. ASSUME NEW e, RetryWaitEnds("ended", [run EXCEPT !.err = e]),
             Persisted("retry", "failed") \/ Persisted("retry", "saved")
      PROVE  DeliveryInv'
  BY <1>2, EndDelivery DEF RetryWaitEnds, RunnerMovesOn, BeforeSubmission, PersistPoints
<1>3. CASE RetryLost BY <1>2, <1>3 DEF RetryLost
<1>4. CASE RetryWaitCancelled BY <1>2, <1>4 DEF RetryWaitCancelled
<1>5. CASE RetryWaitOver
  <2>1. CASE IsPaused BY <1>2, <1>5, <2>1 DEF RetryWaitOver
  <2>2. CASE ~IsPaused
    <3>1. RetryWaitEnds("attempt", [run EXCEPT !.retry = @ + 1, !.at = "none"])
      BY <1>5, <2>2 DEF RetryWaitOver
    <3>2. RunnerMovesOn("attempt") BY <1>5, <3>1 DEF RetryWaitOver, RetryWaitEnds, RunnerMovesOn
    <3>3. run'.job = run.job BY <3>1 DEF RetryWaitEnds, TypeOK, RunType
    <3>4. BeforeSubmission BY <1>5 DEF RetryWaitOver, BeforeSubmission, PersistPoints
    <3>5. RunnerContinues
      BY <1>0, <3>1, <3>3, <3>4
      DEF RetryWaitEnds, RunnerContinues, At, SubmitsSaved, PersistPoints
    <3> QED BY <3>2, <3>5, MovesOnDelivery
  <2> QED BY <2>1, <2>2
<1> QED BY <1>1, <1>3, <1>4, <1>5

\* Where the goroutine goes when it is done with a record.
LEMMA AwayDelivery ==
  ASSUME TypeOK, DeliveryInv, NEW l, RunnerMovesOn(l),
         \/ l \in {"next", "cleanup", "finish", "idle"}
         \/ l = "snap" /\ run'.at \in {"remove", "final"}
  PROVE  DeliveryInv'
<1>1. pc'[Runner] = l BY RunnerFrames DEF RunnerMovesOn
<1>2. RunnerContinues
  BY <1>1 DEF RunnerContinues, BeforeSubmission, At, SubmitsSaved, PersistPoints
<1> QED BY <1>2, MovesOnDelivery

\* A terminal state never unsettles an open record.
LEMMA ConcludeDelivery ==
  ASSUME TypeOK, DeliveryInv, NEW s,
         NEW k \in {"unknown", "interrupt", "lost", "fail", "sent"}, Conclude(k, s),
         pc[Runner] \in {"dispatch", "fail"},
         Present(run.job) /\ outcome[run.job] = "open" => s \in Settled
  PROVE  DeliveryInv'
<1>1. run'.job = run.job /\ run'.at = k BY DEF Conclude, TypeOK, RunType
<1>2. ~fresh[Runner] BY RunnerHoldsNothing
<1> QED BY <1>1, <1>2, PersistRunner DEF Conclude

\* From the end of an attempt to the terminal state of its record.
LEMMA ConclusionDelivery ==
  ASSUME TypeOK, DeliveryInv,
         AttemptEnded \/ NotStarted \/ OutcomeUnknown \/ PersistenceLost \/ Interrupt
           \/ FailJob \/ Sent
  PROVE  DeliveryInv'
<1>0. \A l : Goto(Runner, l) => pc'[Runner] = l BY RunnerFrames
<1>b. BeforeSubmission => outcome[run.job] # "open" BY DEF DeliveryInv, NotYetSubmitted
<1>1. CASE AttemptEnded
  <2>1. RunnerMovesOn("dispatch") BY <1>1 DEF AttemptEnded, RunnerMovesOn, revs
  <2>2. run'.job = run.job /\ run'.err = run.err BY <1>1 DEF AttemptEnded, TypeOK, RunType
  <2>3. RunnerContinues
    BY <1>0, <1>1, <2>2
    DEF AttemptEnded, RunnerContinues, BeforeSubmission, At, SubmitsSaved, PersistPoints
  <2> QED BY <2>1, <2>3, MovesOnDelivery
<1>2. CASE NotStarted
  <2>1. RunnerMovesOn("next") BY <1>2 DEF NotStarted, RunnerMovesOn
  <2> QED BY <2>1, AwayDelivery
<1>3. CASE OutcomeUnknown
  BY <1>3, ConcludeDelivery DEF OutcomeUnknown, Settled
<1>4. CASE PersistenceLost
  <2>1. RunnerMovesOn("fail") /\ run' = run BY <1>4 DEF PersistenceLost, RunnerMovesOn
  <2>2. RunnerContinues
    BY <1>0, <1>4
    DEF PersistenceLost, RunnerContinues, BeforeSubmission, At, SubmitsSaved, PersistPoints
  <2> QED BY <2>1, <2>2, MovesOnDelivery
<1>5. CASE Interrupt
  <2>1. BeforeSubmission BY <1>5 DEF Interrupt, BeforeSubmission
  <2>2. PICK s : Conclude("interrupt", s) BY <1>5 DEF Interrupt
  <2> QED BY <1>b, <1>5, <2>1, <2>2, ConcludeDelivery DEF Interrupt
<1>6. CASE FailJob
  <2>1. BeforeSubmission BY <1>6 DEF FailJob, BeforeSubmission
  <2>2. PICK k \in {"lost", "fail"} : \E s : Conclude(k, s) BY <1>6 DEF FailJob
  <2> QED BY <1>b, <1>6, <2>1, <2>2, ConcludeDelivery DEF FailJob
<1>7. CASE Sent
  <2>1. CASE Present(run.job) BY <1>7, <2>1, ConcludeDelivery DEF Sent, Settled
  <2>2. CASE ~Present(run.job)
    <3>1. RunnerMovesOn("next") BY <1>7, <2>2 DEF Sent, RunnerOnly, RunnerMovesOn
    <3> QED BY <3>1, AwayDelivery
  <2> QED BY <2>1, <2>2
<1> QED BY <1>1, <1>2, <1>3, <1>4, <1>5, <1>6, <1>7

\* The end of a record, its pending removal, and the end of the run.
LEMMA FinishDelivery ==
  ASSUME TypeOK, DeliveryInv,
         FinishUnlessPending \/ TerminalLost \/ StopAfterSave \/ PrepareRemoval
           \/ RemovedByOther \/ RemovalFailed \/ RemovalChanged \/ CommitPending
           \/ FinishActiveJob \/ Cleanup \/ CloseRunDone
  PROVE  DeliveryInv'
<1> USE DEF Persisted
<1>0. Runner \in Procs /\ Runner \notin Callers
  BY ConstantsAssumption DEF ConstantsAssumption, Procs
<1>g. \A l : Goto(Runner, l) => pc'[Runner] = l BY RunnerFrames
<1>1. CASE FinishUnlessPending
  <2>1. run.at # "remove" BY <1>1 DEF FinishUnlessPending, Terminal
  <2>2. CASE ctl.active = run.job /\ run.job \in ctl.pending
    <3>1. RunnerMovesOn("snap") BY <1>1, <2>1, <2>2 DEF FinishUnlessPending, RunnerMovesOn
    <3>2. run'.at = "remove" BY <1>1, <2>2 DEF FinishUnlessPending, TypeOK, RunType
    <3> QED BY <3>1, <3>2, AwayDelivery
  <2>3. CASE ~(ctl.active = run.job /\ run.job \in ctl.pending)
    <3>1. RunnerMovesOn(AfterJob) BY <1>1, <2>1, <2>3 DEF FinishUnlessPending, RunnerMovesOn
    <3> QED BY <3>1, AwayDelivery DEF AfterJob
  <2> QED BY <2>2, <2>3
<1>2. CASE TerminalLost
  <2>1. RunnerMovesOn(IF run.at = "sent" THEN "cleanup" ELSE "finish")
    BY <1>2 DEF TerminalLost, RunnerMovesOn
  <2> QED BY <2>1, AwayDelivery
<1>3. CASE StopAfterSave
  <2>1. RunnerMovesOn("cleanup") BY <1>3 DEF StopAfterSave, RunnerOnly, RunnerMovesOn
  <2> QED BY <2>1, AwayDelivery
<1>4. CASE PrepareRemoval
  <2>1. /\ UNCHANGED <<mem, disk, run, call, own, opMu, outcome, used>>
        /\ Goto(Runner, "lock") /\ run.at = "remove"
        /\ cand' = [cand EXCEPT ![Runner] = [mem EXCEPT !.st[run.job] = "absent"]]
        /\ fresh' = [fresh EXCEPT ![Runner] = TRUE]
    BY <1>4 DEF PrepareRemoval, Prepare
  <2>2. pc'[Runner] = "lock" BY <1>g, <2>1
  <2>3. RunnerLeaves BY <1>0, <2>1, <2>2, RunnerFrames DEF RunnerLeaves
  <2>4. RunnerMay /\ RunnerRevises /\ SubmitsSaved
    BY <1>0, <2>1, <2>2 DEF RunnerMay, RunnerRevises, SubmitsSaved
  <2>5. EditIsCurrent(Runner)'
    <3>1. \A j \in Jobs : cand'[Runner].st[j] \in {mem.st[j], "absent"}
      BY <1>0, <2>1 DEF TypeOK, Document
    <3>2. \A j \in Jobs : MayPrepare(Runner, j, mem.st[j], cand[Runner].st[j])'
      BY <2>1, <3>1 DEF MayPrepare
    <3> QED BY <2>2, <3>2 DEF EditIsCurrent
  <2>6. NotYetSubmitted' /\ RecordFollows'
    BY <2>1, <2>2 DEF NotYetSubmitted, BeforeSubmission, RecordFollows, At, PersistPoints
  <2> QED BY <2>3, <2>4, <2>5, <2>6, FramedRunner
<1>5. CASE RemovedByOther
  <2>1. RunnerMovesOn("finish") BY <1>5 DEF RemovedByOther, RemovalEnds, RunnerMovesOn
  <2> QED BY <2>1, AwayDelivery
<1>6. CASE RemovalFailed
  <2>1. RunnerMovesOn("finish") BY <1>6 DEF RemovalFailed, RemovalEnds, RunnerMovesOn
  <2> QED BY <2>1, AwayDelivery
<1>7. CASE RemovalChanged
  <2>1. /\ pc'[Runner] = "snap" /\ \A c \in Callers : pc'[c] = pc[c]
        /\ run' = run /\ run.at = "remove"
    BY <1>7, RunnerFrames DEF RemovalChanged
  <2>2. RunnerLeaves BY <1>0, <1>7, <2>1 DEF RemovalChanged, RunnerLeaves
  <2>3. RunnerContinues
    BY <2>1 DEF RunnerContinues, BeforeSubmission, At, SubmitsSaved, PersistPoints
  <2> QED BY <1>7, <2>2, <2>3, QuietRunner DEF RemovalChanged, revs
<1>8. CASE CommitPending
  <2>1. /\ pc'[Runner] = "finish" /\ \A c \in Callers : pc'[c] = pc[c]
        /\ run.at = "remove" /\ UNCHANGED <<disk, call, opMu, outcome, used>>
        /\ \A c \in Callers : cand'[c] = cand[c]
        /\ Touch(Runner) /\ mem'.st = cand[Runner].st
    BY <1>0, <1>8, RunnerFrames DEF CommitPending, RemovalEnds, TypeOK, Document
  <2>2. RunnerLeaves BY <2>1 DEF RunnerLeaves
  <2>3. RunnerMay
    <3>1. \A j \in Jobs : MayPrepare(Runner, j, mem.st[j], cand[Runner].st[j])
      BY <1>0, <1>8 DEF CommitPending, DeliveryInv, FreshIsCurrent, EditIsCurrent
    <3>2. \A j \in Jobs : outcome[j] = "open" => mem.st[j] \in Settled
      BY DEF DeliveryInv, OpenIsSettled
    <3> QED
      BY <2>1, <3>1, <3>2
      DEF RunnerMay, MayPrepare, Cancellable, Removable, Recoverable, LimitEditable, Settled
  <2>4. (\A c \in Callers : ~fresh'[c] /\ ~own'[c]) /\ ~fresh'[Runner]
    BY <1>0, <2>1, TouchFrames DEF Procs
  <2>5. RunnerRevises /\ EditIsCurrent(Runner)' BY <2>4 DEF RunnerRevises, EditIsCurrent
  <2>6. SubmitsSaved /\ NotYetSubmitted' /\ RecordFollows'
    BY <2>1
    DEF SubmitsSaved, NotYetSubmitted, BeforeSubmission, RecordFollows, At, PersistPoints
  <2> QED BY <2>2, <2>3, <2>5, <2>6, FramedRunner
<1>9. CASE FinishActiveJob
  <2>1. RunnerMovesOn(IF run.err = "return" THEN "cleanup" ELSE AfterJob)
    BY <1>9 DEF FinishActiveJob, RunnerMovesOn
  <2> QED BY <2>1, AwayDelivery DEF AfterJob
<1>10. CASE Cleanup
  <2>1. RunnerMovesOn("snap") BY <1>10 DEF Cleanup, RunnerMovesOn
  <2>2. run'.at = "final" BY <1>10 DEF Cleanup, NoRun
  <2> QED BY <2>1, <2>2, AwayDelivery
<1>11. CASE CloseRunDone
  <2>1. RunnerMovesOn("idle") BY <1>11 DEF CloseRunDone, RunnerMovesOn
  <2> QED BY <2>1, AwayDelivery
<1> QED BY <1>1, <1>2, <1>3, <1>4, <1>5, <1>6, <1>7, <1>8, <1>9, <1>10, <1>11

-----------------------------------------------------------------------------
(* persist.                                                                *)

\* What the five steps of persist have in common: they change no record, move p
\* between the points of persist, and write at most p's own candidate.
PersistFrame(p) ==
  /\ UNCHANGED <<mem, run, call, own, opMu, outcome, used>>
  /\ pc[p] \in PersistPoints /\ pc'[p] \in PersistPoints
  /\ \A q \in Procs \ {p} : pc'[q] = pc[q] /\ cand'[q] = cand[q] /\ fresh'[q] = fresh[q]
  /\ \/ disk' = disk
     \/ pc[p] = "save" /\ disk' = cand[p]

\* Such a step keeps DeliveryInv, if p's candidate is right and the file is not
\* overwritten by an older queue.
LEMMA FramedPersist ==
  ASSUME TypeOK, DeliveryInv, NEW p \in Procs, PersistFrame(p), EditIsCurrent(p)',
         NoOlderSave',
         pc'[p] = "save" => pc[p] = "lock" /\ fresh[p] /\ cand'[p] = cand[p]
  PROVE  DeliveryInv'
<1>1. OpenIsSettled'
  BY DEF DeliveryInv, OpenIsSettled, NoOlderSave, PersistFrame
<1>2. FreshIsCurrent'
  <2>1. ASSUME NEW q \in Procs \ {p} PROVE EditIsCurrent(q)'
    <3>1. EditIsCurrent(q) BY DEF DeliveryInv, FreshIsCurrent
    <3>2. Plain(q)' <=> Plain(q) BY DEF Plain, PersistFrame
    <3>3. \A k, s, t : MayPrepare(q, k, s, t)' <=> MayPrepare(q, k, s, t)
      BY DEF MayPrepare, PersistFrame
    <3> QED BY <3>1, <3>2, <3>3 DEF EditIsCurrent, PersistFrame
  <2> QED BY <2>1 DEF FreshIsCurrent
<1>3. OwnIsCurrent'
  <2>1. ASSUME NEW c \in Callers PROVE ChangeIsOwn(c)'
    <3>1. ChangeIsOwn(c) /\ c \in Procs BY DEF DeliveryInv, OwnIsCurrent, Procs
    <3> QED BY <3>1 DEF ChangeIsOwn, PersistFrame
  <2> QED BY <2>1 DEF OwnIsCurrent
<1>4. \/ pc'[Runner] = pc[Runner]
      \/ pc[Runner] \in PersistPoints /\ pc'[Runner] \in PersistPoints
  BY DEF PersistFrame, Procs
<1>5. NotYetSubmitted'
  BY <1>4 DEF DeliveryInv, NotYetSubmitted, BeforeSubmission, PersistFrame, PersistPoints
<1>6. RecordFollows'
  BY <1>4 DEF DeliveryInv, RecordFollows, At, PersistFrame, PersistPoints
<1>7. IdsAreNew'
  <2>1. ASSUME NEW j \in Jobs \ used PROVE cand[p].st[j] = "absent" \/ ~fresh[p]
    <3>1. mem.st[j] = "absent" BY DEF DeliveryInv, IdsAreNew, UnusedAreAbsent
    <3>2. p # Runner => ~(call[p].op = "add" /\ j \in call[p].sel)
      BY DEF DeliveryInv, IdsAreNew, AddsNew, Procs
    <3>3. fresh[p] => MayPrepare(p, j, mem.st[j], cand[p].st[j])
      BY DEF DeliveryInv, FreshIsCurrent, EditIsCurrent
    <3> QED
      BY <3>1, <3>2, <3>3 DEF MayPrepare, Cancellable, Recoverable, LimitEditable
  <2>2. UnusedAreAbsent'
    BY <2>1 DEF DeliveryInv, IdsAreNew, UnusedAreAbsent, PersistFrame
  <2>3. ASSUME NEW c \in Callers PROVE AddsNew(c)'
    BY DEF DeliveryInv, IdsAreNew, AddsNew, PersistFrame
  <2> QED BY <2>2, <2>3 DEF IdsAreNew
<1> QED BY <1>1, <1>2, <1>3, <1>5, <1>6, <1>7 DEF DeliveryInv

\* Whoever holds persistMu with a current candidate saves no open record in a
\* state that a restart would send again, and no older state of a record that is
\* about to be submitted.
LEMMA CurrentIsNotOlder ==
  ASSUME DeliveryInv, NEW p \in Procs, fresh[p]
  PROVE  /\ \A j \in Jobs : outcome[j] = "open" => cand[p].st[j] \in Settled
         /\ At({"submit", "slot", "inflight"}, "sending") => cand[p].st[run.job] = "sending"
<1>1. \A j \in Jobs : MayPrepare(p, j, mem.st[j], cand[p].st[j])
  BY DEF DeliveryInv, FreshIsCurrent, EditIsCurrent
<1>2. ASSUME NEW j \in Jobs, outcome[j] = "open" PROVE cand[p].st[j] \in Settled
  <2>1. mem.st[j] \in Settled BY <1>2 DEF DeliveryInv, OpenIsSettled
  <2>2. p # Runner => ~(call[p].op = "add" /\ j \in call[p].sel)
    BY <1>2 DEF DeliveryInv, IdsAreNew, AddsNew, Procs
  <2> QED
    BY <1>1, <2>1, <2>2 DEF MayPrepare, Cancellable, Recoverable, LimitEditable, Settled
<1>3. ASSUME At({"submit", "slot", "inflight"}, "sending") PROVE cand[p].st[run.job] = "sending"
  <2>1. run.job \in Jobs /\ mem.st[run.job] = "sending"
    BY <1>3 DEF DeliveryInv, NotYetSubmitted, BeforeSubmission, RecordFollows, At
  <2>2. ~(p = Runner /\ run.at = "remove")
    <3>1. CASE p = Runner
      <4>1. pc[Runner] \in PersistPoints
        BY <3>1 DEF DeliveryInv, FreshIsCurrent, EditIsCurrent, PersistPoints
      <4> QED BY <1>3, <4>1 DEF At, PersistPoints
    <3> QED BY <3>1
  <2> QED
    BY <1>1, <2>1, <2>2
    DEF MayPrepare, Cancellable, Removable, Recoverable, LimitEditable
<1> QED BY <1>2, <1>3

\* Saving the queue keeps DeliveryInv.
LEMMA PersistingDelivery ==
  ASSUME TypeOK, DeliveryInv, NEW p \in Procs, Persisting(p)
  PROVE  DeliveryInv'
<1>0. ASSUME NEW l \in PersistPoints, Goto(p, l)
      PROVE  pc'[p] = l /\ \A q \in Procs \ {p} : pc'[q] = pc[q]
  BY <1>0 DEF Goto, TypeOK
<1>c. \A d : cand' = [cand EXCEPT ![p] = d] =>
               cand'[p] = d /\ \A q \in Procs \ {p} : cand'[q] = cand[q]
  BY DEF TypeOK
<1>f. \A b : fresh' = [fresh EXCEPT ![p] = b] =>
               fresh'[p] = b /\ \A q \in Procs \ {p} : fresh'[q] = fresh[q]
  BY DEF TypeOK
<1>1. CASE PersistSnapshot(p)
  <2>1. /\ UNCHANGED <<mem, run, call, own, opMu, outcome, used, disk>>
        /\ pc[p] = "snap" /\ pc'[p] = "lock" /\ cand'[p] = mem
        /\ \A q \in Procs \ {p} : pc'[q] = pc[q] /\ cand'[q] = cand[q] /\ fresh'[q] = fresh[q]
    BY <1>0, <1>1, <1>c, <1>f DEF PersistSnapshot, Prepare, PersistPoints
  <2>2. PersistFrame(p) BY <2>1 DEF PersistFrame, PersistPoints
  <2>3. EditIsCurrent(p)' BY <2>1 DEF EditIsCurrent, MayPrepare
  <2>4. NoOlderSave'
    BY <2>1 DEF DeliveryInv, NoOlderSave, SendingSaved, Procs
  <2> QED BY <2>1, <2>2, <2>3, <2>4, FramedPersist
<1>2. CASE LockAndCheck(p)
  <2>0. /\ UNCHANGED <<mem, run, call, own, opMu, outcome, used, disk, fresh>>
        /\ pc[p] = "lock" /\ \A q \in Procs : pc[q] \notin {"save", "check"}
    BY <1>2 DEF LockAndCheck, PersistMuFree, revs
  <2>1. CASE fresh[p]
    <3>1. /\ pc'[p] = "save" /\ cand' = cand
          /\ \A q \in Procs \ {p} : pc'[q] = pc[q]
      BY <1>0, <1>2, <2>1 DEF LockAndCheck, PersistPoints
    <3>2. PersistFrame(p) BY <2>0, <3>1 DEF PersistFrame, PersistPoints
    <3>3. EditIsCurrent(p)'
      <4>1. EditIsCurrent(p) BY DEF DeliveryInv, FreshIsCurrent
      <4> QED BY <2>0, <2>1, <3>1, <4>1 DEF EditIsCurrent, MayPrepare
    <3>4. NoOlderSave'
      <4>1. \A q \in Procs : pc'[q] = "save" => q = p BY <2>0, <3>1
      <4>2. SendingSaved({"save", "check", "saved"})' => At({"submit", "slot", "inflight"}, "sending")
        BY <2>0, <3>1 DEF SendingSaved, At, PersistPoints, Procs
      <4>3. SendingSaved({"check", "saved"})' => SendingSaved({"check", "saved"})
        BY <2>0, <3>1 DEF SendingSaved, Procs
      <4> QED
        BY <2>0, <2>1, <3>1, <4>1, <4>2, <4>3, CurrentIsNotOlder
        DEF DeliveryInv, NoOlderSave
    <3> QED BY <2>0, <2>1, <3>1, <3>2, <3>3, <3>4, FramedPersist
  <2>2. CASE ~fresh[p]
    <3>1. /\ pc'[p] = "snap"
          /\ \A q \in Procs \ {p} : pc'[q] = pc[q] /\ cand'[q] = cand[q]
      BY <1>0, <1>2, <1>c, <2>2 DEF LockAndCheck, PersistPoints
    <3>2. PersistFrame(p) BY <2>0, <3>1 DEF PersistFrame, PersistPoints
    <3>3. EditIsCurrent(p)' BY <2>0, <2>2 DEF EditIsCurrent
    <3>4. NoOlderSave'
      BY <2>0, <3>1 DEF DeliveryInv, NoOlderSave, SendingSaved, Procs
    <3> QED BY <3>1, <3>2, <3>3, <3>4, FramedPersist
  <2> QED BY <2>1, <2>2
<1>3. CASE SaveSucceeds(p)
  <2>1. /\ UNCHANGED <<mem, run, call, own, opMu, outcome, used, cand, fresh>>
        /\ pc[p] = "save" /\ disk' = cand[p] /\ pc'[p] = "check"
        /\ \A q \in Procs \ {p} : pc'[q] = pc[q]
    BY <1>0, <1>3 DEF SaveSucceeds, PersistPoints, revs
  <2>2. PersistFrame(p) BY <2>1 DEF PersistFrame, PersistPoints
  <2>3. EditIsCurrent(p)'
    <3>1. EditIsCurrent(p) BY DEF DeliveryInv, FreshIsCurrent
    <3> QED BY <2>1, <3>1 DEF EditIsCurrent, MayPrepare
  <2>4. NoOlderSave'
    <3>1. \A points \in {{"save", "check", "saved"}, {"check", "saved"}} :
            SendingSaved(points)' => SendingSaved({"save", "check", "saved"})
      BY <2>1 DEF SendingSaved, Procs
    <3> QED BY <2>1, <3>1 DEF DeliveryInv, NoOlderSave
  <2> QED BY <2>1, <2>2, <2>3, <2>4, FramedPersist
<1>4. CASE SaveFails(p)
  <2>1. /\ UNCHANGED <<mem, run, call, own, opMu, outcome, used>>
        /\ pc[p] = "save" /\ disk' \in {disk, cand[p]} /\ pc'[p] = "failed" /\ ~fresh'[p]
        /\ \A q \in Procs \ {p} : pc'[q] = pc[q] /\ cand'[q] = cand[q] /\ fresh'[q] = fresh[q]
    BY <1>0, <1>4, <1>c, <1>f DEF SaveFails, PersistPoints
  <2>2. PersistFrame(p) BY <2>1 DEF PersistFrame, PersistPoints
  <2>3. EditIsCurrent(p)' BY <2>1 DEF EditIsCurrent
  <2>4. NoOlderSave'
    <3>1. \A points \in {{"save", "check", "saved"}, {"check", "saved"}} :
            SendingSaved(points)' => SendingSaved(points)
      BY <2>1 DEF SendingSaved, Procs
    <3>2. SendingSaved({"check", "saved"}) => SendingSaved({"save", "check", "saved"})
      BY DEF SendingSaved
    <3> QED BY <2>1, <3>1, <3>2 DEF DeliveryInv, NoOlderSave
  <2> QED BY <2>1, <2>2, <2>3, <2>4, FramedPersist
<1>5. CASE Recheck(p)
  <2>1. /\ UNCHANGED <<mem, run, call, own, opMu, outcome, used, disk>>
        /\ pc[p] = "check" /\ pc'[p] \in {"saved", "snap"}
        /\ \A q \in Procs \ {p} : pc'[q] = pc[q] /\ cand'[q] = cand[q] /\ fresh'[q] = fresh[q]
        /\ fresh'[p] => fresh[p] /\ ~Plain(p) /\ pc'[p] = "saved" /\ cand' = cand
    BY <1>0, <1>5, <1>c, <1>f DEF Recheck, PersistPoints
  <2>2. PersistFrame(p) BY <2>1 DEF PersistFrame, PersistPoints
  <2>3. EditIsCurrent(p)'
    <3>1. EditIsCurrent(p) BY DEF DeliveryInv, FreshIsCurrent
    <3>2. Plain(p)' <=> Plain(p) BY <2>1 DEF Plain
    <3> QED BY <2>1, <3>1, <3>2 DEF EditIsCurrent, MayPrepare
  <2>4. NoOlderSave'
    <3>1. \A points \in {{"save", "check", "saved"}, {"check", "saved"}} :
            SendingSaved(points)' => SendingSaved(points)
      BY <2>1 DEF SendingSaved, Procs
    <3> QED BY <2>1, <3>1 DEF DeliveryInv, NoOlderSave
  <2> QED BY <2>1, <2>2, <2>3, <2>4, FramedPersist
<1> QED BY <1>1, <1>2, <1>3, <1>4, <1>5 DEF Persisting

-----------------------------------------------------------------------------
(* The remaining steps.                                                    *)

\* A start hands over to a goroutine that holds nothing.
LEMMA StartSavedDelivery ==
  ASSUME TypeOK, RunnerAlone, DeliveryInv, NEW c \in Callers, StartSaved(c)
  PROVE  DeliveryInv'
<1> USE DEF TypeOK
<1>0. c \in Procs /\ Runner \in Procs /\ c # Runner
  BY ConstantsAssumption DEF ConstantsAssumption, Procs
<1>1. opMu = c /\ pc[Runner] = "idle" BY DEF StartSaved, RunnerAlone
<1>2. /\ UNCHANGED <<mem, disk, run, cand, fresh, own, outcome, used>>
      /\ pc[c] = "saved" /\ call[c].op = "start"
      /\ pc'[c] = "idle" /\ pc'[Runner] = "next"
      /\ \A p \in Procs \ {c, Runner} : pc'[p] = pc[p]
      /\ call'[c] = NoCall /\ \A d \in Callers \ {c} : call'[d] = call[d]
  BY <1>0 DEF StartSaved, revs
<1>3. ~fresh[c] /\ ~own[c] /\ ~fresh[Runner]
  BY <1>1, <1>2, NothingHeld, RunnerHoldsNothing DEF Edits, Mutations
<1>4. OpenIsSettled' BY <1>2 DEF DeliveryInv, OpenIsSettled
<1>5. FreshIsCurrent'
  <2>1. ASSUME NEW p \in Procs \ {c, Runner} PROVE EditIsCurrent(p)'
    <3>1. EditIsCurrent(p) /\ p \in Callers BY DEF DeliveryInv, FreshIsCurrent, Procs
    <3>2. Plain(p)' <=> Plain(p) BY <1>2, <3>1 DEF Plain
    <3>3. \A k, s, t : MayPrepare(p, k, s, t)' <=> MayPrepare(p, k, s, t)
      BY <1>2, <3>1 DEF MayPrepare
    <3> QED BY <1>2, <3>1, <3>2, <3>3 DEF EditIsCurrent
  <2> QED BY <1>2, <1>3, <2>1 DEF FreshIsCurrent, EditIsCurrent
<1>6. OwnIsCurrent'
  <2>1. ASSUME NEW d \in Callers \ {c} PROVE ChangeIsOwn(d)'
    <3>1. ChangeIsOwn(d) /\ d \in Procs \ {c, Runner}
      BY ConstantsAssumption DEF ConstantsAssumption, Procs, DeliveryInv, OwnIsCurrent
    <3> QED BY <1>2, <3>1 DEF ChangeIsOwn
  <2> QED BY <1>2, <1>3, <2>1 DEF OwnIsCurrent, ChangeIsOwn
<1>7. NotYetSubmitted' /\ RecordFollows'
  BY <1>2 DEF NotYetSubmitted, BeforeSubmission, RecordFollows, At, PersistPoints
<1>8. \A p \in Procs : pc'[p] = "save" => pc[p] = "save" /\ cand'[p] = cand[p] BY <1>2
<1>9. NoOlderSave'
  <2>1. \A points \in SUBSET {"save", "check", "saved"} : ~SendingSaved(points)'
    BY <1>2 DEF SendingSaved
  <2> QED BY <1>2, <1>8, <2>1 DEF DeliveryInv, NoOlderSave
<1>10. IdsAreNew'
  <2>1. UnusedAreAbsent' BY <1>2, <1>8 DEF DeliveryInv, IdsAreNew, UnusedAreAbsent
  <2>2. \A d \in Callers : call'[d].op # "add"
    BY <1>1, <1>2 DEF DeliveryInv, IdsAreNew, AddsNew, NoCall
  <2> QED BY <2>1, <2>2 DEF IdsAreNew, AddsNew
<1> QED BY <1>4, <1>5, <1>6, <1>7, <1>9, <1>10 DEF DeliveryInv

\* Store.Load never unsettles a record.
LEMMA RecoveredSettled ==
  ASSUME NEW d \in Document, NEW j \in Jobs
  PROVE  /\ d.st[j] \in Settled => LoadedQueue(d).st[j] \in Settled
         /\ d.st[j] = "absent" => LoadedQueue(d).st[j] = "absent"
BY DEF LoadedQueue, Recovered, Document, Settled

\* A state in which nothing runs and the memory was just loaded from the file.
Loaded ==
  /\ disk \in Document
  /\ mem = LoadedQueue(disk)
  /\ pc = [p \in Procs |-> "idle"]
  /\ call = [c \in Callers |-> NoCall]
  /\ \A p \in Procs : ~fresh[p]
  /\ \A c \in Callers : ~own[c]
  /\ \A j \in Jobs : outcome[j] = "open" => disk.st[j] \in Settled /\ j \in used
  /\ \A j \in Jobs \ used : disk.st[j] = "absent"

\* Of such a state, DeliveryInv only says what Loaded says of the file.
LEMMA LoadedDelivery == Loaded => DeliveryInv
<1> SUFFICES ASSUME Loaded PROVE DeliveryInv OBVIOUS
<1> USE DEF Loaded
<1>1. OpenIsSettled BY RecoveredSettled DEF OpenIsSettled
<1>2. FreshIsCurrent /\ OwnIsCurrent
  BY DEF FreshIsCurrent, EditIsCurrent, OwnIsCurrent, ChangeIsOwn
<1>3. pc[Runner] = "idle" /\ \A p \in Procs : pc[p] # "save" BY DEF Procs
<1>4. NotYetSubmitted /\ RecordFollows /\ NoOlderSave
  BY <1>3
  DEF NotYetSubmitted, BeforeSubmission, RecordFollows, At, NoOlderSave, SendingSaved,
      PersistPoints
<1>5. IdsAreNew
  <2>1. UnusedAreAbsent BY <1>3, RecoveredSettled DEF UnusedAreAbsent
  <2>2. \A c \in Callers : AddsNew(c) BY DEF AddsNew, NoCall
  <2> QED BY <2>1, <2>2 DEF IdsAreNew
<1> QED BY <1>1, <1>2, <1>4, <1>5 DEF DeliveryInv

\* After a crash the memory is what Store.Load makes of the file, and nothing runs.
LEMMA CrashLoads ==
  ASSUME TypeOK, DeliveryInv, Crash
  PROVE  Loaded'
<1>1. disk \in Document /\ disk' = disk /\ outcome' = outcome /\ used' = used
  BY DEF TypeOK, Crash
<1>2. mem' = LoadedQueue(disk)' BY <1>1 DEF Crash, LoadedQueue
<1>3. (\A p \in Procs : ~fresh'[p]) /\ \A c \in Callers : ~own'[c]
  BY TouchFrames, ConstantsAssumption DEF ConstantsAssumption, Crash
<1>4. \A j \in Jobs : outcome[j] = "open" => disk.st[j] \in Settled /\ j \in used
  BY DEF DeliveryInv, OpenIsSettled, IdsAreNew, UnusedAreAbsent
<1>5. \A j \in Jobs \ used : disk.st[j] = "absent"
  BY DEF DeliveryInv, IdsAreNew, UnusedAreAbsent
<1>6. pc' = [p \in Procs |-> "idle"] /\ call' = [c \in Callers |-> NoCall]
  BY DEF Crash
<1> QED BY <1>1, <1>2, <1>3, <1>4, <1>5, <1>6 DEF Loaded

-----------------------------------------------------------------------------
(* The theorems.                                                           *)

\* The process starts for the first time in such a state.
LEMMA InitLoads ==
  ASSUME Init
  PROVE  Loaded
<1>1. disk \in Document /\ mem = LoadedQueue(disk) BY InitTypes DEF Init, TypeOK
<1>2. \A j \in Jobs : outcome[j] = "open" => disk.st[j] \in Settled /\ j \in used
  BY DEF Init, Settled
<1>3. \A j \in Jobs \ used : disk.st[j] = "absent" BY DEF Init
<1> QED BY <1>1, <1>2, <1>3 DEF Init, Loaded

\* DeliveryInv is inductive relative to TypeOK and RunnerAlone.
LEMMA DeliveryNext ==
  ASSUME TypeOK, RunnerAlone, DeliveryInv, [Next]_vars
  PROVE  DeliveryInv'
<1>1. ASSUME NEW c \in Callers, CallerBegins(c) \/ CallerContinues(c) PROVE DeliveryInv'
  BY <1>1, CallerBeginsDelivery, CallerContinuesDelivery, StartSavedDelivery
<1>2. ASSUME RunnerSteps PROVE DeliveryInv'
  BY <1>2, AttemptBeginsDelivery, TransferDelivery, SubmitDelivery, RetryDelivery,
     ConclusionDelivery, FinishDelivery
  DEF RunnerSteps
<1>3. ASSUME NEW p \in Procs, Persisting(p) PROVE DeliveryInv'
  BY <1>3, PersistingDelivery
<1>4. ASSUME UNCHANGED <<mem, disk, run, call, pc, cand, revs, opMu, outcome, used>>
      PROVE  DeliveryInv'
  <2>1. \A p, j, s, t : MayPrepare(p, j, s, t)' <=> MayPrepare(p, j, s, t)
    BY <1>4 DEF MayPrepare
  <2>2. FreshIsCurrent' BY <1>4, <2>1 DEF DeliveryInv, FreshIsCurrent, EditIsCurrent, Plain, revs
  <2>3. OpenIsSettled' /\ OwnIsCurrent' /\ IdsAreNew'
    BY <1>4
    DEF DeliveryInv, OpenIsSettled, OwnIsCurrent, ChangeIsOwn, IdsAreNew, UnusedAreAbsent,
        AddsNew, revs
  <2>4. NotYetSubmitted' /\ RecordFollows' /\ NoOlderSave'
    BY <1>4
    DEF DeliveryInv, NotYetSubmitted, BeforeSubmission, RecordFollows, At, NoOlderSave,
        SendingSaved
  <2> QED BY <2>2, <2>3, <2>4 DEF DeliveryInv
<1>5. ASSUME Shutdown PROVE DeliveryInv' BY <1>4, <1>5 DEF Shutdown, revs
<1>6. ASSUME Crash PROVE DeliveryInv'
  <2>1. Loaded' BY <1>6, CrashLoads
  <2> QED BY <2>1, LoadedDelivery, PTL
<1>7. ASSUME UNCHANGED vars PROVE DeliveryInv' BY <1>4, <1>7 DEF vars, revs
<1> QED BY <1>1, <1>2, <1>3, <1>5, <1>6, <1>7 DEF Next, Rest

\* Delivery: candidates are edits of the queue as it is, roll-backs take back one's
\* own change only, "sending" is on disk before a message leaves, and nothing that
\* persist or an edit writes later unsettles the record.
THEOREM DeliverySafe == Spec => []DeliveryInv
<1>1. Init => DeliveryInv BY InitLoads, LoadedDelivery
<1>2. (TypeOK /\ RetriesLeft) /\ RunnerAlone /\ DeliveryInv /\ [Next]_vars => DeliveryInv'
  BY DeliveryNext
<1> QED BY <1>1, <1>2, TypeCorrect, StartsAlone, PTL DEF Spec

\* A record whose message was submitted, and on which the user has not decided, is
\* never in a state, in memory or in queue.json, from which the program would send
\* it again; whatever edits, failed saves, retries and crashes happen.
THEOREM OpenStaysSettled == Spec => []OpenIsSettled
<1>1. DeliveryInv => OpenIsSettled BY DEF DeliveryInv
<1> QED BY <1>1, DeliverySafe, PTL

\* No message is submitted twice without a decision of the user in between.
THEOREM NoResubmission == Spec => NeverResubmit
<1>1. DeliveryInv => [Submitting => outcome[run.job] # "open"]_vars
  BY DEF DeliveryInv, NotYetSubmitted, BeforeSubmission, Submitting
<1> QED BY <1>1, DeliverySafe, PTL DEF NeverResubmit

-----------------------------------------------------------------------------
(* UploadQueue implements SendLedger: the settled records of queue.json    *)
(* are the durable marks, and every step is a step of the ledger or a      *)
(* stutter.  First, which steps change what is known of a record's last    *)
(* submission.                                                             *)

\* Of the callers' operations only three do.
LEMMA CallersKeepOutcome ==
  ASSUME NEW c \in Callers, CallerBegins(c) \/ CallerContinues(c),
         ~Retry(c), ~Skip(c), ~CommitCandidate(c)
  PROVE  outcome' = outcome
<1>1. \A r : BeginEdit(c, r) => outcome' = outcome BY DEF BeginEdit
<1>2. \A op, b, r, sig : ChangePause(c, op, b, r, sig) => outcome' = outcome
  BY DEF ChangePause
<1>3. CASE Start(c) \/ Pause(c) \/ Resume(c) \/ CancelAll(c)
  BY <1>2, <1>3 DEF Start, Pause, Resume, CancelAll
<1>4. CASE CancelJob(c) \/ MarkSent(c)
  BY <1>4 DEF CancelJob, CancelActive, CancelWaiting, MarkSent
<1>5. CASE RemoveJobs(c) \/ RemoveCompleted(c) \/ ResetJobs(c) \/ ApplyUploadLimit(c)
        \/ AddJobs(c) \/ SetChannel(c)
  BY <1>1, <1>5
  DEF RemoveJobs, RemoveCompleted, ResetJobs, ApplyUploadLimit, AddJobs, SetChannel
<1>6. CASE MutationFailed(c) \/ CallSaved(c) \/ Signal(c) \/ PauseFailed(c)
  BY <1>6 DEF MutationFailed, CallSaved, Signal, PauseFailed
<1>7. CASE PrepareEdit(c) \/ EditNothing(c) \/ EditFailed(c) \/ EditChanged(c)
  BY <1>7 DEF PrepareEdit, Prepare, EditNothing, EditFailed, EditChanged
<1>8. CASE CommitRemoval(c) \/ CommitCancelAll(c) \/ CommitChannel(c)
  BY <1>8 DEF CommitRemoval, CommitCancelAll, CommitChannel
<1>9. CASE StartSaved(c) \/ StartFailed(c) BY <1>9 DEF StartSaved, StartFailed
<1> QED
  BY <1>3, <1>4, <1>5, <1>6, <1>7, <1>8, <1>9 DEF CallerBegins, CallerContinues

\* Of the goroutine's steps only the submission does.
LEMMA RunnerKeepsOutcome ==
  ASSUME RunnerSteps, ~Submit
  PROVE  outcome' = outcome
<1> USE DEF RunnerOnly, End
<1>1. CASE NextJob \/ JobContext \/ BeginAttempt \/ OpenVerifiedJob
  BY <1>1 DEF NextJob, JobContext, BeginAttempt, OpenVerifiedJob
<1>2. CASE Reserve \/ ReserveRefused \/ ReserveLost \/ Boundary
  BY <1>2 DEF Reserve, ReserveRefused, ReserveLost, Boundary
<1>3. CASE UploadParts \/ UploadRejected \/ TransportError \/ TransportCancelled
  BY <1>3 DEF UploadParts, UploadRejected, TransportError, TransportCancelled
<1>4. CASE PrepareSend \/ SendPrepared \/ PrepareLost \/ LastCheck \/ SendAnswered
  BY <1>4 DEF PrepareSend, SendPrepared, PrepareLost, LastCheck, SendAnswered
<1>5. CASE BeforeRetry \/ RetryLost \/ RetryWaitCancelled \/ RetryWaitOver
  BY <1>5 DEF BeforeRetry, RetryLost, RetryWaitCancelled, RetryWaitOver, RetryWaitEnds
<1>6. CASE AttemptEnded \/ NotStarted \/ PersistenceLost
  BY <1>6 DEF AttemptEnded, NotStarted, PersistenceLost
<1>7. CASE OutcomeUnknown \/ Interrupt \/ FailJob \/ Sent
  BY <1>7 DEF OutcomeUnknown, Interrupt, FailJob, Sent, Conclude
<1>8. CASE FinishUnlessPending \/ TerminalLost \/ StopAfterSave \/ PrepareRemoval
  BY <1>8 DEF FinishUnlessPending, TerminalLost, StopAfterSave, PrepareRemoval, Prepare
<1>9. CASE RemovedByOther \/ RemovalFailed \/ RemovalChanged \/ CommitPending
  BY <1>9 DEF RemovedByOther, RemovalFailed, RemovalChanged, CommitPending, RemovalEnds
<1>10. CASE FinishActiveJob \/ Cleanup \/ CloseRunDone
  BY <1>10 DEF FinishActiveJob, Cleanup, CloseRunDone
<1> QED
  BY <1>1, <1>2, <1>3, <1>4, <1>5, <1>6, <1>7, <1>8, <1>9, <1>10 DEF RunnerSteps

-----------------------------------------------------------------------------
(* Every step is a step of the ledger.                                     *)

\* A step that leaves the outcomes alone is at most a write of the ledger.
LEMMA WriteStep ==
  ASSUME OpenIsSettled', outcome' = outcome
  PROVE  Ledger!Next
<1>1. Ledger!Write BY DEF OpenIsSettled, Ledger!Write, Ledger!Open
<1> QED BY <1>1 DEF Ledger!Next

\* The submission finds its record marked, and not open.
LEMMA SubmitStep ==
  ASSUME TypeOK, DeliveryInv, Submit
  PROVE  Ledger!Next
<1>1. run.job \in Jobs /\ outcome[run.job] # "open" /\ disk.st[run.job] = "sending"
  BY DEF Submit, DeliveryInv, NotYetSubmitted, BeforeSubmission, NoOlderSave, SendingSaved
<1>2. Ledger!Submit(run.job) BY <1>1 DEF Submit, Ledger!Submit, Settled
<1> QED BY <1>1, <1>2 DEF Ledger!Next

\* The user's decisions are decisions of the ledger, or change nothing there.
LEMMA DecideStep ==
  ASSUME TypeOK, OpenIsSettled', NEW c \in Callers, Retry(c) \/ Skip(c) \/ CommitCandidate(c)
  PROVE  Ledger!Next
<1> USE DEF TypeOK
<1>1. \A j \in Jobs, o \in {"none", "skipped"} :
        disk' = disk /\ outcome[j] # "none" /\ outcome' = [outcome EXCEPT ![j] = o]
          => Ledger!Next
  BY DEF Ledger!Decide, Ledger!Next
<1>2. CASE Retry(c)
  <2>1. PICK j \in Jobs : disk' = disk /\ outcome' = [outcome EXCEPT ![j] = "none"]
    BY <1>2 DEF Retry, Mutate
  <2>2. outcome[j] = "none" => outcome' = outcome BY <2>1
  <2> QED BY <1>1, <2>1, <2>2, WriteStep
<1>3. CASE Skip(c)
  <2>1. PICK j \in Jobs : /\ disk' = disk
                          /\ outcome' = [outcome EXCEPT ![j] = IF @ = "open" THEN "skipped" ELSE @]
    BY <1>3 DEF Skip, Mutate
  <2>2. CASE outcome[j] = "open"
    <3>1. outcome' = [outcome EXCEPT ![j] = "skipped"] BY <2>1, <2>2
    <3> QED BY <1>1, <2>1, <2>2, <3>1
  <2>3. CASE outcome[j] # "open"
    <3>1. outcome' = outcome BY <2>1, <2>3
    <3> QED BY <3>1, WriteStep
  <2> QED BY <2>2, <2>3
<1>4. CASE CommitCandidate(c)
  <2>1. Ledger!Reconsider BY <1>4 DEF CommitCandidate, Committing, Ledger!Reconsider
  <2> QED BY <2>1 DEF Ledger!Next
<1> QED BY <1>2, <1>3, <1>4

\* The initial states and the steps of UploadQueue are those of the ledger.
LEMMA LedgerSteps ==
  /\ Init => Ledger!Init
  /\ TypeOK /\ DeliveryInv /\ DeliveryInv' /\ [Next]_vars => [Ledger!Next]_(Ledger!ledger)
<1>1. ASSUME Init PROVE Ledger!Init
  BY <1>1 DEF Init, Ledger!Init, Ledger!Open, Settled
<1>2. ASSUME TypeOK, DeliveryInv, DeliveryInv', [Next]_vars
      PROVE  [Ledger!Next]_(Ledger!ledger)
  <2>0. OpenIsSettled' BY <1>2 DEF DeliveryInv
  <2>1. ASSUME NEW c \in Callers, CallerBegins(c) \/ CallerContinues(c) PROVE Ledger!Next
    BY <1>2, <2>0, <2>1, CallersKeepOutcome, WriteStep, DecideStep
  <2>2. ASSUME RunnerSteps PROVE Ledger!Next
    BY <1>2, <2>0, <2>2, RunnerKeepsOutcome, WriteStep, SubmitStep
  <2>3. ASSUME NEW p \in Procs, Persisting(p) PROVE Ledger!Next
    <3>1. outcome' = outcome
      BY <2>3
      DEF Persisting, PersistSnapshot, Prepare, LockAndCheck, SaveSucceeds, SaveFails, Recheck
    <3> QED BY <2>0, <3>1, WriteStep
  <2>4. ASSUME Shutdown \/ Crash \/ UNCHANGED vars PROVE Ledger!Next
    <3>1. outcome' = outcome BY <2>4 DEF Shutdown, Crash, vars
    <3> QED BY <2>0, <3>1, WriteStep
  <2> QED BY <1>2, <2>1, <2>2, <2>3, <2>4 DEF Next, Rest
<1> QED BY <1>1, <1>2

\* The queue keeps the promise of the ledger: a record is submitted only when it is
\* durably marked, the mark stays while the outcome is open, and only a decision of
\* the user lets an open record be submitted again.
THEOREM LedgerImplemented == Spec => ImplementsLedger
BY LedgerSteps, TypeCorrect, DeliverySafe, PTL DEF Spec, ImplementsLedger, Ledger!Spec
=============================================================================
