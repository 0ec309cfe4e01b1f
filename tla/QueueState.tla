----------------------------- MODULE QueueState -----------------------------
(***************************************************************************)
(* The controller of the upload queue (internal/app): the records kept in  *)
(* memory, the copy in queue.json, the upload goroutine that sends one     *)
(* file after the other, and the user's operations that run concurrently   *)
(* with it.                                                                *)
(*                                                                         *)
(* A critical section under c.mu is one action.  Everything the code does  *)
(* outside c.mu (waiting for persistMu, writing the file, calling a cancel *)
(* function, talking to Telegram) is a step of its own, so that the other  *)
(* processes interleave there.                                             *)
(*                                                                         *)
(* A process never looks at the value of queueRevision, it only compares   *)
(* it with the one it captured.  fresh[p] is the outcome of that           *)
(* comparison: TRUE from the moment p captures the revision until anybody  *)
(* advances it.  own and pown stand for the same comparison in the         *)
(* roll-back of a failed operation, pown with pauseRevision.               *)
(***************************************************************************)
EXTENDS JobStates, FiniteSets

CONSTANTS
  N,             \* the number of record ids; records keep the order of ids
  Channels,      \* the channels a user can bind
  Callers,       \* goroutines of the user interface calling the controller
  Runner,        \* the upload goroutine
  NoCaller,      \* nobody holds opMu
  Ops,           \* the operations the callers use
  MaxRetry,      \* len(uploadRetryDelays)
  MaxCalls,      \* bound: calls in a behaviour
  MaxCrashes,    \* bound: process crashes in a behaviour
  SaveMayFail,   \* whether Store.Save can return an error
  LoadedStates,  \* states of the records of the first queue.json
  LoadedPaused   \* its paused flag

Jobs == 1..N
Procs == Callers \cup {Runner}
NoJob == 0
NoChannel == 0

AllOps ==
  {"start", "pause", "resume", "cancel", "cancelAll", "retry", "skip",
   "markSent", "remove", "removeCompleted", "reset", "limit", "add",
   "setChannel", "shutdown"}

ASSUME ConstantsAssumption ==
  /\ N \in Nat \ {0}
  /\ Channels \subseteq Nat \ {0}
  /\ Channels # {}
  /\ Runner \notin Callers
  /\ NoCaller \notin Callers
  /\ Ops \subseteq AllOps
  /\ MaxRetry \in Nat /\ MaxCalls \in Nat /\ MaxCrashes \in Nat
  /\ SaveMayFail \in BOOLEAN
  /\ LoadedStates \subseteq JobState /\ LoadedPaused \subseteq BOOLEAN

VARIABLES
  mem,      \* what c.mu protects and queue.json stores: jobs, paused, channel
  disk,     \* queue.json
  ctl,      \* what c.mu protects and only lives in memory
  run,      \* locals of the upload goroutine
  call,     \* locals of each caller
  pc,       \* where each process is
  cand,     \* the document each process is saving
  fresh,    \* the captured queueRevision is still the current one
  own,      \* ... since the caller's own job mutation
  pown,     \* the pauseRevision since the caller's own pause mutation
  opMu,     \* the caller holding opMu
  outcome,  \* history: what is known of each record's last submission
  used,     \* history: ids that have been handed out
  calls,    \* history: number of calls so far
  crashes   \* history: number of crashes so far

revs == <<fresh, own>>
budget == <<calls, crashes>>
vars == <<mem, disk, ctl, run, call, pc, cand, fresh, own, pown, opMu,
          outcome, used, calls, crashes>>

-----------------------------------------------------------------------------
(* State.                                                                  *)

Document ==
  [st : [Jobs -> JobState], paused : BOOLEAN, channel : Channels \cup {NoChannel}]

EmptyDocument ==
  [st |-> [j \in Jobs |-> "absent"], paused |-> FALSE, channel |-> NoChannel]

\* The volatile fields of Controller.  allCancel is not nil exactly while
\* running; runDead and jobDead tell that the contexts of the run and of the
\* current file are cancelled.
NoControl ==
  [running |-> FALSE, runDone |-> FALSE, pauseRequested |-> FALSE,
   active |-> NoJob, canCancel |-> FALSE, retryWait |-> FALSE,
   cancelJob |-> NoJob, cancelAll |-> FALSE, pending |-> {},
   runDead |-> FALSE, jobDead |-> FALSE]

NoRun ==
  [job |-> NoJob, chan |-> NoChannel, retry |-> 0, err |-> "ok", at |-> "none",
   kind |-> "none", cur |-> FALSE, all |-> FALSE, dead |-> FALSE]

NoCall ==
  [op |-> "none", job |-> NoJob, sel |-> {}, mode |-> "none",
   state |-> "absent", was |-> FALSE, wasReq |-> FALSE, chan |-> NoChannel,
   sig |-> "none"]

Present(j) == j # NoJob /\ mem.st[j] # "absent"
IsPaused == mem.paused \/ ctl.pauseRequested
ContextDead == ctl.runDead \/ ctl.jobDead
PersistMuFree == \A p \in Procs : pc[p] \notin {"save", "check"}
RunnableJobs == {j \in Jobs : mem.st[j] \in Runnable}

-----------------------------------------------------------------------------
(* Helpers of the actions.                                                 *)

Goto(p, l) == pc' = [pc EXCEPT ![p] = l]

\* queueRevision++ by process p.
Touch(p) ==
  /\ fresh' = [q \in Procs |-> FALSE]
  /\ own' = [c \in Callers |-> c = p]

\* pauseRevision++ by process p.
TouchPause(p) == pown' = [c \in Callers |-> c = p]

SetJob(j, s) == mem' = [mem EXCEPT !.st[j] = s]

\* clearActiveJobLocked, guarded by activeID as its callers guard it.
ActiveCleared(j) ==
  IF ctl.active # j THEN ctl
  ELSE [ctl EXCEPT !.active = NoJob, !.canCancel = FALSE, !.retryWait = FALSE,
                   !.cancelJob = IF @ = j THEN NoJob ELSE @]

PendingCleared(j) == [ctl EXCEPT !.pending = @ \ {j}]

\* The cancel functions somebody captured from an earlier context do nothing.
Forget(sig) ==
  [c \in Callers |-> IF call[c].sig = sig THEN [call[c] EXCEPT !.sig = "none"]
                     ELSE call[c]]

\* A caller's operation ends and releases opMu if it held it.
Return(c) ==
  /\ Goto(c, "idle")
  /\ call' = [call EXCEPT ![c] = NoCall]
  /\ opMu' = IF opMu = c THEN NoCaller ELSE opMu

-----------------------------------------------------------------------------
(* persist and persistCandidate.                                           *)

Edits == {"cancelAll", "remove", "removeCompleted", "reset", "limit", "add",
          "setChannel"}

\* p saves the queue as it is, and only needs to know that the save succeeded.
Plain(p) ==
  IF p = Runner THEN run.at # "remove" ELSE call[p].op \notin Edits

\* The snapshot at the head of the loop of persist and of every edit.
Prepare(p, document) ==
  /\ pc[p] = "snap"
  /\ cand' = [cand EXCEPT ![p] = document]
  /\ fresh' = [fresh EXCEPT ![p] = TRUE]
  /\ Goto(p, "lock")
  /\ UNCHANGED <<mem, disk, ctl, run, call, own, pown, opMu, outcome, used, budget>>

PersistSnapshot(p) == Plain(p) /\ Prepare(p, mem)

\* Mutant of LockAndCheck: whoever gets persistMu writes what it has.
LockUnchecked(p) ==
  /\ pc[p] = "lock"
  /\ PersistMuFree
  /\ Goto(p, "save")
  /\ UNCHANGED <<mem, disk, ctl, run, call, cand, revs, pown, opMu, outcome, used, budget>>

\* persistMu.Lock, then the first comparison of revisions.
LockAndCheck(p) ==
  /\ pc[p] = "lock"
  /\ PersistMuFree
  /\ IF fresh[p]
     THEN Goto(p, "save") /\ UNCHANGED cand
     ELSE Goto(p, "snap") /\ cand' = [cand EXCEPT ![p] = EmptyDocument]
  /\ UNCHANGED <<mem, disk, ctl, run, call, revs, pown, opMu, outcome, used, budget>>

\* Mutant of SaveSucceeds: a save counts as a change of the queue.
SaveAdvancesRevision(p) ==
  /\ pc[p] = "save"
  /\ disk' = cand[p]
  /\ Goto(p, "check")
  /\ Touch(p)
  /\ UNCHANGED <<mem, ctl, run, call, cand, pown, opMu, outcome, used, budget>>

SaveSucceeds(p) ==
  /\ pc[p] = "save"
  /\ disk' = cand[p]
  /\ Goto(p, "check")
  /\ UNCHANGED <<mem, ctl, run, call, cand, revs, pown, opMu, outcome, used, budget>>

\* AtomicWriteFile renames before it syncs the directory: a Save that reports
\* an error has left the old or the new content.
SaveFails(p) ==
  /\ SaveMayFail
  /\ pc[p] = "save"
  /\ disk' \in {disk, cand[p]}
  /\ Goto(p, "failed")
  /\ cand' = [cand EXCEPT ![p] = EmptyDocument]
  /\ fresh' = [fresh EXCEPT ![p] = FALSE]
  /\ UNCHANGED <<mem, ctl, run, call, own, pown, opMu, outcome, used, budget>>

\* The second comparison; persistMu is released.
Recheck(p) ==
  /\ pc[p] = "check"
  /\ Goto(p, IF fresh[p] THEN "saved" ELSE "snap")
  /\ IF fresh[p] /\ ~Plain(p)
     THEN UNCHANGED <<cand, fresh>>
     ELSE /\ cand' = [cand EXCEPT ![p] = EmptyDocument]
          /\ fresh' = [fresh EXCEPT ![p] = FALSE]
  /\ UNCHANGED <<mem, disk, ctl, run, call, own, pown, opMu, outcome, used, budget>>
=============================================================================
