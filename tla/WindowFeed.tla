----------------------------- MODULE WindowFeed -----------------------------
(***************************************************************************)
(* How the window learns what the upload controller does (ui/state.go, the *)
(* dispatch part of ui/window.go, notifyLocked of app/controller.go): two  *)
(* channels that keep the newest value, an observer goroutine, two pending *)
(* slots, and callbacks on the interface thread.  The controller is        *)
(* reduced to the points where it changes what a snapshot shows and to     *)
(* those where it changes without telling; UploadQueue has the rest.  The  *)
(* queue has one record.                                                   *)
(***************************************************************************)
EXTENDS Naturals, Sequences, FiniteSets

CONSTANTS
  None,        \* an empty channel or slot
  Sizes,       \* of the file; 0: nothing is counted before its end
  MaxAttempts  \* bound: upload attempts, for each size

Attempts == UNION {1..MaxAttempts[n] : n \in Sizes}
NoAttempt == 0
Bytes == UNION {0..n : n \in Sizes}

\* What the two channels carry: snapshots, and byte counts of an attempt.
Views == [running : BOOLEAN, paused : BOOLEAN, state : {"queued", "uploading", "sending", "done"},
          active : Attempts \cup {NoAttempt}, bytes : Bytes]
Counts == [attempt : Attempts, bytes : Bytes]

ASSUME FeedConstants ==
  /\ Sizes \subseteq Nat /\ MaxAttempts \in [Sizes -> Nat \ {0}]
  /\ None \notin Views \cup Counts

VARIABLES
  ctl,        \* the controller
  updates,    \* its channel of snapshots
  progress,   \* its channel of byte counts
  pending,    \* pendingSnapshot and pendingProgress; None: nothing is queued
  queue,      \* callbacks of the interface thread
  shown,      \* u.snapshot
  reported,   \* history: bytes the controller counted for each attempt
  overtaken,  \* history: a snapshot taken by the interface thread hid a newer one
  refused     \* history: Start was refused and nothing was published since

feed == <<updates, progress, pending, queue, shown, overtaken>>

Running == ctl.at \notin {"off", "cleaning"}
Runnable(state) == state = "queued"

\* snapshotLocked.  While the queue runs Paused and PauseRequested are equal, and
\* the window treats them alike otherwise.
Snapshot ==
  [running |-> Running, paused |-> ctl.paused, state |-> ctl.state,
   active |-> ctl.active, bytes |-> ctl.bytes]

Post(kind) == queue' = Append(queue, kind)

-----------------------------------------------------------------------------
(* The controller.                                                         *)

\* Mutant of Notify: a full channel keeps what it has.
NotifyIfEmpty ==
  /\ updates' = IF updates = None THEN Snapshot' ELSE updates
  /\ overtaken' = FALSE /\ refused' = FALSE

\* notifyLocked: the newest snapshot replaces one nobody has taken.
Notify ==
  /\ updates' = Snapshot'
  /\ overtaken' = FALSE /\ refused' = FALSE

\* The callback of the active attempt or prepareSend counted bytes.
Counted(b) == reported' = [reported EXCEPT ![ctl.active] = b]

Published == Notify /\ UNCHANGED <<progress, pending, queue, shown>>
Silent == UNCHANGED <<feed, refused>>

\* uploadJobWithRetry: an attempt begins, the first one or after a wait.
BeginAttempt ==
  /\ \/ ctl.at = "next" /\ Runnable(ctl.state)
     \/ ctl.at = "wait" /\ ctl.state = "uploading"
  /\ ~ctl.paused /\ ctl.attempt < MaxAttempts[ctl.size]
  /\ ctl' = [ctl EXCEPT !.at = "upload", !.state = "uploading", !.bytes = 0,
                        !.attempt = @ + 1, !.active = ctl.attempt + 1]
  /\ Published
  /\ UNCHANGED reported

\* applyProgressForAttempt; a callback of another attempt returns at once.
\* notifyProgressLocked replaces a count nobody has taken.  (A count that is not
\* larger tells the window nothing.)
CountBytes ==
  /\ ctl.active # NoAttempt /\ ctl.state \in {"uploading", "sending"}
  /\ \E b \in (ctl.bytes + 1)..ctl.size :
       /\ ctl' = [ctl EXCEPT !.bytes = b]
       /\ progress' = [attempt |-> ctl.active, bytes |-> b]
       /\ Counted(b)
  /\ UNCHANGED <<updates, pending, queue, shown, overtaken, refused>>

\* prepareSendForAttempt: the file is complete and the message follows.
PrepareSend ==
  /\ ctl.at = "upload" /\ ctl.state = "uploading" /\ ctl.active # NoAttempt
  /\ ctl' = [ctl EXCEPT !.state = "sending", !.bytes = ctl.size]
  /\ Published
  /\ Counted(ctl.size)

\* UploadVideo returns, or a pause or the saved state stops the attempt before
\* it: activeAttempt is cleared, and no one is told.
AttemptReturns ==
  /\ ctl.at = "upload"
  /\ ctl' = [ctl EXCEPT !.at = "returned", !.active = NoAttempt]
  /\ Silent
  /\ UNCHANGED reported

\* waitBeforeUploadRetry, while the message was not on its way.
WaitForRetry ==
  /\ ctl.at = "returned" /\ ctl.state = "uploading" /\ ~ctl.paused
  /\ ctl' = [ctl EXCEPT !.at = "wait", !.bytes = 0]
  /\ Published
  /\ UNCHANGED reported

\* A pause ends the wait or the attempt it met; the job can be started again.
Interrupted ==
  /\ ctl.at \in {"returned", "wait"} /\ ctl.state = "uploading" /\ ctl.paused
  /\ ctl' = [ctl EXCEPT !.at = "next", !.state = "queued"]
  /\ Published
  /\ UNCHANGED reported

\* The job was sent, failed, or its outcome is unknown.
JobEnds ==
  /\ \/ ctl.at = "returned"
     \/ ctl.at = "next" /\ Runnable(ctl.state) /\ ~ctl.paused
  /\ ctl' = [ctl EXCEPT !.at = "next", !.state = "done",
                        !.bytes = IF ctl.state = "sending" THEN ctl.size ELSE @]
  /\ Published
  /\ UNCHANGED reported

\* The deferred part of runQueue: running is cleared and published first ...
EndRun ==
  /\ ctl.at = "next" /\ (ctl.paused \/ ~Runnable(ctl.state))
  /\ ctl' = [ctl EXCEPT !.at = "cleaning", !.active = NoAttempt]
  /\ Published
  /\ UNCHANGED reported

\* ... and runDone, which Start looks at, after the queue was saved.
CleanUp ==
  /\ ctl.at = "cleaning"
  /\ ctl' = [ctl EXCEPT !.at = "off"]
  /\ Silent
  /\ UNCHANGED reported

\* The user resets the job, or adds another one in its place.
QueueAnother ==
  /\ ctl.state = "done" /\ ctl.attempt < MaxAttempts[ctl.size]
  /\ ctl' = [ctl EXCEPT !.state = "queued", !.bytes = 0]
  /\ Published
  /\ UNCHANGED reported

Controller ==
  \/ BeginAttempt \/ PrepareSend \/ AttemptReturns \/ WaitForRetry \/ Interrupted
  \/ CountBytes \/ JobEnds \/ EndRun \/ CleanUp

-----------------------------------------------------------------------------
(* observeController.                                                      *)

\* Mutant of Enqueue: a callback is posted for every value.
EnqueuePosting(kind, value) ==
  /\ pending' = [pending EXCEPT ![kind] = value]
  /\ Post(kind)

\* enqueueControllerSnapshot, enqueueControllerProgress: the slot is replaced,
\* and a callback is posted unless one is queued.
Enqueue(kind, value) ==
  /\ pending' = [pending EXCEPT ![kind] = value]
  /\ IF pending[kind] = None THEN Post(kind) ELSE UNCHANGED queue

\* select takes from either channel.  What the observer holds between the channel
\* and the slot might as well be in one of them: nobody else empties a slot in
\* between but the callback that is to be posted.
Observe ==
  /\ \/ /\ updates # None /\ Enqueue("snapshot", updates)
        /\ updates' = None /\ UNCHANGED progress
     \/ /\ progress # None /\ Enqueue("progress", progress)
        /\ progress' = None /\ UNCHANGED updates
  /\ UNCHANGED <<ctl, shown, reported, overtaken, refused>>

-----------------------------------------------------------------------------
(* Callbacks of the interface thread; what else they do is in StartSchedule. *)

NextIs(kind) == queue # <<>> /\ Head(queue) = kind

\* Mutant of ShowProgress: the attempt is not compared.
ShowAnyProgress ==
  LET p == pending.progress IN
  shown' = IF shown.state \in {"uploading", "sending"} /\ p.bytes >= shown.bytes
           THEN [shown EXCEPT !.bytes = p.bytes] ELSE shown

\* applyProgressUpdate: only of the attempt that is shown, and only forwards.
ShowProgress ==
  LET p == pending.progress IN
  shown' = IF /\ p.attempt = shown.active
              /\ shown.state \in {"uploading", "sending"} /\ p.bytes >= shown.bytes
           THEN [shown EXCEPT !.bytes = p.bytes] ELSE shown

RunProgress ==
  /\ NextIs("progress")
  /\ ShowProgress
  /\ pending' = [pending EXCEPT !.progress = None]
  /\ queue' = Tail(queue)
  /\ UNCHANGED <<ctl, updates, progress, reported, overtaken, refused>>

\* No news is on its way to the window.
NoNews ==
  updates = None /\ progress = None /\ pending = [snapshot |-> None, progress |-> None]

FeedInit ==
  /\ \E n \in Sizes :
       ctl = [size |-> n, at |-> "off", paused |-> FALSE, state |-> "queued",
              attempt |-> 0, active |-> NoAttempt, bytes |-> 0]
  /\ updates = None /\ progress = None
  /\ pending = [snapshot |-> None, progress |-> None]
  /\ queue = <<>>
  /\ shown = Snapshot
  /\ reported = [a \in Attempts |-> 0]
  /\ overtaken = FALSE /\ refused = FALSE
=============================================================================
