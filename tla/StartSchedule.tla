---------------------------- MODULE StartSchedule ----------------------------
(***************************************************************************)
(* The scheduled start of the queue (ui/scheduler.go, ui/schedule.go,      *)
(* beginUploads and pauseUploads of ui/queue_ops.go): one plan, kept in    *)
(* the settings and in a coordinator with a timer, started by the window   *)
(* when its picture of the controller allows it.  The generation of a      *)
(* timer is only ever compared with the current one, so a function of an   *)
(* older timer that was too late to be stopped is just "late".             *)
(***************************************************************************)
EXTENDS WindowFeed

CONSTANTS
  MaxTime,     \* bound: the clock
  MaxBreaks    \* bound: lost connections and restarts of the program

ASSUME ScheduleConstants ==
  MaxTime \in Nat \ {0} /\ MaxBreaks \in Nat

NoPlan == 0
Times == 1..MaxTime

VARIABLES
  clock,
  sched,      \* the coordinator; timer: "none", "armed" or "fired"
  settings,   \* ScheduledStartUnix of the settings in memory ...
  saved,      \* ... and in their file
  ui,         \* what the interface thread is in the middle of
  link,       \* the client: "none", "lost" (it connects again) or "ready"
  breaks,     \* lost connections and restarts so far
  plan,       \* history: what the user decided last
  unsaved,    \* history: saving the plan failed, and nothing put it right since
  astray      \* history: a restart found another plan in the file than that one

stored == <<settings, saved, unsaved>>
decided == <<plan, astray>>
schedule == <<clock, sched, stored, ui, link, breaks, decided>>
vars == <<ctl, feed, reported, refused, schedule>>

NotSet == [at |-> NoPlan, due |-> FALSE, timer |-> "none", late |-> FALSE]
Idle == [at |-> "free", scheduled |-> FALSE, due |-> FALSE, plan |-> NoPlan, paused |-> FALSE,
         view |-> None]
Free == ui.at = "free"
connected == link = "ready"

-----------------------------------------------------------------------------
(* The coordinator.                                                        *)

\* stopTimerLocked and generation++: a function that runs already is late.
Late == sched.late \/ sched.timer = "fired"

\* Set: the callback is called at once for a time that has come.
Set(at) ==
  /\ sched' = [at |-> at, due |-> at <= clock, late |-> Late,
               timer |-> IF at <= clock THEN "none" ELSE "armed"]

\* Cancel.
Cancelled == [NotSet EXCEPT !.late = Late]

\* HoldDue.
HoldDue(at) == sched' = [at |-> at, due |-> TRUE, late |-> Late, timer |-> "none"]

\* RetryDue, as part of a callback whose place in the queue was q.
Retried(q) == IF sched.at # NoPlan /\ sched.due THEN Append(q, "start") ELSE q

Tick ==
  /\ clock < MaxTime
  /\ clock' = clock + 1
  /\ UNCHANGED <<ctl, feed, reported, refused, sched, stored, ui, link, breaks, decided>>

TimerFires ==
  /\ sched.timer = "armed" /\ sched.at <= clock
  /\ sched' = [sched EXCEPT !.timer = "fired"]
  /\ UNCHANGED <<ctl, feed, reported, refused, clock, stored, ui, link, breaks, decided>>

\* Mutant of Fire: generations are not compared.
FireAny ==
  /\ sched.timer = "fired" \/ sched.late
  /\ IF sched.at # NoPlan /\ ~sched.due
     THEN /\ sched' = [sched EXCEPT !.due = TRUE, !.timer = "none", !.late = FALSE]
          /\ Post("start")
     ELSE /\ sched' = [sched EXCEPT !.timer = "none", !.late = FALSE]
          /\ UNCHANGED queue
  /\ UNCHANGED <<ctl, updates, progress, pending, shown, overtaken, reported, refused,
                 clock, stored, ui, link, breaks, decided>>

\* fire: the current timer makes the plan due; a late one does nothing.
Fire ==
  /\ \/ /\ sched.timer = "fired" /\ sched.at # NoPlan /\ ~sched.due
        /\ sched' = [sched EXCEPT !.due = TRUE, !.timer = "none"]
        /\ Post("start")
     \/ /\ sched.late
        /\ sched' = [sched EXCEPT !.late = FALSE]
        /\ UNCHANGED queue
  /\ UNCHANGED <<ctl, updates, progress, pending, shown, overtaken, reported, refused,
                 clock, stored, ui, link, breaks, decided>>

-----------------------------------------------------------------------------
(* The settings.                                                           *)

\* updateSettings: the file is written, then memory follows ...
Store(at) == settings' = at /\ saved' = at /\ unsaved' = FALSE

\* ... unless the write reports an error, with or without the new content in place.
StoreFails(at) ==
  /\ saved' \in {saved, at}
  /\ unsaved' = TRUE
  /\ UNCHANGED settings

\* Any other setting is saved, or is not: the file gets the plan in memory.
SaveOther ==
  /\ saved' \in {saved, settings}
  /\ unsaved' = (unsaved /\ ~(settings = sched.at /\ saved' = sched.at))
  /\ UNCHANGED <<ctl, feed, reported, refused, clock, sched, settings, ui, link, breaks, decided>>

-----------------------------------------------------------------------------
(* The user's plan.                                                        *)

\* showScheduleDialog: a modal dialog; the controller goes on behind it.
OpenDialog ==
  /\ Free /\ ~shown.running /\ ~shown.paused /\ Runnable(shown.state) /\ clock < MaxTime
  /\ ui' = [Idle EXCEPT !.at = "dialog"]
  /\ UNCHANGED <<ctl, feed, reported, refused, clock, sched, stored, link, breaks, decided>>

\* The button of the dialog; the plan is saved before it is set.
PlanStart ==
  /\ ui.at = "dialog"
  /\ \E at \in Times : at > clock /\ Store(at) /\ Set(at) /\ plan' = at
  /\ astray' = FALSE
  /\ ui' = Idle
  /\ UNCHANGED <<ctl, feed, reported, refused, clock, link, breaks>>

\* It cannot be saved: the user is told, and the dialog stays.
PlanNotSaved ==
  /\ ui.at = "dialog"
  /\ \E at \in Times : at > clock /\ StoreFails(at)
  /\ UNCHANGED <<ctl, feed, reported, refused, clock, sched, ui, link, breaks, decided>>

LeaveDialog ==
  /\ ui.at = "dialog"
  /\ ui' = Idle
  /\ UNCHANGED <<ctl, feed, reported, refused, clock, sched, stored, link, breaks, decided>>

\* cancelScheduledStart; when that cannot be saved the plan stays.
CancelPlan ==
  /\ Free /\ sched.at # NoPlan
  /\ \/ Store(NoPlan) /\ sched' = Cancelled /\ plan' = NoPlan /\ astray' = FALSE
     \/ StoreFails(NoPlan) /\ UNCHANGED <<sched, decided>>
  /\ UNCHANGED <<ctl, feed, reported, refused, clock, ui, link, breaks>>

-----------------------------------------------------------------------------
(* Starting.                                                               *)

\* beginUploads up to Start: a plan is taken from the settings and cancelled,
\* or that cannot be saved and no start is tried.
Begin(scheduled) ==
  \/ /\ ui' = [Idle EXCEPT !.at = "start", !.scheduled = scheduled, !.due = sched.due,
                           !.plan = sched.at]
     /\ IF sched.at # NoPlan THEN Store(NoPlan) /\ sched' = Cancelled
        ELSE UNCHANGED <<stored, sched>>
     /\ UNCHANGED refused
  \/ /\ sched.at # NoPlan
     /\ StoreFails(NoPlan)
     /\ refused' = TRUE
     /\ UNCHANGED <<ui, sched>>

\* startUploads: the button.
StartPressed ==
  /\ Free /\ connected /\ ~shown.running /\ Runnable(shown.state)
  /\ Begin(FALSE)
  /\ UNCHANGED <<ctl, feed, reported, clock, link, breaks, decided>>

\* Mutant of MayStart: a pause does not keep a scheduled start back.
MayStartPaused ==
  sched.at # NoPlan /\ sched.due /\ ~shown.running /\ connected /\ Runnable(shown.state)

\* The guards of tryScheduledStart.
MayStart ==
  /\ sched.at # NoPlan /\ sched.due
  /\ ~shown.running /\ ~shown.paused
  /\ connected /\ Runnable(shown.state)

\* tryScheduledStart.
RunStart ==
  /\ Free /\ NextIs("start")
  /\ queue' = Tail(queue)
  /\ IF MayStart THEN Begin(TRUE) ELSE UNCHANGED <<ui, stored, sched, refused>>
  /\ UNCHANGED <<ctl, updates, progress, pending, shown, overtaken, reported,
                 clock, link, breaks, decided>>

\* Controller.Start takes the queue and ends a pause ...
TakeQueue ==
  /\ ui.at = "start" /\ ctl.at = "off" /\ Runnable(ctl.state)
  /\ ctl' = [ctl EXCEPT !.at = "saving", !.paused = FALSE]
  /\ Published
  /\ ui' = [ui EXCEPT !.at = "saving", !.paused = ctl.paused]
  /\ UNCHANGED <<reported, clock, sched, stored, link, breaks, decided>>

\* ... saves it and starts runQueue.
Started ==
  /\ ui.at = "saving"
  /\ ctl' = [ctl EXCEPT !.at = "next"]
  /\ IF ui.plan # NoPlan THEN plan' = NoPlan /\ astray' = FALSE ELSE UNCHANGED decided
  /\ ui' = Idle
  /\ Silent
  /\ UNCHANGED <<reported, clock, sched, stored, link, breaks>>

\* Mutant of PutBack: the plan is only written back.
PutBackInSettings == UNCHANGED <<sched, queue>>

\* A plan that was due or is being started stays due; another one is set again.
PutBack ==
  IF ui.scheduled \/ ui.due
  THEN HoldDue(ui.plan) /\ UNCHANGED queue
  ELSE Set(ui.plan) /\ queue' = IF ui.plan <= clock THEN Append(queue, "start") ELSE queue

\* The plan is put back in the coordinator, and in the settings if they can be saved.
PlanPutBack ==
  IF ui.plan = NoPlan THEN UNCHANGED <<sched, stored, queue>>
  ELSE PutBack /\ (Store(ui.plan) \/ StoreFails(ui.plan))

Refusal ==
  /\ PlanPutBack
  /\ refused' = TRUE
  /\ ui' = Idle
  /\ UNCHANGED <<ctl, updates, progress, pending, shown, overtaken, reported, clock, link,
                 breaks, decided>>

\* Start refuses: the queue runs, cleans up or has nothing to send ...
StartRefused ==
  /\ ui.at = "start" /\ (ctl.at # "off" \/ ~Runnable(ctl.state))
  /\ Refusal

\* ... or another operation on the queue is going on, the client has just gone, or
\* no channel is bound.
StartDeclined ==
  /\ ui.at = "start" /\ ctl.at = "off" /\ Runnable(ctl.state)
  /\ Refusal

\* The queue cannot be saved: the pause is restored.
SaveFails ==
  /\ ui.at = "saving"
  /\ ctl' = [ctl EXCEPT !.at = "off", !.paused = ui.paused]
  /\ Notify
  /\ PlanPutBack
  /\ ui' = Idle
  /\ UNCHANGED <<progress, pending, shown, reported, clock, link, breaks, decided>>

-----------------------------------------------------------------------------
(* The rest of the interface thread.                                       *)

\* pauseUploads; the button is enabled while the queue is shown to run.  The call
\* saves the queue; when it fails the window asks for a snapshot (see Reload).
Pause ==
  /\ Free /\ shown.running /\ ~shown.paused
  /\ IF ctl.paused THEN UNCHANGED <<ctl, updates, overtaken, refused>>
     ELSE ctl' = [ctl EXCEPT !.paused = TRUE] /\ Notify
  /\ UNCHANGED <<progress, pending, queue, shown, reported, schedule>>

\* Mutant of RunSnapshot: the plan is not tried again.
RunSnapshotOnly ==
  /\ Free /\ NextIs("snapshot")
  /\ shown' = pending.snapshot
  /\ pending' = [pending EXCEPT !.snapshot = None]
  /\ queue' = Tail(queue)
  /\ UNCHANGED <<ctl, updates, progress, overtaken, reported, refused, schedule>>

\* applySnapshot: a plan that is due is tried again when the queue does not run.
RunSnapshot ==
  /\ Free /\ NextIs("snapshot")
  /\ shown' = pending.snapshot
  /\ pending' = [pending EXCEPT !.snapshot = None]
  /\ queue' = IF shown'.running THEN Tail(queue) ELSE Retried(Tail(queue))
  /\ UNCHANGED <<ctl, updates, progress, overtaken, reported, refused, schedule>>

\* The connection is lost, for a while or with its client.
Lose ==
  /\ Free /\ connected /\ breaks < MaxBreaks
  /\ link' \in {"lost", "none"}
  /\ breaks' = breaks + 1
  /\ UNCHANGED <<ctl, feed, reported, refused, clock, sched, stored, ui, decided>>

\* The client has its connection again: a plan that is due is tried.
Regain ==
  /\ Free /\ link = "lost"
  /\ link' = "ready"
  /\ queue' = Retried(queue)
  /\ UNCHANGED <<ctl, updates, progress, pending, shown, overtaken, reported, refused, clock,
                 sched, stored, ui, breaks, decided>>

\* A client is ready: the window asks the controller for a snapshot ...
Reload ==
  /\ Free /\ ~connected
  /\ link' = "ready"
  /\ ui' = [Idle EXCEPT !.at = "reload", !.view = Snapshot]
  /\ UNCHANGED <<ctl, feed, reported, refused, clock, sched, stored, breaks, decided>>

\* ... and puts it into the slot of the observer, which may have been faster.
ShowReload ==
  /\ ui.at = "reload"
  /\ pending' = [pending EXCEPT !.snapshot = ui.view]
  /\ queue' = Retried(IF pending.snapshot = None THEN Append(queue, "snapshot") ELSE queue)
  /\ overtaken' = (overtaken \/ /\ ui.view # Snapshot /\ updates = None)
  /\ ui' = Idle
  /\ UNCHANGED <<ctl, updates, progress, shown, reported, refused, clock, sched, stored,
                 link, breaks, decided>>

\* Start has been called, with the plan taken from the settings.
Starting == ui.at \in {"start", "saving"}

\* The program dies and is started again: the plan in the file is set, and a
\* client connects.
Restart ==
  /\ breaks < MaxBreaks
  /\ breaks' = breaks + 1
  /\ ctl' = [ctl EXCEPT !.at = "off", !.active = NoAttempt,
                        !.state = CASE @ = "uploading" -> "queued"
                                    [] @ = "sending" -> "done"
                                    [] OTHER -> @]
  /\ updates' = None /\ progress' = None
  /\ pending' = [snapshot |-> None, progress |-> None]
  /\ shown' = Snapshot'
  /\ sched' = IF saved = NoPlan THEN NotSet
              ELSE [at |-> saved, due |-> saved <= clock, late |-> FALSE,
                    timer |-> IF saved <= clock THEN "none" ELSE "armed"]
  /\ queue' = IF saved # NoPlan /\ saved <= clock THEN <<"start">> ELSE <<>>
  /\ link' = "none"
  /\ ui' = Idle
  /\ settings' = saved /\ unsaved' = FALSE
  /\ astray' = ((astray \/ unsaved \/ Starting) /\ saved # plan)
  /\ overtaken' = FALSE /\ refused' = FALSE
  /\ UNCHANGED <<reported, clock, saved, plan>>

-----------------------------------------------------------------------------
Init ==
  /\ FeedInit
  /\ clock \in 0..MaxTime /\ sched = NotSet /\ settings = NoPlan /\ saved = NoPlan
  /\ ui = Idle /\ link = "ready" /\ breaks = 0
  /\ plan = NoPlan /\ unsaved = FALSE /\ astray = FALSE

FeedStep ==
  /\ Controller \/ QueueAnother \/ Observe \/ (Free /\ RunProgress)
  /\ UNCHANGED schedule

Next ==
  \/ FeedStep \/ Tick \/ TimerFires \/ Fire \/ SaveOther
  \/ OpenDialog \/ PlanStart \/ PlanNotSaved \/ LeaveDialog \/ CancelPlan
  \/ StartPressed \/ RunStart \/ TakeQueue \/ Started
  \/ StartRefused \/ StartDeclined \/ SaveFails
  \/ Pause \/ RunSnapshot \/ Lose \/ Regain \/ Reload \/ ShowReload \/ Restart

Spec == Init /\ [][Next]_vars

-----------------------------------------------------------------------------
FeedTypeOK ==
  /\ ctl \in [size : Sizes, at : {"off", "saving", "next", "upload", "returned", "wait", "cleaning"},
              paused : BOOLEAN, state : {"queued", "uploading", "sending", "done"}, attempt : Attempts \cup {NoAttempt},
              active : Attempts \cup {NoAttempt}, bytes : Bytes]
  /\ updates \in Views \cup {None} /\ progress \in Counts \cup {None}
  /\ pending \in [snapshot : Views \cup {None}, progress : Counts \cup {None}]
  /\ shown \in Views
  /\ queue \in Seq({"snapshot", "progress", "start"})
  /\ \A kind \in {"snapshot", "progress"} :
       Cardinality({i \in DOMAIN queue : queue[i] = kind}) = (IF pending[kind] = None THEN 0 ELSE 1)
  /\ sched \in [at : 0..MaxTime, due : BOOLEAN, timer : {"none", "armed", "fired"}, late : BOOLEAN]
  /\ settings \in 0..MaxTime /\ saved \in 0..MaxTime /\ plan \in 0..MaxTime
  /\ link \in {"none", "lost", "ready"} /\ breaks \in 0..MaxBreaks

\* Nothing is left to do for the observer and the interface thread.
AtRest == NoNews /\ queue = <<>> /\ Free

\* The window shows the state the controller is in once all news has arrived: no
\* merging of snapshots ends with an old one.  (The bytes may lag behind.)
WindowSettles ==
  AtRest /\ ~overtaken =>
    /\ shown.running = Running /\ shown.paused = ctl.paused /\ shown.state = ctl.state
    /\ shown.bytes <= ctl.bytes

\* The bytes shown for an attempt were counted by that attempt: a late count of
\* an earlier one never shows up after a retry began.
BytesOfAttempt ==
  shown.active # NoAttempt /\ shown.state = "uploading" => shown.bytes <= reported[shown.active]

\* A scheduled start is the start of the user's last plan, at or after its time,
\* and never comes after the plan was cancelled.  Only a restart that found another
\* plan, left in the file by a save that reported an error, starts that one.
ScheduledStartsDue ==
  [][TakeQueue /\ ui.scheduled =>
       /\ ui.plan # NoPlan /\ ui.plan <= clock
       /\ ui.plan = plan \/ astray]_vars

\* Between two callbacks of the interface thread the coordinator and the user agree
\* on the plan, and the settings, in memory and in their file, with both, through
\* refused starts, failed saves and restarts: the settings may only differ after a
\* save of the plan reported an error, and the coordinator after a restart on such
\* settings or in the middle of a start.
PlanAgrees ==
  Free \/ ui.at = "dialog" =>
    /\ sched.at = plan \/ astray
    /\ (settings = sched.at /\ saved = sched.at) \/ unsaved

PlanIsDue(at) == at # NoPlan /\ at <= clock

\* The queue could be started, and nothing that may start it is on its way.
CouldStart ==
  /\ AtRest /\ ~overtaken /\ connected /\ sched.timer = "none"
  /\ ctl.at = "off" /\ ~ctl.paused /\ Runnable(ctl.state)

\* A plan whose time has come, that of the coordinator or the user's, is not
\* forgotten: when nothing is on its way any more and the queue could be started,
\* it has been, or the start was refused for a reason nobody was told the end of.
\* (A restart that lost the user's plan is left out.)
DuePlanStarts ==
  CouldStart /\ (PlanIsDue(sched.at) \/ (PlanIsDue(plan) /\ ~astray)) => refused

\* A scheduled start ends a pause only while the window has not heard of it.
NoSilentUnpause ==
  [][TakeQueue /\ ui.scheduled /\ ctl.paused => updates # None \/ pending.snapshot # None]_vars

\* "A scheduled start must never clear a manual pause."
NeverUnpauses == [][TakeQueue /\ ui.scheduled => ~ctl.paused]_vars
=============================================================================
