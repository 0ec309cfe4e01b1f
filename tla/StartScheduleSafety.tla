------------------------- MODULE StartScheduleSafety -------------------------
(***************************************************************************)
(* What the window promises about its picture of the queue and about the   *)
(* scheduled start, for any sizes, attempts, times and losses of the       *)
(* connection.  The invariant IInv follows two things through many hands:  *)
(* Pictured the newest snapshot, from the controller's channel through the *)
(* slot of the observer to the window, and Planned the plan, from the      *)
(* settings and the coordinator through a start that may be refused and    *)
(* back.                                                                   *)
(***************************************************************************)
EXTENDS StartSchedule, FiniteSetTheorems, TLAPS

Kinds == {"snapshot", "progress", "start"}
States == {"queued", "uploading", "sending", "done"}
Has(q, kind) == \E i \in 1..Len(q) : q[i] = kind
Once(q, kind) == \A i, j \in 1..Len(q) : q[i] = kind /\ q[j] = kind => i = j

-----------------------------------------------------------------------------
(* Types, and the callbacks of the two slots.                              *)

ControllerType ==
  [size : Sizes, at : {"off", "saving", "next", "upload", "returned", "wait", "cleaning"},
   paused : BOOLEAN, state : States, attempt : Attempts \cup {NoAttempt},
   active : Attempts \cup {NoAttempt}, bytes : Nat]
ControllerTyped ==
  /\ ctl \in ControllerType /\ ctl.bytes <= ctl.size
  /\ reported \in [Attempts -> Nat] /\ refused \in BOOLEAN

ChannelsTyped ==
  /\ updates \in Views \cup {None} /\ progress \in Counts \cup {None}
  /\ pending \in [snapshot : Views \cup {None}, progress : Counts \cup {None}]
  /\ shown \in Views /\ overtaken \in BOOLEAN

QueueTyped == queue \in Seq(Kinds)

PlanType ==
  [at : 0..MaxTime, due : BOOLEAN, timer : {"none", "armed", "fired"}, late : BOOLEAN]
PlanTyped ==
  /\ sched \in PlanType
  /\ clock \in 0..MaxTime /\ settings \in 0..MaxTime /\ saved \in 0..MaxTime /\ plan \in 0..MaxTime
  /\ breaks \in 0..MaxBreaks /\ link \in {"none", "lost", "ready"}
  /\ unsaved \in BOOLEAN /\ astray \in BOOLEAN

WindowTyped ==
  /\ ui \in [at : {"free", "dialog", "start", "saving", "reload"}, scheduled : BOOLEAN,
             due : BOOLEAN, plan : 0..MaxTime, paused : BOOLEAN, view : Views \cup {None}]
  /\ ui.at = "reload" => ui.view # None

\* A slot is full as long as its callback is queued, and that is there once.
Posted(kind, slot) == (slot # None <=> Has(queue, kind)) /\ Once(queue, kind)

Slots == Posted("snapshot", pending.snapshot) /\ Posted("progress", pending.progress)

Typed ==
  /\ ControllerTyped /\ ChannelsTyped /\ QueueTyped /\ PlanTyped /\ WindowTyped /\ Slots

-----------------------------------------------------------------------------
(* The picture of the queue.                                               *)

\* Only an attempt that uploads is active, and Start is in the queue or in the window.
Attempting ==
  /\ ctl.active # NoAttempt => ctl.at = "upload" /\ ctl.active = ctl.attempt
  /\ ctl.at = "upload" => ctl.state \in {"uploading", "sending"}
  /\ ui.at = "saving" => ctl.at = "saving"

\* Bytes are counted for the attempt that is active, and for none that is to come.
Counting ==
  /\ ctl.active # NoAttempt => reported[ctl.active] = ctl.bytes
  /\ \A a \in Attempts : a > ctl.attempt => reported[a] = 0

\* What is on its way to the window was counted by the attempt it names.
ViewCounted(v) == v # None /\ v.active # NoAttempt => v.bytes <= reported[v.active]
NewsCounted ==
  /\ ViewCounted(updates) /\ ViewCounted(pending.snapshot) /\ ViewCounted(shown)
  /\ ViewCounted(ui.view)
  /\ progress # None => progress.bytes <= reported[progress.attempt]
  /\ pending.progress # None => pending.progress.bytes <= reported[pending.progress.attempt]

\* The snapshot the window will show last.
Newest ==
  IF updates # None THEN updates
  ELSE IF pending.snapshot # None THEN pending.snapshot ELSE shown

NewestTold ==
  /\ Newest.paused = ctl.paused
  /\ ~overtaken =>
       /\ Newest.running = Running /\ Newest.state = ctl.state /\ Newest.bytes <= ctl.bytes
       /\ Newest.active # NoAttempt => reported[Newest.active] <= ctl.bytes

\* Nothing pauses or resumes while the interface thread waits for a snapshot.
ReloadKnows == ui.at = "reload" => ui.view.paused = ctl.paused

Pictured == Attempting /\ Counting /\ NewsCounted /\ NewestTold /\ ReloadKnows

-----------------------------------------------------------------------------
(* The plan.                                                               *)

\* The plan is the coordinator's, or that of the start under way.
PlanHeld ==
  /\ Starting => sched.at = NoPlan
  /\ (IF Starting THEN ui.plan ELSE sched.at) = plan \/ astray

\* The settings have the coordinator's plan, unless they could not be saved.
PlanStored == (settings = sched.at /\ saved = sched.at) \/ unsaved

PlanKept == PlanHeld /\ PlanStored

\* A plan is due, or a timer runs for it; both mean its time.
TimerRuns ==
  /\ sched.due => sched.at # NoPlan /\ sched.at <= clock
  /\ sched.timer = "fired" => sched.at <= clock
  /\ sched.at # NoPlan /\ ~sched.due => sched.timer # "none"

\* A scheduled start is that of a plan whose time has come, and no pause is shown.
StartIsDue ==
  Starting =>
    /\ ui.scheduled => ui.plan # NoPlan
    /\ ui.scheduled \/ ui.due => ui.plan <= clock
    /\ ui.scheduled /\ ui.at = "start" => ~shown.paused

Blocked == shown.running \/ shown.paused \/ ~Runnable(shown.state) \/ link # "ready"

\* A plan that is due will be tried, or what keeps it back will be told.
DueIsTried ==
  sched.due =>
    \/ Has(queue, "start") \/ refused \/ Blocked
    \/ updates # None \/ pending.snapshot # None \/ ui.at = "reload"

Planned == PlanKept /\ TimerRuns /\ StartIsDue /\ DueIsTried

IInv == Typed /\ Pictured /\ Planned

-----------------------------------------------------------------------------
(* Lemmas about the operators.                                             *)

LEMMA Constants ==
  /\ MaxTime \in Nat /\ NoPlan = 0 /\ NoAttempt = 0 /\ NoAttempt \notin Attempts
  /\ Sizes \subseteq Nat /\ Attempts \subseteq Nat /\ Bytes \subseteq Nat
  /\ \A n \in Sizes :
       0..n \subseteq Bytes /\ MaxAttempts[n] \in Nat /\ 1..MaxAttempts[n] \subseteq Attempts
  /\ None \notin Views /\ None \notin Counts
BY FeedConstants, ScheduleConstants
   DEF FeedConstants, ScheduleConstants, NoPlan, NoAttempt, Attempts, Bytes

\* A callback is appended, and one leaves at the head.
LEMMA Appends ==
  ASSUME NEW q \in Seq(Kinds), NEW kind \in Kinds
  PROVE  /\ Append(q, kind) \in Seq(Kinds) /\ Has(Append(q, kind), kind)
         /\ \A k : Has(q, k) => Has(Append(q, kind), k)
         /\ \A k : k # kind => (Has(Append(q, kind), k) <=> Has(q, k))
         /\ \A k : k # kind /\ Once(q, k) => Once(Append(q, kind), k)
         /\ ~Has(q, kind) => Once(Append(q, kind), kind)
<1> DEFINE r == Append(q, kind)
<1>1. /\ r \in Seq(Kinds) /\ Len(q) \in Nat /\ Len(r) = Len(q) + 1 /\ r[Len(q) + 1] = kind
      /\ \A i \in 1..Len(q) : r[i] = q[i]
  OBVIOUS
<1> HIDE DEF r
<1>2. Has(r, kind) BY <1>1 DEF Has
<1>3. \A k : Has(q, k) => Has(r, k) BY <1>1 DEF Has
<1>4. ASSUME NEW k, k # kind, Has(r, k) PROVE Has(q, k)
  <2>1. PICK i \in 1..Len(r) : r[i] = k BY <1>4 DEF Has
  <2>2. i \in 1..Len(q) BY <1>1, <1>4, <2>1
  <2> QED BY <1>1, <2>1, <2>2 DEF Has
<1>5. ASSUME NEW k, k # kind, Once(q, k) PROVE Once(r, k)
  BY <1>1, <1>5 DEF Once
<1>6. ~Has(q, kind) => Once(r, kind) BY <1>1 DEF Has, Once
<1> QED BY <1>1, <1>2, <1>3, <1>4, <1>5, <1>6 DEF r

LEMMA Leaves ==
  ASSUME NEW q \in Seq(Kinds), q # <<>>
  PROVE  /\ Tail(q) \in Seq(Kinds)
         /\ \A k : k # Head(q) => (Has(Tail(q), k) <=> Has(q, k))
         /\ \A k : Once(q, k) => Once(Tail(q), k)
         /\ Once(q, Head(q)) => ~Has(Tail(q), Head(q))
         /\ Has(q, Head(q))
<1> DEFINE r == Tail(q)
<1>1. /\ r \in Seq(Kinds) /\ Len(q) \in Nat /\ Len(q) > 0 /\ Len(r) = Len(q) - 1 /\ Head(q) = q[1]
      /\ \A i \in 1..Len(r) : r[i] = q[i + 1]
  OBVIOUS
<1> HIDE DEF r
<1>2. ASSUME NEW k, k # Head(q) PROVE Has(r, k) <=> Has(q, k)
  <2>1. ASSUME NEW i \in 1..Len(q), q[i] = k PROVE Has(r, k)
    <3>1. i - 1 \in 1..Len(r) /\ r[i - 1] = k BY <1>1, <1>2, <2>1
    <3> QED BY <3>1 DEF Has
  <2>2. ASSUME NEW i \in 1..Len(r), r[i] = k PROVE Has(q, k)
    <3>1. i + 1 \in 1..Len(q) /\ q[i + 1] = k BY <1>1, <2>2
    <3> QED BY <3>1 DEF Has
  <2> QED BY <2>1, <2>2 DEF Has
<1>3. ASSUME NEW k, Once(q, k) PROVE Once(r, k)
  <2> SUFFICES ASSUME NEW i \in 1..Len(r), NEW j \in 1..Len(r), r[i] = k, r[j] = k PROVE i = j
    BY DEF Once
  <2>1. i + 1 \in 1..Len(q) /\ j + 1 \in 1..Len(q) /\ q[i + 1] = k /\ q[j + 1] = k BY <1>1
  <2> QED BY <1>3, <2>1 DEF Once
<1>4. ASSUME Once(q, Head(q)), Has(r, Head(q)) PROVE FALSE
  <2>1. PICK i \in 1..Len(r) : r[i] = Head(q) BY <1>4 DEF Has
  <2>2. i + 1 \in 1..Len(q) /\ q[i + 1] = Head(q) /\ 1 \in 1..Len(q) /\ i + 1 # 1 BY <1>1, <2>1
  <2> QED BY <1>1, <1>4, <2>2 DEF Once
<1>5. Has(q, Head(q)) BY <1>1 DEF Has
<1> QED BY <1>1, <1>2, <1>3, <1>4, <1>5 DEF r

\* A snapshot is one of the views the window may be sent.
LEMMA SnapshotTyped == ControllerTyped => Snapshot \in Views /\ Snapshot # None
<1> SUFFICES ASSUME ControllerTyped PROVE Snapshot \in Views /\ Snapshot # None OBVIOUS
<1>1. /\ ctl.paused \in BOOLEAN /\ ctl.state \in States /\ ctl.active \in Attempts \cup {NoAttempt}
      /\ ctl.bytes \in 0..ctl.size /\ ctl.size \in Sizes
  BY Constants DEF ControllerTyped, ControllerType
<1>1a. ctl.bytes \in Bytes BY <1>1, Constants
<1>2. Running \in BOOLEAN BY DEF Running
<1>3. Snapshot \in Views BY ONLY <1>1, <1>1a, <1>2 DEF Snapshot, Views, States
<1> QED BY <1>3, Constants

\* A group whose variables do not change keeps its types.
LEMMA GroupsKept ==
  ASSUME Typed
  PROVE  /\ UNCHANGED <<ctl, reported, refused>> => ControllerTyped'
         /\ UNCHANGED <<updates, progress, pending, shown, overtaken>> => ChannelsTyped'
         /\ UNCHANGED <<queue, pending>> => QueueTyped' /\ Slots'
         /\ UNCHANGED <<clock, sched, settings, saved, unsaved, link, breaks, plan, astray>> => PlanTyped'
         /\ UNCHANGED ui => WindowTyped'
BY DEF Typed, ControllerTyped, ControllerType, ChannelsTyped, QueueTyped, Slots, Posted,
   PlanTyped, PlanType, WindowTyped

-----------------------------------------------------------------------------
(* The controller.                                                         *)

\* What the controller tells is what it knows.
LEMMA Notified ==
  ASSUME ControllerTyped', Counting', Notify
  PROVE  /\ updates' \in Views /\ updates' # None /\ overtaken' = FALSE /\ refused' = FALSE
         /\ NewestTold' /\ ViewCounted(updates)' /\ DueIsTried'
<1>1. Snapshot' \in Views /\ Snapshot' # None
  <2>1. ControllerTyped' => (Snapshot \in Views /\ Snapshot # None)' BY SnapshotTyped, PTL
  <2> QED BY <2>1
<1>2. updates' = Snapshot' /\ overtaken' = FALSE /\ refused' = FALSE BY DEF Notify
<1>3. /\ Newest'.paused = ctl'.paused /\ Newest'.running = Running' /\ Newest'.state = ctl'.state
      /\ Newest'.bytes = ctl'.bytes /\ Newest'.active = ctl'.active
  BY <1>1, <1>2 DEF Newest, Snapshot
<1>4. ctl'.bytes \in Nat BY Constants DEF ControllerTyped, ControllerType
<1>5. NewestTold' BY <1>3, <1>4 DEF NewestTold, Counting
<1>6. ViewCounted(updates)' BY <1>2, <1>4 DEF ViewCounted, Snapshot, Counting
<1> QED BY <1>1, <1>2, <1>5, <1>6 DEF DueIsTried

\* The controller keeps its types, and counts bytes upwards for the active attempt.
Recorded ==
  /\ ControllerTyped' /\ Attempting' /\ Counting' /\ ctl'.paused = ctl.paused
  /\ \A a \in Attempts : reported[a] <= reported'[a]

\* The steps that count nothing and leave nothing active.
LEMMA Uncounted ==
  ASSUME ControllerTyped, Attempting, Counting,
         NEW at \in {"off", "next", "returned", "wait", "cleaning"}, NEW state \in States,
         NEW bytes \in {0, ctl.bytes, ctl.size}, refused' \in BOOLEAN,
         reported' = reported, ui' = ui, ui.at # "saving",
         ctl' = [ctl EXCEPT !.at = at, !.state = state, !.bytes = bytes, !.active = NoAttempt]
  PROVE  Recorded
<1> USE DEF ControllerTyped, ControllerType, States
<1>1. /\ ctl'.size = ctl.size /\ ctl'.at = at /\ ctl'.state = state /\ ctl'.bytes = bytes
      /\ ctl'.attempt = ctl.attempt /\ ctl'.active = NoAttempt /\ ctl'.paused = ctl.paused
  OBVIOUS
<1>2. ctl.size \in Nat BY Constants
<1>3. bytes \in Nat /\ bytes <= ctl.size BY <1>2
<1>4. ControllerTyped' BY <1>1, <1>3
<1>5. Attempting' BY <1>1 DEF Attempting
<1>6. Counting' BY <1>1 DEF Counting
<1>7. \A a \in Attempts : reported[a] <= reported'[a] OBVIOUS
<1> QED BY <1>1, <1>4, <1>5, <1>6, <1>7 DEF Recorded

LEMMA ControllerKeeps ==
  ASSUME ControllerTyped, Attempting, Counting, ui' = ui, Controller \/ QueueAnother
  PROVE  Recorded
<1>0. ctl.size \in Nat BY Constants DEF ControllerTyped, ControllerType
<1>1. CASE BeginAttempt
  <2>1. /\ ctl' = [ctl EXCEPT !.at = "upload", !.state = "uploading", !.bytes = 0,
                              !.attempt = ctl.attempt + 1, !.active = ctl.attempt + 1]
        /\ reported' = reported /\ refused' = FALSE /\ ctl.attempt < MaxAttempts[ctl.size]
        /\ ctl.at \in {"next", "wait"}
    BY <1>1 DEF BeginAttempt, Published, Notify, ControllerTyped, ControllerType
  <2>2. ctl.attempt + 1 \in Attempts /\ ctl.attempt \in Nat
    BY <2>1, Constants DEF ControllerTyped, ControllerType
  <2>3. /\ ctl'.size = ctl.size /\ ctl'.at = "upload" /\ ctl'.state = "uploading" /\ ctl'.bytes = 0
        /\ ctl'.attempt = ctl.attempt + 1 /\ ctl'.active = ctl.attempt + 1 /\ ctl'.paused = ctl.paused
    BY <2>1 DEF ControllerTyped, ControllerType
  <2>4. ControllerTyped'
    <3>1. ctl' \in ControllerType BY <2>1, <2>2 DEF ControllerTyped, ControllerType, States
    <3>2. ctl'.bytes <= ctl'.size BY <1>0, <2>3
    <3> QED BY <2>1, <3>1, <3>2 DEF ControllerTyped
  <2>5. Attempting' BY <2>1, <2>3 DEF Attempting
  <2>6. Counting' BY <2>1, <2>2, <2>3, Constants DEF Counting
  <2>7. \A a \in Attempts : reported[a] <= reported'[a]
    BY <2>1 DEF ControllerTyped, ControllerType
  <2> QED BY <2>3, <2>4, <2>5, <2>6, <2>7 DEF Recorded
<1>2. CASE PrepareSend
  <2>1. /\ ctl' = [ctl EXCEPT !.state = "sending", !.bytes = ctl.size]
        /\ reported' = [reported EXCEPT ![ctl.active] = ctl.size] /\ refused' = FALSE
        /\ ctl.at = "upload" /\ ctl.active # NoAttempt
    BY <1>2 DEF PrepareSend, Published, Notify, Counted
  <2>2. /\ ctl'.size = ctl.size /\ ctl'.at = "upload" /\ ctl'.state = "sending" /\ ctl'.bytes = ctl.size
        /\ ctl'.attempt = ctl.attempt /\ ctl'.active = ctl.active /\ ctl'.paused = ctl.paused
    BY <2>1 DEF ControllerTyped, ControllerType
  <2>3. ctl.active \in Attempts /\ ctl.active = ctl.attempt /\ reported \in [Attempts -> Nat]
        /\ reported[ctl.active] <= ctl.size
    BY <2>1 DEF ControllerTyped, ControllerType, Attempting, Counting
  <2>4. reported' \in [Attempts -> Nat] BY <1>0, <2>1, <2>3
  <2>5. ControllerTyped'
    <3>1. ctl' \in ControllerType BY <1>0, <2>1 DEF ControllerTyped, ControllerType, States
    <3>2. ctl'.bytes <= ctl'.size BY <1>0, <2>2
    <3> QED BY <2>1, <2>4, <3>1, <3>2 DEF ControllerTyped
  <2>6. Attempting' BY <2>1, <2>2 DEF Attempting
  <2>7. Counting' BY <1>0, <2>1, <2>2, <2>3, Constants DEF Counting
  <2>8. \A a \in Attempts : reported[a] <= reported'[a] BY <1>0, <2>1, <2>3
  <2> QED BY <2>2, <2>5, <2>6, <2>7, <2>8 DEF Recorded
<1>3. CASE CountBytes
  <2>1. PICK b \in (ctl.bytes + 1)..ctl.size :
          /\ ctl' = [ctl EXCEPT !.bytes = b] /\ reported' = [reported EXCEPT ![ctl.active] = b]
    BY <1>3 DEF CountBytes, Counted
  <2>2. refused' = refused /\ ctl.active # NoAttempt BY <1>3 DEF CountBytes
  <2>3. /\ ctl'.size = ctl.size /\ ctl'.at = ctl.at /\ ctl'.state = ctl.state /\ ctl'.bytes = b
        /\ ctl'.attempt = ctl.attempt /\ ctl'.active = ctl.active /\ ctl'.paused = ctl.paused
    BY <2>1 DEF ControllerTyped, ControllerType
  <2>4. b \in Nat /\ ctl.bytes <= b /\ b <= ctl.size
    BY <1>0, <2>1 DEF ControllerTyped, ControllerType
  <2>5. ctl.active \in Attempts /\ ctl.active = ctl.attempt /\ reported \in [Attempts -> Nat]
        /\ reported[ctl.active] <= b
    BY <2>2, <2>4 DEF ControllerTyped, ControllerType, Attempting, Counting
  <2>6. reported' \in [Attempts -> Nat] BY <2>1, <2>4, <2>5
  <2>7. ControllerTyped' BY <2>1, <2>2, <2>3, <2>4, <2>6 DEF ControllerTyped, ControllerType
  <2>8. Attempting' BY <2>3 DEF Attempting
  <2>9. Counting' BY <2>1, <2>3, <2>4, <2>5, Constants DEF Counting
  <2>10. \A a \in Attempts : reported[a] <= reported'[a] BY <2>1, <2>4, <2>5
  <2> QED BY <2>3, <2>7, <2>8, <2>9, <2>10 DEF Recorded
<1> USE DEF ControllerTyped, ControllerType, States, Attempting, Published, Silent, Notify
<1>4. CASE AttemptReturns
  <2>1. ctl' = [ctl EXCEPT !.at = "returned", !.state = ctl.state, !.bytes = ctl.bytes, !.active = NoAttempt]
    BY <1>4 DEF AttemptReturns
  <2> QED BY <1>4, <2>1, Uncounted DEF AttemptReturns
<1>5. CASE WaitForRetry
  <2>1. ctl' = [ctl EXCEPT !.at = "wait", !.state = ctl.state, !.bytes = 0, !.active = NoAttempt]
    BY <1>5 DEF WaitForRetry
  <2> QED BY <1>5, <2>1, Uncounted DEF WaitForRetry
<1>6. CASE Interrupted
  <2>1. ctl' = [ctl EXCEPT !.at = "next", !.state = "queued", !.bytes = ctl.bytes, !.active = NoAttempt]
    BY <1>6 DEF Interrupted
  <2> QED BY <1>6, <2>1, Uncounted DEF Interrupted
<1>7. CASE JobEnds
  <2>1. PICK bytes \in {ctl.bytes, ctl.size} :
          ctl' = [ctl EXCEPT !.at = "next", !.state = "done", !.bytes = bytes, !.active = NoAttempt]
    BY <1>7 DEF JobEnds
  <2> QED BY <1>7, <2>1, Uncounted DEF JobEnds
<1>8. CASE EndRun
  <2>1. ctl' = [ctl EXCEPT !.at = "cleaning", !.state = ctl.state, !.bytes = ctl.bytes, !.active = NoAttempt]
    BY <1>8 DEF EndRun
  <2> QED BY <1>8, <2>1, Uncounted DEF EndRun
<1>9. CASE CleanUp
  <2>1. ctl' = [ctl EXCEPT !.at = "off", !.state = ctl.state, !.bytes = ctl.bytes, !.active = NoAttempt]
    BY <1>9 DEF CleanUp
  <2> QED BY <1>9, <2>1, Uncounted DEF CleanUp
<1>10. CASE QueueAnother
  <2>0. ctl.state = "done" /\ ctl.at # "upload" /\ ctl.active = NoAttempt
        /\ ctl' = [ctl EXCEPT !.state = "queued", !.bytes = 0]
        /\ reported' = reported /\ refused' = FALSE
    BY <1>10 DEF QueueAnother
  <2>1. /\ ctl'.size = ctl.size /\ ctl'.at = ctl.at /\ ctl'.state = "queued" /\ ctl'.bytes = 0
        /\ ctl'.attempt = ctl.attempt /\ ctl'.active = NoAttempt /\ ctl'.paused = ctl.paused
    BY <2>0
  <2>2. ControllerTyped'
    <3>1. ctl' \in ControllerType BY <2>0
    <3>2. ctl'.bytes <= ctl'.size BY <1>0, <2>1
    <3> QED BY <2>0, <3>1, <3>2
  <2>3. Attempting' BY <2>0, <2>1
  <2>4. Counting' /\ \A a \in Attempts : reported[a] <= reported'[a] BY <2>0, <2>1 DEF Counting
  <2> QED BY <2>1, <2>2, <2>3, <2>4 DEF Recorded
<1> QED BY <1>1, <1>2, <1>3, <1>4, <1>5, <1>6, <1>7, <1>8, <1>9, <1>10 DEF Controller

-----------------------------------------------------------------------------
(* The picture and the plan, where a step leaves most of it alone.         *)

LEMMA ViewKept ==
  ASSUME ControllerTyped, ControllerTyped', \A a \in Attempts : reported[a] <= reported'[a],
         NEW v \in Views \cup {None}, ViewCounted(v)
  PROVE  v # None /\ v.active # NoAttempt => v.bytes <= reported'[v.active]
<1> SUFFICES ASSUME v # None, v.active # NoAttempt PROVE v.bytes <= reported'[v.active] OBVIOUS
<1>1. v.active \in Attempts /\ v.bytes \in Bytes BY DEF Views
<1>2. v.bytes \in Nat /\ reported[v.active] \in Nat /\ reported'[v.active] \in Nat
  BY <1>1, Constants DEF ControllerTyped, ControllerType
<1>3. v.bytes <= reported[v.active] BY DEF ViewCounted
<1> QED BY <1>1, <1>2, <1>3

\* Nothing is told, nothing is counted.
LEMMA PictureKept ==
  ASSUME IInv, UNCHANGED <<ctl, reported, updates, progress, pending, shown, overtaken>>,
         ui' = ui \/ (ui'.at \in {"free", "dialog", "start"} /\ ui'.view = None)
  PROVE  Pictured' /\ Running' = Running
<1> USE DEF IInv, Pictured
<1>1. Attempting' BY DEF Attempting
<1>2. Counting' BY DEF Counting
<1>3. NewsCounted' BY DEF NewsCounted, ViewCounted
<1>4. Running' = Running BY DEF Running
<1>5. Newest' = Newest BY DEF Newest
<1>6. NewestTold' BY <1>4, <1>5 DEF NewestTold
<1>7. ReloadKnows' BY DEF ReloadKnows
<1> QED BY <1>1, <1>2, <1>3, <1>4, <1>6, <1>7

\* Neither the plan nor the window changes, and what was on its way still is.
LEMMA PlanUntouched ==
  ASSUME IInv, UNCHANGED <<schedule, shown>>,
         \/ updates' # None
         \/ refused' = refused /\ (Has(queue, "start") => Has(queue, "start")')
            /\ (updates # None => updates' # None \/ pending'.snapshot # None)
            /\ (pending.snapshot # None => pending'.snapshot # None)
  PROVE  Planned'
<1> USE DEF IInv, Planned, schedule, stored, decided
<1>1. PlanKept' BY DEF PlanKept, PlanHeld, PlanStored, Starting
<1>2. TimerRuns' BY DEF TimerRuns
<1>3. StartIsDue' BY DEF StartIsDue, Starting
<1>4. Blocked' = Blocked BY DEF Blocked
<1>5. DueIsTried' BY <1>4 DEF DueIsTried
<1> QED BY <1>1, <1>2, <1>3, <1>5

-----------------------------------------------------------------------------
(* The feed.                                                               *)

LEMMA ControllerStep ==
  ASSUME IInv, Controller \/ QueueAnother, UNCHANGED schedule
  PROVE  IInv'
<1>1. Recorded BY ControllerKeeps DEF IInv, Typed, Pictured, schedule, stored, decided
<1>2. ControllerTyped' /\ Attempting' /\ Counting' BY <1>1 DEF Recorded
<1>3. /\ UNCHANGED <<pending, queue, shown>> /\ UNCHANGED schedule
      /\ \/ Notify /\ progress' = progress
         \/ /\ UNCHANGED <<updates, overtaken, refused>>
            /\ progress' = progress \/ (CountBytes /\ progress' = [attempt |-> ctl'.active, bytes |-> ctl'.bytes])
  <2>1. CASE CountBytes
    <3>1. PICK b \in (ctl.bytes + 1)..ctl.size :
            ctl' = [ctl EXCEPT !.bytes = b] /\ progress' = [attempt |-> ctl.active, bytes |-> b]
      BY <2>1 DEF CountBytes
    <3>2. ctl'.active = ctl.active /\ ctl'.bytes = b
      BY <3>1 DEF IInv, Typed, ControllerTyped, ControllerType
    <3> QED BY <2>1, <3>1, <3>2 DEF CountBytes
  <2>2. CASE Published BY <2>2 DEF Published
  <2>3. CASE Silent BY <2>3 DEF Silent, feed, stored, decided
  <2>4. CountBytes \/ Published \/ Silent
    BY DEF Controller, QueueAnother, BeginAttempt, PrepareSend, AttemptReturns, WaitForRetry,
           Interrupted, JobEnds, EndRun, CleanUp
  <2> QED BY <2>1, <2>2, <2>3, <2>4
<1>4. progress' # progress => ctl'.active # NoAttempt /\ progress' = [attempt |-> ctl'.active, bytes |-> ctl'.bytes]
  <2>1. CASE CountBytes
    <3>1. ctl.active # NoAttempt /\ ctl'.active = ctl.active
      BY <2>1 DEF CountBytes, IInv, Typed, ControllerTyped, ControllerType
    <3> QED BY <1>3, <3>1 DEF CountBytes
  <2> QED BY <1>3, <2>1
<1>5. updates' # updates \/ Notify => Notify BY <1>3
<1>6. Notify => updates' \in Views /\ updates' # None /\ overtaken' = FALSE /\ NewestTold'
                /\ ViewCounted(updates)'
  BY <1>2, Notified
<1>7. Typed'
  <2>1. ChannelsTyped'
    <3>1. updates' \in Views \cup {None} BY <1>3, <1>6 DEF IInv, Typed, ChannelsTyped
    <3>2. progress' \in Counts \cup {None}
      <4>1. CASE progress' = progress BY <4>1 DEF IInv, Typed, ChannelsTyped
      <4>2. CASE progress' # progress
        <5>1. ctl'.active \in Attempts /\ ctl'.bytes \in 0..ctl'.size /\ ctl'.size \in Sizes
          BY <1>2, <1>4, <4>2, Constants DEF ControllerTyped, ControllerType
        <5>2. ctl'.bytes \in Bytes BY <5>1, Constants
        <5> QED BY <1>4, <4>2, <5>1, <5>2 DEF Counts
      <4> QED BY <4>1, <4>2
    <3>3. overtaken' \in BOOLEAN BY <1>3, <1>6 DEF IInv, Typed, ChannelsTyped
    <3> QED BY <1>3, <3>1, <3>2, <3>3 DEF IInv, Typed, ChannelsTyped
  <2> QED BY <1>2, <1>3, <2>1, GroupsKept DEF IInv, Typed, schedule, stored, decided
<1>8. NewsCounted'
  <2> USE DEF IInv, Typed, ChannelsTyped, WindowTyped, Pictured, NewsCounted
  <2>1. \A a \in Attempts : reported[a] <= reported'[a] BY <1>1 DEF Recorded
  <2>2. ViewCounted(updates)'
    <3>1. CASE updates' = updates BY <1>2, <2>1, <3>1, ViewKept DEF ViewCounted
    <3> QED BY <1>5, <1>6, <3>1
  <2>3. ViewCounted(pending.snapshot)' /\ ViewCounted(shown)' /\ ViewCounted(ui.view)'
    <3>1. ViewCounted(pending.snapshot)' BY <1>2, <1>3, <2>1, ViewKept DEF ViewCounted
    <3>2. ViewCounted(shown)' BY <1>2, <1>3, <2>1, ViewKept DEF ViewCounted
    <3>3. ViewCounted(ui.view)' BY <1>2, <1>3, <2>1, ViewKept DEF ViewCounted, schedule, stored, decided
    <3> QED BY <3>1, <3>2, <3>3
  <2>4. ASSUME NEW c \in Counts, c.bytes <= reported[c.attempt] PROVE c.bytes <= reported'[c.attempt]
    <3>1. c.attempt \in Attempts /\ c.bytes \in Bytes BY DEF Counts
    <3>2. c.bytes \in Nat /\ reported[c.attempt] \in Nat /\ reported'[c.attempt] \in Nat
      BY <1>2, <3>1, Constants DEF ControllerTyped, ControllerType
    <3> QED BY <2>1, <2>4, <3>1, <3>2
  <2>5. progress' # None => progress'.bytes <= reported'[progress'.attempt]
    <3>1. CASE progress' = progress BY <2>4, <3>1
    <3>2. CASE progress' # progress
      <4>1. progress'.bytes = ctl'.bytes /\ progress'.attempt = ctl'.active /\ reported'[ctl'.active] = ctl'.bytes
            /\ ctl'.bytes \in Nat
        BY <1>2, <1>4, <3>2 DEF Counting, ControllerTyped, ControllerType
      <4> QED BY <4>1
    <3> QED BY <3>1, <3>2
  <2>6. pending'.progress # None => pending'.progress.bytes <= reported'[pending'.progress.attempt]
    BY <1>3, <2>4
  <2> QED BY <2>2, <2>3, <2>5, <2>6
<1>9. NewestTold'
  <2>1. CASE Notify BY <1>6, <2>1
  <2>2. CASE ~Notify
    <3>1. /\ UNCHANGED <<updates, pending, shown, overtaken>> /\ ctl'.paused = ctl.paused
          /\ CountBytes \/ AttemptReturns \/ CleanUp
      BY <1>1, <1>3, <2>2 DEF Recorded, Controller, QueueAnother, BeginAttempt, PrepareSend,
         WaitForRetry, 
           Interrupted, JobEnds, EndRun, Published
    <3>2. Newest' = Newest /\ Newest \in Views
      BY <3>1 DEF Newest, IInv, Typed, ChannelsTyped
    <3>3. /\ ctl'.state = ctl.state /\ ctl'.at \in {ctl.at, "returned", "off"}
          /\ ctl.at # ctl'.at => (ctl.at = "upload" /\ ctl'.at = "returned") \/ (ctl.at = "cleaning" /\ ctl'.at = "off")
          /\ ctl.bytes <= ctl'.bytes /\ ctl.bytes \in Nat /\ ctl'.bytes \in Nat
          /\ \A a \in Attempts : reported'[a] # reported[a] => reported'[a] = ctl'.bytes
      <4>1. CASE CountBytes
        <5>0. ctl.bytes \in Nat /\ ctl.size \in Nat
          BY Constants DEF IInv, Typed, ControllerTyped, ControllerType
        <5>1. PICK b \in (ctl.bytes + 1)..ctl.size :
                ctl' = [ctl EXCEPT !.bytes = b] /\ reported' = [reported EXCEPT ![ctl.active] = b]
          BY <4>1 DEF CountBytes, Counted
        <5>2. ctl'.state = ctl.state /\ ctl'.at = ctl.at /\ ctl'.bytes = b
          BY <5>1 DEF IInv, Typed, ControllerTyped, ControllerType
        <5>3. \A a \in Attempts : reported'[a] # reported[a] => reported'[a] = b
          BY <5>1 DEF IInv, Typed, ControllerTyped, ControllerType
        <5> QED BY <5>0, <5>1, <5>2, <5>3
      <4>2. CASE AttemptReturns
        BY <4>2 DEF AttemptReturns, IInv, Typed, ControllerTyped, ControllerType
      <4>3. CASE CleanUp BY <4>3 DEF CleanUp, IInv, Typed, ControllerTyped, ControllerType
      <4> QED BY <3>1, <4>1, <4>2, <4>3
    <3>4. Running' = Running BY <3>3 DEF Running
    <3>5. Newest.active # NoAttempt => Newest.active \in Attempts BY <3>2 DEF Views
    <3>6. Newest.bytes \in Nat BY <3>2, Constants DEF Views
    <3>7. \A a \in Attempts : reported[a] \in Nat /\ reported'[a] \in Nat
      BY <1>2 DEF IInv, Typed, ControllerTyped, ControllerType
    <3> QED BY <3>1, <3>2, <3>3, <3>4, <3>5, <3>6, <3>7 DEF IInv, Pictured, NewestTold
  <2> QED BY <2>1, <2>2
<1>10. Planned' BY <1>3, <1>6, PlanUntouched DEF Has
<1>11. ReloadKnows' BY <1>1, <1>3 DEF Recorded, IInv, Pictured, ReloadKnows, schedule, stored, decided
<1> QED BY <1>2, <1>7, <1>8, <1>9, <1>10, <1>11 DEF IInv, Pictured

\* What the observer takes from a channel is in its slot, and its callback is queued.
LEMMA EnqueueKeeps ==
  ASSUME Typed, NEW kind \in {"snapshot", "progress"}, NEW value, value # None, Enqueue(kind, value),
         value \in (IF kind = "snapshot" THEN Views ELSE Counts)
  PROVE  /\ pending' \in [snapshot : Views \cup {None}, progress : Counts \cup {None}]
         /\ pending'[kind] = value
         /\ \A k \in {"snapshot", "progress"} \ {kind} : pending'[k] = pending[k]
         /\ QueueTyped' /\ Slots'
         /\ \A k : Has(queue, k) => Has(queue', k)
         /\ \A k : k # kind => (Has(queue', k) <=> Has(queue, k))
<1> USE DEF Typed, ChannelsTyped, QueueTyped
<1>1. /\ pending' \in [snapshot : Views \cup {None}, progress : Counts \cup {None}]
      /\ pending'[kind] = value
      /\ \A k \in {"snapshot", "progress"} \ {kind} : pending'[k] = pending[k]
  BY DEF Enqueue
<1>2. /\ queue' \in Seq(Kinds) /\ Has(queue', kind) /\ Once(queue', kind)
      /\ \A k : Has(queue, k) => Has(queue', k)
      /\ \A k : k # kind => (Has(queue', k) <=> Has(queue, k))
      /\ \A k : k # kind /\ Once(queue, k) => Once(queue', k)
  <2>1. Posted(kind, pending[kind])
    BY DEF Slots
  <2>2. CASE pending[kind] = None
    <3>1. queue' = Append(queue, kind) BY <2>2 DEF Enqueue, Post
    <3>2. ~Has(queue, kind) /\ kind \in Kinds BY <2>1, <2>2 DEF Posted, Kinds
    <3> QED BY <3>1, <3>2, Appends
  <2>3. CASE pending[kind] # None
    <3>1. queue' = queue BY <2>3 DEF Enqueue
    <3> QED BY <2>1, <2>3, <3>1 DEF Posted
  <2> QED BY <2>2, <2>3
<1>3. Slots' BY <1>1, <1>2 DEF Slots, Posted
<1> QED BY <1>1, <1>2, <1>3

LEMMA ObserveStep ==
  ASSUME IInv, Observe, UNCHANGED schedule
  PROVE  IInv'
<1>1. UNCHANGED <<ctl, shown, reported, overtaken, refused>> BY DEF Observe
<1>2. PICK kind \in {"snapshot", "progress"} :
        /\ kind = "snapshot" => updates # None /\ Enqueue("snapshot", updates) /\ updates' = None
                                /\ progress' = progress
        /\ kind = "progress" => progress # None /\ Enqueue("progress", progress) /\ progress' = None
                                /\ updates' = updates
  BY DEF Observe
<1>3. /\ pending' \in [snapshot : Views \cup {None}, progress : Counts \cup {None}]
      /\ pending'.snapshot = IF kind = "snapshot" THEN updates ELSE pending.snapshot
      /\ pending'.progress = IF kind = "progress" THEN progress ELSE pending.progress
      /\ QueueTyped' /\ Slots'
      /\ Has(queue, "start") => Has(queue', "start")
  <2>1. CASE kind = "snapshot"
    BY <1>2, <2>1, EnqueueKeeps DEF IInv, Typed, ChannelsTyped
  <2>2. CASE kind = "progress"
    BY <1>2, <2>2, EnqueueKeeps DEF IInv, Typed, ChannelsTyped
  <2> QED BY <2>1, <2>2
<1>4. Typed'
  <2>1. ChannelsTyped' BY <1>1, <1>2, <1>3 DEF IInv, Typed, ChannelsTyped
  <2> QED BY <1>1, <1>3, <2>1, GroupsKept DEF IInv, Typed, schedule, stored, decided
<1>5. Newest' = Newest
  BY <1>1, <1>2, <1>3 DEF Newest
<1>6. Running' = Running BY <1>1 DEF Running
<1>7. NewestTold' BY <1>1, <1>5, <1>6 DEF IInv, Pictured, NewestTold
<1>8. NewsCounted'
  BY <1>1, <1>2, <1>3 DEF IInv, Pictured, NewsCounted, ViewCounted, schedule, stored, decided
<1>9. Attempting' /\ Counting' /\ ReloadKnows'
  BY <1>1 DEF IInv, Pictured, Attempting, Counting, ReloadKnows, schedule, stored, decided
<1>10. Planned'
  <2>1. updates # None => updates' # None \/ pending'.snapshot # None BY <1>2, <1>3
  <2>2. pending.snapshot # None => pending'.snapshot # None BY <1>2, <1>3
  <2> QED BY <1>1, <1>3, <2>1, <2>2, PlanUntouched DEF Has
<1> QED BY <1>4, <1>7, <1>8, <1>9, <1>10 DEF IInv, Pictured

\* A callback has run and emptied its slot.
LEMMA CallbackRuns ==
  ASSUME Typed, NEW kind \in {"snapshot", "progress"}, NextIs(kind),
         pending' = [pending EXCEPT ![kind] = None], queue' = Tail(queue)
  PROVE  /\ pending[kind] # None /\ pending'[kind] = None
         /\ \A k \in {"snapshot", "progress"} \ {kind} : pending'[k] = pending[k]
         /\ pending' \in [snapshot : Views \cup {None}, progress : Counts \cup {None}]
         /\ QueueTyped' /\ Slots'
         /\ \A k : k # kind => (Has(queue', k) <=> Has(queue, k))
<1> USE DEF Typed, ChannelsTyped, QueueTyped
<1>1. queue # <<>> /\ Head(queue) = kind BY DEF NextIs
<1>2. Posted(kind, pending[kind]) BY DEF Slots
<1>3. /\ queue' \in Seq(Kinds) /\ Has(queue, kind) /\ ~Has(queue', kind)
      /\ \A k : k # kind => (Has(queue', k) <=> Has(queue, k))
      /\ \A k : Once(queue, k) => Once(queue', k)
  BY <1>1, <1>2, Leaves DEF Posted
<1>4. /\ pending' \in [snapshot : Views \cup {None}, progress : Counts \cup {None}]
      /\ pending'[kind] = None
      /\ \A k \in {"snapshot", "progress"} \ {kind} : pending'[k] = pending[k]
  OBVIOUS
<1>5. Slots' BY <1>2, <1>3, <1>4 DEF Slots, Posted
<1> QED BY <1>2, <1>3, <1>4, <1>5 DEF Posted

LEMMA ProgressStep ==
  ASSUME IInv, Free, RunProgress, UNCHANGED schedule
  PROVE  IInv'
<1> DEFINE p == pending.progress
<1>1. UNCHANGED <<ctl, updates, progress, reported, overtaken, refused>> BY DEF RunProgress
<1>2. /\ p # None /\ pending'.progress = None /\ pending'.snapshot = pending.snapshot
      /\ pending' \in [snapshot : Views \cup {None}, progress : Counts \cup {None}]
      /\ QueueTyped' /\ Slots'
      /\ Has(queue, "start") => Has(queue', "start")
  <2>1. NextIs("progress") /\ pending' = [pending EXCEPT !["progress"] = None] /\ queue' = Tail(queue)
    BY DEF RunProgress
  <2> QED BY <2>1, CallbackRuns DEF IInv
<1>3. /\ shown \in Views /\ p \in Counts
      /\ p.bytes <= reported[p.attempt] /\ p.attempt \in Attempts /\ p.bytes \in Bytes /\ p.attempt # NoAttempt
  BY <1>2, Constants DEF IInv, Typed, ChannelsTyped, Pictured, NewsCounted, Counts
<1>4. shown' = shown \/ (p.attempt = shown.active /\ shown' = [shown EXCEPT !.bytes = p.bytes])
  BY DEF RunProgress, ShowProgress
<1>5. /\ shown' \in Views
      /\ shown'.running = shown.running /\ shown'.paused = shown.paused /\ shown'.state = shown.state
      /\ shown'.active = shown.active
      /\ shown'.bytes = shown.bytes \/ (p.attempt = shown.active /\ shown'.bytes = p.bytes)
  BY <1>3, <1>4 DEF Views
<1>6. Typed'
  <2>1. ChannelsTyped' BY <1>1, <1>2, <1>5 DEF IInv, Typed, ChannelsTyped
  <2> QED BY <1>1, <1>2, <2>1, GroupsKept DEF IInv, Typed, schedule, stored, decided
<1>7. Running' = Running BY <1>1 DEF Running
<1>8. ViewCounted(shown)'
  <2>1. CASE shown'.bytes = shown.bytes
    BY <1>1, <1>5, <2>1, Constants DEF ViewCounted, IInv, Pictured, NewsCounted, Typed,
       ChannelsTyped
  <2>2. CASE p.attempt = shown.active /\ shown'.bytes = p.bytes
    BY <1>1, <1>3, <1>5, <2>2 DEF ViewCounted
  <2> QED BY <1>5, <2>1, <2>2
<1>9. NewsCounted'
  BY <1>1, <1>2, <1>8 DEF IInv, Pictured, NewsCounted, ViewCounted, schedule, stored, decided
<1>10. NewestTold'
  <2>1. CASE updates # None \/ pending.snapshot # None
    <3>1. Newest' = Newest BY <1>1, <1>2, <2>1 DEF Newest
    <3> QED BY <1>1, <1>7, <3>1 DEF IInv, Pictured, NewestTold
  <2>2. CASE updates = None /\ pending.snapshot = None
    <3>1. Newest = shown /\ Newest' = shown' BY <1>1, <1>2, <2>2 DEF Newest
    <3>2. ~overtaken => shown'.bytes <= ctl.bytes
      <4>1. SUFFICES ASSUME ~overtaken, shown'.bytes # shown.bytes PROVE shown'.bytes <= ctl.bytes
        BY <1>5, <3>1 DEF IInv, Pictured, NewestTold
      <4>2. reported[p.attempt] <= ctl.bytes /\ shown'.bytes = p.bytes
        BY <1>3, <1>5, <3>1, <4>1 DEF IInv, Pictured, NewestTold
      <4>3. p.bytes \in Nat /\ reported[p.attempt] \in Nat /\ ctl.bytes \in Nat
        BY <1>3, Constants DEF IInv, Typed, ControllerTyped, ControllerType
      <4> QED BY <1>3, <4>2, <4>3
    <3> QED BY <1>1, <1>5, <1>7, <3>1, <3>2 DEF IInv, Pictured, NewestTold
  <2> QED BY <2>1, <2>2
<1>11. Attempting' /\ Counting' /\ ReloadKnows'
  BY <1>1 DEF IInv, Pictured, Attempting, Counting, ReloadKnows, schedule, stored, decided
<1>12. Planned'
  <2>1. PlanKept' /\ TimerRuns'
    BY DEF IInv, Planned, PlanKept, PlanHeld, PlanStored, Starting, TimerRuns, schedule, stored, decided
  <2>2. StartIsDue' BY DEF StartIsDue, Starting, Free, schedule, stored, decided
  <2>3. Blocked' = Blocked BY <1>5 DEF Blocked, schedule, stored, decided
  <2>4. DueIsTried' BY <1>1, <1>2, <2>3 DEF IInv, Planned, DueIsTried, Has, schedule, stored, decided
  <2> QED BY <2>1, <2>2, <2>4 DEF Planned
<1> QED BY <1>6, <1>9, <1>10, <1>11, <1>12 DEF IInv, Pictured

-----------------------------------------------------------------------------
(* The clock, the coordinator and the user's plan.                         *)

LEMMA TimeStep ==
  ASSUME IInv, Tick \/ TimerFires \/ Fire
  PROVE  IInv'
<1>1. UNCHANGED <<ctl, updates, progress, pending, shown, overtaken, reported, refused,
                  settings, saved, ui, link, breaks, plan, unsaved, astray>>
  BY DEF Tick, TimerFires, Fire, feed, stored, decided
<1>2. Pictured' BY <1>1, PictureKept
<1>3. Blocked' = Blocked BY <1>1 DEF Blocked
<1>4. CASE Tick
  <2>1. clock \in 0..MaxTime /\ clock' = clock + 1 /\ clock < MaxTime /\ sched' = sched /\ queue' = queue
    BY <1>4 DEF Tick, feed, IInv, Typed, PlanTyped, PlanType
  <2>2. clock' \in 0..MaxTime /\ clock <= clock' /\ MaxTime \in Nat BY <2>1, Constants
  <2>3. PlanTyped' BY <1>1, <2>1, <2>2 DEF IInv, Typed, PlanTyped, PlanType
  <2>4. Typed' BY <1>1, <2>1, <2>3, GroupsKept DEF IInv, Typed
  <2>5. PlanKept' BY <1>1, <2>1 DEF IInv, Planned, PlanKept, PlanHeld, PlanStored, Starting
  <2>6. sched.at \in Nat /\ ui.plan \in Nat
    BY Constants DEF IInv, Typed, PlanTyped, PlanType, WindowTyped
  <2>7. TimerRuns' BY <1>1, <2>1, <2>2, <2>6 DEF IInv, Planned, TimerRuns
  <2>8. StartIsDue' BY <1>1, <2>1, <2>2, <2>6 DEF IInv, Planned, StartIsDue, Starting
  <2>9. DueIsTried' BY <1>1, <1>3, <2>1 DEF IInv, Planned, DueIsTried
  <2> QED BY <1>2, <2>4, <2>5, <2>7, <2>8, <2>9 DEF IInv, Planned
<1>5. CASE TimerFires
  <2>1. /\ clock' = clock /\ queue' = queue /\ sched' = [sched EXCEPT !.timer = "fired"]
        /\ sched.timer = "armed" /\ sched.at <= clock
    BY <1>5 DEF TimerFires, feed, stored, decided
  <2>2. sched'.at = sched.at /\ sched'.due = sched.due /\ sched'.timer = "fired"
    BY <2>1 DEF IInv, Typed, PlanTyped, PlanType
  <2>3. PlanTyped' BY <1>1, <2>1 DEF IInv, Typed, PlanTyped, PlanType
  <2>4. Typed' BY <1>1, <2>1, <2>3, GroupsKept DEF IInv, Typed
  <2>5. PlanKept' BY <1>1, <2>2 DEF IInv, Planned, PlanKept, PlanHeld, PlanStored, Starting
  <2>6. TimerRuns' BY <1>1, <2>1, <2>2 DEF IInv, Planned, TimerRuns
  <2>7. StartIsDue' BY <1>1, <2>1 DEF IInv, Planned, StartIsDue, Starting
  <2>8. DueIsTried' BY <1>1, <1>3, <2>1, <2>2 DEF IInv, Planned, DueIsTried
  <2> QED BY <1>2, <2>4, <2>5, <2>6, <2>7, <2>8 DEF IInv, Planned
<1>6. CASE Fire
  <2>0. clock' = clock BY <1>6 DEF Fire
  <2>1. CASE /\ sched.timer = "fired" /\ sched.at # NoPlan /\ ~sched.due
             /\ sched' = [sched EXCEPT !.due = TRUE, !.timer = "none"]
             /\ Post("start")
    <3>1. sched'.at = sched.at /\ sched'.due /\ sched'.timer = "none"
      BY <2>1 DEF IInv, Typed, PlanTyped, PlanType
    <3>2. /\ queue' \in Seq(Kinds) /\ Has(queue', "start")
          /\ \A k \in {"snapshot", "progress"} :
               (Has(queue', k) <=> Has(queue, k)) /\ (Once(queue, k) => Once(queue', k))
      BY <2>1, Appends DEF Post, IInv, Typed, QueueTyped, Kinds
    <3>3. PlanTyped' BY <1>1, <2>0, <2>1 DEF IInv, Typed, PlanTyped, PlanType
    <3>4. QueueTyped' /\ Slots' BY <1>1, <3>2 DEF IInv, Typed, QueueTyped, Slots, Posted
    <3>5. Typed' BY <1>1, <3>3, <3>4, GroupsKept DEF IInv, Typed
    <3>6. PlanKept' BY <1>1, <3>1 DEF IInv, Planned, PlanKept, PlanHeld, PlanStored, Starting
    <3>7. TimerRuns' BY <1>1, <2>0, <2>1, <3>1 DEF IInv, Planned, TimerRuns
    <3>8. StartIsDue' BY <1>1, <2>0 DEF IInv, Planned, StartIsDue, Starting
    <3>9. DueIsTried' BY <3>2 DEF DueIsTried, Has
    <3> QED BY <1>2, <3>5, <3>6, <3>7, <3>8, <3>9 DEF IInv, Planned
  <2>2. CASE sched.late /\ sched' = [sched EXCEPT !.late = FALSE] /\ queue' = queue
    <3>1. sched'.at = sched.at /\ sched'.due = sched.due /\ sched'.timer = sched.timer
      BY <2>2 DEF IInv, Typed, PlanTyped, PlanType
    <3>2. PlanTyped' BY <1>1, <2>0, <2>2 DEF IInv, Typed, PlanTyped, PlanType
    <3>3. Typed' BY <1>1, <2>2, <3>2, GroupsKept DEF IInv, Typed
    <3>4. PlanKept' BY <1>1, <3>1 DEF IInv, Planned, PlanKept, PlanHeld, PlanStored, Starting
    <3>5. TimerRuns' BY <1>1, <2>0, <3>1 DEF IInv, Planned, TimerRuns
    <3>6. StartIsDue' BY <1>1, <2>0 DEF IInv, Planned, StartIsDue, Starting
    <3>7. DueIsTried' BY <1>1, <1>3, <2>2, <3>1 DEF IInv, Planned, DueIsTried
    <3> QED BY <1>2, <3>3, <3>4, <3>5, <3>6, <3>7 DEF IInv, Planned
  <2> QED BY <1>6, <2>1, <2>2 DEF Fire
<1> QED BY <1>4, <1>5, <1>6

\* Saving any other setting, or not, writes the plan in memory to the file.
LEMMA SaveOtherStep ==
  ASSUME IInv, SaveOther
  PROVE  IInv'
<1>1. /\ UNCHANGED <<ctl, updates, progress, pending, queue, shown, overtaken, reported, refused>>
      /\ UNCHANGED <<clock, sched, settings, ui, link, breaks, plan, astray>>
      /\ saved' \in {saved, settings}
      /\ unsaved' = (unsaved /\ ~(settings = sched.at /\ saved' = sched.at))
  BY DEF SaveOther, feed, decided
<1>2. PlanTyped' BY <1>1 DEF IInv, Typed, PlanTyped, PlanType
<1>3. Typed' BY <1>1, <1>2, GroupsKept DEF IInv, Typed
<1>4. Pictured' BY <1>1, PictureKept
<1>5. PlanHeld' BY <1>1 DEF IInv, Planned, PlanKept, PlanHeld, Starting
<1>6. PlanStored' BY <1>1 DEF IInv, Planned, PlanKept, PlanStored
<1>7. TimerRuns' BY <1>1 DEF IInv, Planned, TimerRuns
<1>8. StartIsDue' BY <1>1 DEF IInv, Planned, StartIsDue, Starting
<1>9. Blocked' = Blocked BY <1>1 DEF Blocked
<1>10. DueIsTried' BY <1>1, <1>9 DEF IInv, Planned, DueIsTried
<1> QED BY <1>3, <1>4, <1>5, <1>6, <1>7, <1>8, <1>10 DEF IInv, Planned, PlanKept

LEMMA DialogStep ==
  ASSUME IInv, OpenDialog \/ LeaveDialog
  PROVE  IInv'
<1>1. /\ UNCHANGED <<ctl, updates, progress, pending, queue, shown, overtaken, reported, refused>>
      /\ UNCHANGED <<clock, sched, settings, saved, link, breaks, plan, unsaved, astray>>
      /\ ui.at \in {"free", "dialog"}
      /\ ui' = [Idle EXCEPT !.at = "dialog"] \/ ui' = Idle
  BY DEF OpenDialog, LeaveDialog, Free, feed, stored, decided
<1>2. WindowTyped' /\ ui'.at \in {"free", "dialog"} /\ ui'.view = None
  <2>1. NoPlan \in 0..MaxTime BY Constants
  <2>2. PICK at \in {"free", "dialog"} :
          ui' = [at |-> at, scheduled |-> FALSE, due |-> FALSE, plan |-> NoPlan, paused |-> FALSE, view |-> None]
    BY <1>1 DEF Idle
  <2> QED BY <2>1, <2>2 DEF WindowTyped
<1>3. Typed' BY <1>1, <1>2, GroupsKept DEF IInv, Typed
<1>4. Pictured' BY <1>1, <1>2, PictureKept
<1>5. PlanKept' BY <1>1, <1>2 DEF IInv, Planned, PlanKept, PlanHeld, PlanStored, Starting
<1>6. TimerRuns' BY <1>1 DEF IInv, Planned, TimerRuns
<1>7. StartIsDue' BY <1>2 DEF StartIsDue, Starting
<1>8. Blocked' = Blocked BY <1>1 DEF Blocked
<1>9. DueIsTried' BY <1>1, <1>8 DEF IInv, Planned, DueIsTried
<1> QED BY <1>3, <1>4, <1>5, <1>6, <1>7, <1>9 DEF IInv, Planned

\* stopTimerLocked leaves no armed timer; the function of an older one is late.
LEMMA CoordinatorTyped ==
  ASSUME PlanTyped, NEW at \in 0..MaxTime, NEW due \in BOOLEAN, NEW timer \in {"none", "armed", "fired"},
         sched' = [at |-> at, due |-> due, late |-> Late, timer |-> timer]
  PROVE  /\ sched' \in PlanType
         /\ sched'.at = at /\ sched'.due = due /\ sched'.timer = timer
<1>1. Late \in BOOLEAN BY DEF Late, PlanTyped, PlanType
<1> QED BY <1>1 DEF PlanType

\* The user decides; when that cannot be saved only the file may know.
LEMMA PlanStep ==
  ASSUME IInv, PlanStart \/ PlanNotSaved \/ CancelPlan
  PROVE  IInv'
<1>1. /\ UNCHANGED <<ctl, updates, progress, pending, queue, shown, overtaken, reported, refused>>
      /\ UNCHANGED <<clock, link, breaks>>
  BY DEF PlanStart, PlanNotSaved, CancelPlan, feed
<1>2. ui.at \in {"free", "dialog"} /\ (ui' = ui \/ ui' = Idle)
  BY DEF PlanStart, PlanNotSaved, CancelPlan, Free
<1>3. WindowTyped' /\ ui'.at \in {"free", "dialog"} /\ (ui' = ui \/ ui'.view = None)
  <2>1. CASE ui' = ui BY <1>2, <2>1 DEF WindowTyped, IInv, Typed
  <2>2. CASE ui' = Idle BY <2>2, Constants DEF WindowTyped, Idle
  <2> QED BY <1>2, <2>1, <2>2
<1>4. Pictured' BY <1>1, <1>3, PictureKept
<1>5. StartIsDue' BY <1>3 DEF StartIsDue, Starting
<1>6. CASE \E at \in 0..MaxTime, timer \in {"none", "armed"} :
             /\ Store(at) /\ plan' = at /\ astray' = FALSE
             /\ (at # NoPlan <=> timer = "armed") /\ (at # NoPlan => at > clock)
             /\ sched' = [at |-> at, due |-> FALSE, late |-> Late, timer |-> timer]
  <2>1. PICK at \in 0..MaxTime, timer \in {"none", "armed"} :
          /\ settings' = at /\ saved' = at /\ unsaved' = FALSE /\ plan' = at /\ astray' = FALSE
          /\ (at # NoPlan <=> timer = "armed") /\ (at # NoPlan => at > clock)
          /\ sched' = [at |-> at, due |-> FALSE, late |-> Late, timer |-> timer]
    BY <1>6 DEF Store
  <2>2. sched' \in PlanType /\ sched'.at = at /\ ~sched'.due /\ sched'.timer = timer
    BY <2>1, CoordinatorTyped DEF IInv, Typed
  <2>3. PlanTyped' BY <1>1, <2>1, <2>2 DEF IInv, Typed, PlanTyped, PlanType
  <2>4. Typed' BY <1>1, <1>3, <2>3, GroupsKept DEF IInv, Typed
  <2>5. PlanKept' BY <1>3, <2>1, <2>2 DEF PlanKept, PlanHeld, PlanStored, Starting
  <2>6. TimerRuns' BY <2>1, <2>2 DEF TimerRuns
  <2>7. DueIsTried' BY <2>2 DEF DueIsTried
  <2> QED BY <1>4, <1>5, <2>4, <2>5, <2>6, <2>7 DEF IInv, Planned
<1>7. CASE (\E at \in 0..MaxTime : StoreFails(at)) /\ UNCHANGED <<sched, ui, plan, astray>>
  <2>1. settings' = settings /\ saved' \in 0..MaxTime /\ unsaved' = TRUE
    BY <1>7 DEF StoreFails, IInv, Typed, PlanTyped
  <2>2. PlanTyped' BY <1>1, <1>7, <2>1 DEF IInv, Typed, PlanTyped, PlanType
  <2>3. Typed' BY <1>1, <1>3, <2>2, GroupsKept DEF IInv, Typed
  <2>4. PlanKept' BY <1>7, <2>1 DEF IInv, Planned, PlanKept, PlanHeld, PlanStored, Starting
  <2>5. TimerRuns' BY <1>1, <1>7 DEF IInv, Planned, TimerRuns
  <2>6. Blocked' = Blocked BY <1>1 DEF Blocked
  <2>7. DueIsTried' BY <1>1, <1>7, <2>6 DEF IInv, Planned, DueIsTried
  <2> QED BY <1>4, <1>5, <2>3, <2>4, <2>5, <2>7 DEF IInv, Planned
<1>8. NoPlan \in 0..MaxTime /\ clock \in Nat /\ MaxTime \in Nat
  BY Constants DEF IInv, Typed, PlanTyped
<1>9. CASE CancelPlan
  <2>1. CASE Store(NoPlan) /\ sched' = Cancelled /\ plan' = NoPlan /\ astray' = FALSE
    <3>1. sched' = [at |-> NoPlan, due |-> FALSE, late |-> Late, timer |-> "none"]
      BY <2>1 DEF Cancelled, NotSet
    <3> QED BY <1>6, <1>8, <2>1, <3>1
  <2>2. CASE StoreFails(NoPlan) /\ UNCHANGED <<sched, decided>>
    BY <1>7, <1>8, <1>9, <2>2 DEF CancelPlan, decided
  <2> QED BY <1>9, <2>1, <2>2 DEF CancelPlan
<1>10. CASE PlanNotSaved
  <2>1. PICK at \in Times : StoreFails(at) BY <1>10 DEF PlanNotSaved
  <2>2. at \in 0..MaxTime BY <1>8 DEF Times
  <2> QED BY <1>7, <1>10, <2>1, <2>2 DEF PlanNotSaved, decided
<1>11. CASE PlanStart
  <2>1. PICK at \in Times : at > clock /\ Store(at) /\ plan' = at /\ Set(at) BY <1>11 DEF PlanStart
  <2>2. at \in 0..MaxTime /\ at # NoPlan /\ at \in Nat BY <1>8, Constants DEF Times
  <2>3. (at <= clock) = FALSE BY <1>8, <2>1, <2>2
  <2>4. sched' = [at |-> at, due |-> FALSE, late |-> Late, timer |-> "armed"]
    <3>1. sched' = [at |-> at, due |-> at <= clock, late |-> Late,
                    timer |-> IF at <= clock THEN "none" ELSE "armed"]
      BY <2>1 DEF Set
    <3> QED BY ONLY <2>3, <3>1
  <2>5. astray' = FALSE BY <1>11 DEF PlanStart
  <2> QED BY <1>6, <2>1, <2>2, <2>4, <2>5
<1> QED BY <1>9, <1>10, <1>11

-----------------------------------------------------------------------------
(* Starting.                                                               *)

\* beginUploads takes the plan into the window, or is refused.
LEMMA BeginKeeps ==
  ASSUME IInv, Free, NEW scheduled \in BOOLEAN, Begin(scheduled),
         scheduled => sched.at # NoPlan /\ sched.due /\ ~shown.paused,
         UNCHANGED <<clock, breaks, link, plan, astray, shown>>
  PROVE  /\ PlanTyped' /\ WindowTyped' /\ refused' \in BOOLEAN
         /\ ui' = ui \/ (ui'.at = "start" /\ ui'.view = None)
         /\ PlanKept' /\ TimerRuns' /\ StartIsDue'
         /\ sched'.due => refused'
<1>0. PlanKept /\ TimerRuns /\ PlanTyped /\ WindowTyped /\ ControllerTyped
  BY DEF IInv, Typed, Planned
<1>1. CASE StoreFails(NoPlan) /\ refused' = TRUE /\ UNCHANGED <<ui, sched>>
  <2>0. saved' \in {saved, NoPlan} /\ unsaved' = TRUE /\ settings' = settings /\ NoPlan \in 0..MaxTime
    BY <1>1, Constants DEF StoreFails
  <2>1. PlanTyped' /\ WindowTyped' BY <1>0, <1>1, <2>0 DEF PlanTyped, PlanType, WindowTyped
  <2>2. PlanKept' BY <1>0, <1>1, <2>0 DEF PlanKept, PlanHeld, PlanStored, Starting
  <2>3. TimerRuns' BY <1>0, <1>1 DEF TimerRuns
  <2>4. StartIsDue' BY <1>1 DEF StartIsDue, Starting, Free
  <2> QED BY <1>1, <2>1, <2>2, <2>3, <2>4
<1>2. CASE /\ ui' = [Idle EXCEPT !.at = "start", !.scheduled = scheduled, !.due = sched.due,
                                 !.plan = sched.at]
           /\ IF sched.at # NoPlan THEN Store(NoPlan) /\ sched' = Cancelled
              ELSE UNCHANGED <<stored, sched>>
           /\ UNCHANGED refused
  <2>1. /\ ui' = [at |-> "start", scheduled |-> scheduled, due |-> sched.due, plan |-> sched.at,
                  paused |-> FALSE, view |-> None]
    BY <1>2 DEF Idle
  <2>2. sched.due \in BOOLEAN /\ sched.at \in 0..MaxTime BY <1>0 DEF PlanTyped, PlanType
  <2>3. WindowTyped' /\ ui'.at = "start" /\ ui'.view = None /\ ui'.plan = sched.at
        /\ (ui'.due => sched.due) /\ (ui'.scheduled => scheduled)
    BY <2>1, <2>2 DEF WindowTyped
  <2>4. /\ sched' \in PlanType
        /\ sched'.at = NoPlan /\ ~sched'.due
    <3>1. CASE sched.at # NoPlan
      <4>1. sched' = [at |-> NoPlan, due |-> FALSE, late |-> Late, timer |-> "none"]
        BY <1>2, <3>1 DEF Cancelled, NotSet
      <4>2. NoPlan \in 0..MaxTime BY Constants
      <4> QED BY <1>0, <4>1, <4>2, CoordinatorTyped
    <3>2. CASE sched.at = NoPlan
      BY <1>0, <1>2, <3>2 DEF PlanTyped, PlanType, TimerRuns
    <3> QED BY <3>1, <3>2
  <2>5. sched.at = plan \/ astray BY <1>0 DEF PlanKept, PlanHeld, Starting, Free
  <2>6. /\ settings' \in 0..MaxTime /\ saved' \in 0..MaxTime /\ unsaved' \in BOOLEAN
        /\ (settings' = NoPlan /\ saved' = NoPlan) \/ unsaved'
    <3>1. CASE sched.at # NoPlan
      <4>1. settings' = NoPlan /\ saved' = NoPlan /\ unsaved' = FALSE BY <1>2, <3>1 DEF Store
      <4>2. NoPlan \in 0..MaxTime BY Constants
      <4> QED BY <4>1, <4>2
    <3>2. CASE sched.at = NoPlan
      <4>1. settings' = settings /\ saved' = saved /\ unsaved' = unsaved
        BY <1>2, <3>2 DEF stored
      <4>2. settings \in 0..MaxTime /\ saved \in 0..MaxTime /\ unsaved \in BOOLEAN
        BY <1>0 DEF PlanTyped
      <4>3. (settings = NoPlan /\ saved = NoPlan) \/ unsaved
        BY <1>0, <3>2 DEF PlanKept, PlanStored
      <4> QED BY <4>1, <4>2, <4>3
    <3> QED BY <3>1, <3>2
  <2>7. PlanTyped' BY <1>0, <2>4, <2>6 DEF PlanTyped, PlanType
  <2>8. PlanKept' BY <2>3, <2>4, <2>5, <2>6 DEF PlanKept, PlanHeld, PlanStored, Starting
  <2>9. TimerRuns'
    <3>1. sched'.timer # "fired" \/ sched' = sched BY <1>2 DEF Cancelled, NotSet
    <3>2. NoPlan <= clock BY <1>0, Constants DEF PlanTyped, PlanType
    <3> QED BY <2>4, <3>2 DEF TimerRuns
  <2>10. StartIsDue' BY <1>0, <2>3 DEF StartIsDue, Starting, TimerRuns
  <2>11. refused' \in BOOLEAN BY <1>0, <1>2 DEF ControllerTyped, ControllerType
  <2> QED BY <2>3, <2>4, <2>7, <2>8, <2>9, <2>10, <2>11
<1> QED BY <1>1, <1>2 DEF Begin

LEMMA PressStep ==
  ASSUME IInv, StartPressed
  PROVE  IInv'
<1>1. /\ Free /\ Begin(FALSE)
      /\ UNCHANGED <<ctl, updates, progress, pending, queue, shown, overtaken, reported>>
      /\ UNCHANGED <<clock, link, breaks, plan, astray>>
  BY DEF StartPressed, feed, stored, decided
<1>2. /\ PlanTyped' /\ WindowTyped' /\ refused' \in BOOLEAN
      /\ ui' = ui \/ (ui'.at = "start" /\ ui'.view = None)
      /\ PlanKept' /\ TimerRuns' /\ StartIsDue'
      /\ sched'.due => refused'
  BY <1>1, BeginKeeps
<1>3. ControllerTyped' BY <1>1, <1>2 DEF IInv, Typed, ControllerTyped, ControllerType
<1>4. Typed' BY <1>1, <1>2, <1>3, GroupsKept DEF IInv, Typed
<1>5. Pictured' BY <1>1, <1>2, PictureKept
<1>6. DueIsTried' BY <1>2 DEF DueIsTried
<1> QED BY <1>2, <1>4, <1>5, <1>6 DEF IInv, Planned

LEMMA RunStartStep ==
  ASSUME IInv, RunStart
  PROVE  IInv'
<1>1. /\ Free /\ NextIs("start") /\ queue' = Tail(queue)
      /\ UNCHANGED <<ctl, updates, progress, pending, shown, overtaken, reported>>
      /\ UNCHANGED <<clock, link, breaks, plan, astray>>
  BY DEF RunStart, stored, decided
<1>2. QueueTyped' /\ Slots'
  <2>1. queue # <<>> /\ Head(queue) = "start" BY <1>1 DEF NextIs
  <2>2. /\ queue' \in Seq(Kinds)
        /\ \A k \in {"snapshot", "progress"} :
             (Has(queue', k) <=> Has(queue, k)) /\ (Once(queue, k) => Once(queue', k))
    BY <1>1, <2>1, Leaves DEF IInv, Typed, QueueTyped
  <2> QED BY <1>1, <2>2 DEF IInv, Typed, QueueTyped, Slots, Posted
<1>3. /\ PlanTyped' /\ WindowTyped' /\ refused' \in BOOLEAN
      /\ ui' = ui \/ (ui'.at = "start" /\ ui'.view = None)
      /\ PlanKept' /\ TimerRuns' /\ StartIsDue' /\ DueIsTried'
  <2>1. CASE MayStart
    <3>1. Begin(TRUE) BY <2>1 DEF RunStart
    <3>2. sched.at # NoPlan /\ sched.due /\ ~shown.paused BY <2>1 DEF MayStart
    <3> QED BY <1>1, <3>1, <3>2, BeginKeeps DEF DueIsTried
  <2>2. CASE ~MayStart
    <3>1. UNCHANGED <<ui, settings, saved, unsaved, sched, refused>> BY <2>2 DEF RunStart, stored
    <3>2. PlanTyped' /\ WindowTyped' /\ refused' \in BOOLEAN
      BY <1>1, <3>1, GroupsKept DEF IInv, Typed, ControllerTyped, ControllerType
    <3>3. PlanKept' BY <1>1, <3>1 DEF IInv, Planned, PlanKept, PlanHeld, PlanStored, Starting
    <3>4. TimerRuns' BY <1>1, <3>1 DEF IInv, Planned, TimerRuns
    <3>5. StartIsDue' BY <1>1, <3>1 DEF StartIsDue, Starting, Free
    <3>6. sched.due => Blocked BY <2>2 DEF MayStart, Blocked, connected, IInv, Planned, TimerRuns
    <3>7. DueIsTried' BY <1>1, <3>1, <3>6 DEF DueIsTried, Blocked
    <3> QED BY <3>1, <3>2, <3>3, <3>4, <3>5, <3>7
  <2> QED BY <2>1, <2>2
<1>4. ControllerTyped' BY <1>1, <1>3 DEF IInv, Typed, ControllerTyped, ControllerType
<1>5. Typed' BY <1>1, <1>2, <1>3, <1>4, GroupsKept DEF IInv, Typed
<1>6. Pictured' BY <1>1, <1>3, PictureKept
<1> QED BY <1>3, <1>5, <1>6 DEF IInv, Planned

LEMMA TakeStep ==
  ASSUME IInv, TakeQueue
  PROVE  IInv'
<1>1. /\ ui.at = "start" /\ ctl.at = "off" /\ ctl' = [ctl EXCEPT !.at = "saving", !.paused = FALSE]
      /\ Notify /\ UNCHANGED <<progress, pending, queue, shown, reported>>
      /\ ui' = [ui EXCEPT !.at = "saving", !.paused = ctl.paused]
      /\ UNCHANGED <<clock, sched, settings, saved, link, breaks, plan, unsaved, astray>>
  BY DEF TakeQueue, Published, stored, decided
<1>2. /\ ctl'.size = ctl.size /\ ctl'.at = "saving" /\ ~ctl'.paused /\ ctl'.state = ctl.state
      /\ ctl'.attempt = ctl.attempt /\ ctl'.active = ctl.active /\ ctl'.bytes = ctl.bytes
      /\ ctl.active = NoAttempt
  BY <1>1 DEF IInv, Typed, ControllerTyped, ControllerType, Pictured, Attempting
<1>3. ControllerTyped' BY <1>1, <1>2 DEF Notify, IInv, Typed, ControllerTyped, ControllerType
<1>4. ctl.paused \in BOOLEAN BY DEF IInv, Typed, ControllerTyped, ControllerType
<1>5. /\ WindowTyped' /\ ui'.at = "saving" /\ ui'.plan = ui.plan /\ ui'.view = ui.view
      /\ (ui'.scheduled => ui.scheduled) /\ (ui'.due => ui.due)
  BY <1>1, <1>4 DEF IInv, Typed, WindowTyped
<1>6. Attempting' BY <1>2 DEF Attempting
<1>7. Counting' BY <1>1, <1>2 DEF IInv, Pictured, Counting
<1>8. /\ updates' \in Views /\ updates' # None /\ overtaken' = FALSE
      /\ NewestTold' /\ ViewCounted(updates)' /\ DueIsTried'
  BY <1>1, <1>3, <1>7, Notified
<1>9. ChannelsTyped' BY <1>1, <1>8 DEF IInv, Typed, ChannelsTyped
<1>10. Typed' BY <1>1, <1>3, <1>5, <1>9, GroupsKept DEF IInv, Typed
<1>11. NewsCounted' BY <1>1, <1>5, <1>8 DEF IInv, Pictured, NewsCounted, ViewCounted
<1>12. ReloadKnows' BY <1>5 DEF ReloadKnows
<1>13. PlanKept' BY <1>1, <1>5 DEF IInv, Planned, PlanKept, PlanHeld, PlanStored, Starting
<1>14. TimerRuns' BY <1>1 DEF IInv, Planned, TimerRuns
<1>15. StartIsDue' BY <1>1, <1>5 DEF IInv, Planned, StartIsDue, Starting
<1> QED BY <1>6, <1>7, <1>8, <1>10, <1>11, <1>12, <1>13, <1>14, <1>15 DEF IInv, Pictured,
    Planned

LEMMA StartedStep ==
  ASSUME IInv, Started
  PROVE  IInv'
<1>1. /\ ui.at = "saving" /\ ctl' = [ctl EXCEPT !.at = "next"] /\ ui' = Idle
      /\ IF ui.plan # NoPlan THEN plan' = NoPlan /\ astray' = FALSE ELSE UNCHANGED <<plan, astray>>
      /\ UNCHANGED <<updates, progress, pending, queue, shown, overtaken, refused, reported>>
      /\ UNCHANGED <<clock, sched, settings, saved, link, breaks, unsaved>>
  BY DEF Started, Silent, feed, stored, decided
<1>2. /\ ctl'.size = ctl.size /\ ctl'.at = "next" /\ ctl'.paused = ctl.paused /\ ctl'.state = ctl.state
      /\ ctl'.attempt = ctl.attempt /\ ctl'.active = ctl.active /\ ctl'.bytes = ctl.bytes
      /\ ctl.active = NoAttempt /\ ctl.at = "saving"
  BY <1>1 DEF IInv, Typed, ControllerTyped, ControllerType, Pictured, Attempting
<1>3. ControllerTyped' BY <1>1, <1>2 DEF IInv, Typed, ControllerTyped, ControllerType
<1>4. WindowTyped' /\ ui'.at = "free" /\ ui'.view = None
  BY <1>1, Constants DEF WindowTyped, Idle
<1>5. (ui.plan = plan \/ astray) /\ sched.at = NoPlan /\ ~sched.due /\ PlanStored
  BY <1>1 DEF IInv, Planned, PlanKept, PlanHeld, PlanStored, TimerRuns, Starting
<1>6. (plan' = NoPlan \/ astray') /\ plan' \in 0..MaxTime /\ astray' \in BOOLEAN
  <2>0. plan \in 0..MaxTime /\ astray \in BOOLEAN /\ NoPlan \in 0..MaxTime
    BY Constants DEF IInv, Typed, PlanTyped
  <2>1. CASE ui.plan # NoPlan
    <3>1. plan' = NoPlan /\ astray' = FALSE BY <1>1, <2>1
    <3> QED BY <2>0, <3>1
  <2>2. CASE ui.plan = NoPlan
    <3>1. plan' = plan /\ astray' = astray BY <1>1, <2>2
    <3> QED BY <1>5, <2>0, <2>2, <3>1
  <2> QED BY <2>1, <2>2
<1>7. PlanTyped' BY <1>1, <1>6 DEF IInv, Typed, PlanTyped, PlanType
<1>8. Typed' BY <1>1, <1>3, <1>4, <1>7, GroupsKept DEF IInv, Typed
<1>9. Attempting' BY <1>2, <1>4 DEF Attempting
<1>10. Counting' BY <1>1, <1>2 DEF IInv, Pictured, Counting
<1>11. NewsCounted' BY <1>1, <1>4 DEF IInv, Pictured, NewsCounted, ViewCounted
<1>12. NewestTold'
  <2>1. Running' = Running BY <1>2 DEF Running
  <2>2. Newest' = Newest BY <1>1 DEF Newest
  <2> QED BY <1>1, <1>2, <2>1, <2>2 DEF IInv, Pictured, NewestTold
<1>13. ReloadKnows' BY <1>4 DEF ReloadKnows
<1>14. PlanKept' BY <1>1, <1>4, <1>5, <1>6 DEF PlanKept, PlanHeld, PlanStored, Starting
<1>15. TimerRuns' BY <1>1 DEF IInv, Planned, TimerRuns
<1>16. StartIsDue' BY <1>4 DEF StartIsDue, Starting
<1>17. DueIsTried' BY <1>1, <1>5 DEF DueIsTried
<1> QED BY <1>8, <1>9, <1>10, <1>11, <1>12, <1>13, <1>14, <1>15, <1>16, <1>17 DEF IInv,
    Pictured, Planned

\* The plan of a start that failed is the coordinator's again.
LEMMA PutBackKeeps ==
  ASSUME IInv, Starting, PlanPutBack, ui' = Idle,
         UNCHANGED <<clock, breaks, link, plan, astray, pending, shown>>
  PROVE  /\ PlanTyped' /\ WindowTyped' /\ QueueTyped' /\ Slots'
         /\ ui'.at = "free" /\ ui'.view = None
         /\ PlanKept' /\ TimerRuns' /\ StartIsDue'
<1>0. PlanKept /\ TimerRuns /\ StartIsDue /\ PlanTyped /\ WindowTyped /\ QueueTyped /\ Slots
  BY DEF IInv, Typed, Planned
<1>1. WindowTyped' /\ ui'.at = "free" /\ ui'.view = None BY Constants DEF WindowTyped, Idle
<1> DEFINE at == ui.plan
<1>2. (at = plan \/ astray) /\ sched.at = NoPlan /\ ~sched.due /\ at \in 0..MaxTime
  BY <1>0 DEF PlanKept, PlanHeld, TimerRuns, WindowTyped
<1>3. StartIsDue' BY <1>1 DEF StartIsDue, Starting
<1>4. CASE ui.plan = NoPlan
  <2>1. UNCHANGED <<sched, settings, saved, queue, unsaved>> BY <1>4 DEF PlanPutBack, stored
  <2>2. PlanTyped' /\ QueueTyped' /\ Slots' BY <2>1, GroupsKept DEF IInv, Typed, stored, decided
  <2>3. PlanKept' BY <1>0, <1>1, <1>2, <1>4, <2>1 DEF PlanKept, PlanHeld, PlanStored, Starting
  <2>4. TimerRuns' BY <1>0, <2>1 DEF TimerRuns
  <2> QED BY <1>1, <1>3, <2>2, <2>3, <2>4
<1>5. CASE ui.plan # NoPlan
  <2>1. /\ PutBack /\ settings' \in {settings, at} /\ saved' \in {saved, at} /\ unsaved' \in BOOLEAN
        /\ (settings' = at /\ saved' = at) \/ unsaved'
    BY <1>5 DEF PlanPutBack, Store, StoreFails
  <2>2. \/ HoldDue(at) /\ at <= clock /\ queue' = queue
        \/ Set(at) /\ queue' = IF at <= clock THEN Append(queue, "start") ELSE queue
    BY <1>0, <1>2, <2>1 DEF PutBack, StartIsDue
  <2>3. PICK due \in BOOLEAN, timer \in {"none", "armed"} :
          /\ sched' = [at |-> at, due |-> due, late |-> Late, timer |-> timer]
          /\ due => at <= clock
          /\ ~due => timer = "armed"
    <3>1. CASE HoldDue(at) /\ at <= clock BY <3>1 DEF HoldDue
    <3>2. CASE Set(at) /\ at <= clock BY <3>2 DEF Set
    <3>3. CASE Set(at) /\ ~(at <= clock)
      <4>1. sched' = [at |-> at, due |-> at <= clock, late |-> Late,
                      timer |-> IF at <= clock THEN "none" ELSE "armed"]
        BY <3>3 DEF Set
      <4>2. (at <= clock) = FALSE BY <3>3
      <4>3. sched' = [at |-> at, due |-> FALSE, late |-> Late, timer |-> "armed"]
        BY ONLY <4>1, <4>2
      <4> QED BY <3>3, <4>3
    <3> QED BY <2>2, <3>1, <3>2, <3>3
  <2>4. /\ sched' \in PlanType
        /\ sched'.at = at /\ sched'.due = due /\ sched'.timer = timer
    BY <1>0, <1>2, <2>3, CoordinatorTyped
  <2>5. PlanTyped' BY <1>0, <1>2, <2>1, <2>4 DEF PlanTyped, PlanType
  <2>6. PlanKept' BY <1>1, <1>2, <2>1, <2>4 DEF PlanKept, PlanHeld, PlanStored, Starting
  <2>7. TimerRuns' BY <1>2, <1>5, <2>3, <2>4 DEF TimerRuns
  <2>8. QueueTyped' /\ Slots'
    <3>1. CASE queue' = queue BY <3>1, GroupsKept DEF IInv, Typed
    <3>2. CASE queue' = Append(queue, "start")
      <4>1. /\ queue' \in Seq(Kinds)
            /\ \A k \in {"snapshot", "progress"} :
                 (Has(queue', k) <=> Has(queue, k)) /\ (Once(queue, k) => Once(queue', k))
        BY <1>0, <3>2, Appends DEF QueueTyped, Kinds
      <4> QED BY <1>0, <4>1 DEF QueueTyped, Slots, Posted
    <3> QED BY <2>2, <3>1, <3>2
  <2> QED BY <1>1, <1>3, <2>5, <2>6, <2>7, <2>8
<1> QED BY <1>4, <1>5

LEMMA RefusedStep ==
  ASSUME IInv, StartRefused \/ StartDeclined
  PROVE  IInv'
<1>1. /\ ui.at = "start" /\ PlanPutBack /\ refused' = TRUE /\ ui' = Idle
      /\ UNCHANGED <<ctl, updates, progress, pending, shown, overtaken, reported>>
      /\ UNCHANGED <<clock, link, breaks, plan, astray>>
  BY DEF StartRefused, StartDeclined, Refusal, decided
<1>2. /\ PlanTyped' /\ WindowTyped' /\ QueueTyped' /\ Slots'
      /\ ui'.at = "free" /\ ui'.view = None
      /\ PlanKept' /\ TimerRuns' /\ StartIsDue'
  BY <1>1, PutBackKeeps DEF Starting
<1>3. ControllerTyped' BY <1>1 DEF IInv, Typed, ControllerTyped, ControllerType
<1>4. Typed' BY <1>1, <1>2, <1>3, GroupsKept DEF IInv, Typed
<1>5. Pictured' BY <1>1, <1>2, PictureKept
<1>6. DueIsTried' BY <1>1 DEF DueIsTried
<1> QED BY <1>2, <1>4, <1>5, <1>6 DEF IInv, Planned

LEMMA SaveFailsStep ==
  ASSUME IInv, SaveFails
  PROVE  IInv'
<1>1. /\ ui.at = "saving" /\ ctl' = [ctl EXCEPT !.at = "off", !.paused = ui.paused]
      /\ Notify /\ PlanPutBack /\ ui' = Idle
      /\ UNCHANGED <<progress, pending, shown, reported, clock, link, breaks, plan, astray>>
  BY DEF SaveFails, decided
<1>2. /\ ctl'.size = ctl.size /\ ctl'.at = "off" /\ ctl'.state = ctl.state
      /\ ctl'.attempt = ctl.attempt /\ ctl'.active = ctl.active /\ ctl'.bytes = ctl.bytes
      /\ ctl.active = NoAttempt /\ ctl.at = "saving"
  BY <1>1 DEF IInv, Typed, ControllerTyped, ControllerType, Pictured, Attempting
<1>3. ui.paused \in BOOLEAN BY DEF IInv, Typed, WindowTyped
<1>4. ControllerTyped'
  BY <1>1, <1>2, <1>3 DEF Notify, IInv, Typed, ControllerTyped, ControllerType
<1>5. /\ PlanTyped' /\ WindowTyped' /\ QueueTyped' /\ Slots'
      /\ ui'.at = "free" /\ ui'.view = None
      /\ PlanKept' /\ TimerRuns' /\ StartIsDue'
  BY <1>1, PutBackKeeps DEF Starting
<1>6. Attempting' BY <1>2, <1>5 DEF Attempting
<1>7. Counting' BY <1>1, <1>2 DEF IInv, Pictured, Counting
<1>8. /\ updates' \in Views /\ updates' # None /\ overtaken' = FALSE
      /\ NewestTold' /\ ViewCounted(updates)' /\ DueIsTried'
  BY <1>1, <1>4, <1>7, Notified
<1>9. ChannelsTyped' BY <1>1, <1>8 DEF IInv, Typed, ChannelsTyped
<1>10. Typed' BY <1>4, <1>5, <1>9 DEF Typed
<1>11. NewsCounted' BY <1>1, <1>5, <1>8 DEF IInv, Pictured, NewsCounted, ViewCounted
<1>12. ReloadKnows' BY <1>5 DEF ReloadKnows
<1> QED BY <1>5, <1>6, <1>7, <1>8, <1>10, <1>11, <1>12 DEF IInv, Pictured, Planned

-----------------------------------------------------------------------------
(* The rest of the interface thread.                                       *)

LEMMA PauseStep ==
  ASSUME IInv, Pause
  PROVE  IInv'
<1>1. Free /\ UNCHANGED <<progress, pending, queue, shown, reported>> /\ UNCHANGED schedule
  BY DEF Pause
<1>2. CASE UNCHANGED <<ctl, updates, overtaken, refused>>
  <2>1. Typed' BY <1>1, <1>2, GroupsKept DEF IInv, Typed, schedule, stored, decided
  <2>2. Pictured' BY <1>1, <1>2, PictureKept DEF schedule, stored, decided
  <2>3. Planned' BY <1>1, <1>2, PlanUntouched DEF Has
  <2> QED BY <2>1, <2>2, <2>3 DEF IInv
<1>3. CASE ctl' = [ctl EXCEPT !.paused = TRUE] /\ Notify
  <2>1. /\ ctl'.size = ctl.size /\ ctl'.at = ctl.at /\ ctl'.state = ctl.state
        /\ ctl'.attempt = ctl.attempt /\ ctl'.active = ctl.active /\ ctl'.bytes = ctl.bytes
    BY <1>3 DEF IInv, Typed, ControllerTyped, ControllerType
  <2>2. ControllerTyped'
    BY <1>1, <1>3, <2>1 DEF Notify, IInv, Typed, ControllerTyped, ControllerType
  <2>3. Attempting' BY <1>1, <2>1 DEF IInv, Pictured, Attempting, schedule, stored, decided
  <2>4. Counting' BY <1>1, <2>1 DEF IInv, Pictured, Counting
  <2>5. /\ updates' \in Views /\ updates' # None /\ overtaken' = FALSE
        /\ NewestTold' /\ ViewCounted(updates)'
    BY <1>3, <2>2, <2>4, Notified
  <2>6. ChannelsTyped' BY <1>1, <2>5 DEF IInv, Typed, ChannelsTyped
  <2>7. Typed' BY <1>1, <2>2, <2>6, GroupsKept DEF IInv, Typed, schedule, stored, decided
  <2>8. NewsCounted' BY <1>1, <2>5 DEF IInv, Pictured, NewsCounted, ViewCounted, schedule, stored, decided
  <2>9. ReloadKnows' BY <1>1 DEF ReloadKnows, Free, schedule, stored, decided
  <2>10. Planned' BY <1>1, <2>5, PlanUntouched
  <2> QED BY <2>3, <2>4, <2>5, <2>7, <2>8, <2>9, <2>10 DEF IInv, Pictured
<1> QED BY <1>2, <1>3 DEF Pause

\* RetryDue queues the start of a plan that is due, and nothing else.
LEMMA RetriedKeeps ==
  ASSUME IInv, NEW q \in Seq(Kinds)
  PROVE  /\ Retried(q) \in Seq(Kinds)
         /\ \A k \in {"snapshot", "progress"} :
              (Has(Retried(q), k) <=> Has(q, k)) /\ (Once(q, k) => Once(Retried(q), k))
         /\ sched.due => Has(Retried(q), "start")
<1>1. sched.due => sched.at # NoPlan BY DEF IInv, Planned, TimerRuns
<1>2. CASE sched.due
  <2>1. Retried(q) = Append(q, "start") BY <1>1, <1>2 DEF Retried
  <2> QED BY <2>1, Appends DEF Kinds
<1>3. CASE ~sched.due
  <2>1. Retried(q) = q BY <1>3 DEF Retried
  <2> QED BY <1>3, <2>1
<1> QED BY <1>2, <1>3

LEMMA SnapshotStep ==
  ASSUME IInv, RunSnapshot
  PROVE  IInv'
<1>1. /\ Free /\ NextIs("snapshot") /\ shown' = pending.snapshot
      /\ pending' = [pending EXCEPT !.snapshot = None]
      /\ queue' = IF shown'.running THEN Tail(queue) ELSE Retried(Tail(queue))
      /\ UNCHANGED <<ctl, updates, progress, overtaken, reported, refused>> /\ UNCHANGED schedule
  BY DEF RunSnapshot
<1>2. queue # <<>> /\ Head(queue) = "snapshot" BY <1>1 DEF NextIs
<1>3. Posted("snapshot", pending.snapshot) /\ Posted("progress", pending.progress)
  BY DEF IInv, Typed, Slots
<1>4. /\ Tail(queue) \in Seq(Kinds) /\ Has(queue, "snapshot") /\ ~Has(Tail(queue), "snapshot")
      /\ \A k \in {"start", "progress"} : Has(Tail(queue), k) <=> Has(queue, k)
      /\ \A k : Once(queue, k) => Once(Tail(queue), k)
  BY <1>2, <1>3, Leaves DEF IInv, Typed, QueueTyped, Posted
<1>5. /\ queue' \in Seq(Kinds) /\ ~Has(queue', "snapshot")
      /\ Has(queue', "progress") <=> Has(queue, "progress")
      /\ \A k \in {"snapshot", "progress"} : Once(queue, k) => Once(queue', k)
      /\ sched.due => shown'.running \/ Has(queue', "start")
  <2>1. CASE shown'.running BY <1>1, <1>4, <2>1
  <2>2. CASE ~shown'.running
    <3>1. queue' = Retried(Tail(queue)) BY <1>1, <2>2
    <3> QED BY <1>4, <3>1, RetriedKeeps
  <2> QED BY <2>1, <2>2
<1>6. /\ pending.snapshot # None /\ pending.snapshot \in Views
      /\ pending'.snapshot = None /\ pending'.progress = pending.progress
      /\ pending' \in [snapshot : Views \cup {None}, progress : Counts \cup {None}]
  BY <1>1, <1>3, <1>4 DEF IInv, Typed, ChannelsTyped, Posted
<1>7. QueueTyped' /\ Slots' BY <1>3, <1>5, <1>6 DEF QueueTyped, Slots, Posted
<1>8. ChannelsTyped' BY <1>1, <1>6 DEF IInv, Typed, ChannelsTyped
<1>9. Typed' BY <1>1, <1>7, <1>8, GroupsKept DEF IInv, Typed, schedule, stored, decided
<1>10. Attempting' /\ Counting' /\ ReloadKnows'
  BY <1>1 DEF IInv, Pictured, Attempting, Counting, ReloadKnows, schedule, stored, decided
<1>11. NewsCounted'
  BY <1>1, <1>6 DEF IInv, Pictured, NewsCounted, ViewCounted, schedule, stored, decided
<1>12. Newest' = Newest BY <1>1, <1>6 DEF Newest
<1>13. Running' = Running BY <1>1 DEF Running
<1>14. NewestTold' BY <1>1, <1>12, <1>13 DEF IInv, Pictured, NewestTold
<1>15. PlanKept' /\ TimerRuns'
  BY <1>1 DEF IInv, Planned, PlanKept, PlanHeld, PlanStored, Starting, TimerRuns, schedule, stored, decided
<1>16. StartIsDue' BY <1>1 DEF StartIsDue, Starting, Free, schedule, stored, decided
<1>17. DueIsTried' BY <1>1, <1>5 DEF DueIsTried, Blocked, schedule, stored, decided
<1> QED BY <1>9, <1>10, <1>11, <1>14, <1>15, <1>16, <1>17 DEF IInv, Pictured, Planned

LEMMA LoseStep ==
  ASSUME IInv, Lose
  PROVE  IInv'
<1>1. /\ Free /\ breaks < MaxBreaks /\ link' \in {"lost", "none"} /\ breaks' = breaks + 1
      /\ UNCHANGED <<ctl, updates, progress, pending, queue, shown, overtaken, reported, refused>>
      /\ UNCHANGED <<clock, sched, settings, saved, ui, plan, unsaved, astray>>
  BY DEF Lose, feed, stored, decided
<1>2. breaks' \in 0..MaxBreaks
  BY <1>1, ScheduleConstants DEF ScheduleConstants, IInv, Typed, PlanTyped, PlanType
<1>3. PlanTyped' BY <1>1, <1>2 DEF IInv, Typed, PlanTyped, PlanType
<1>4. Typed' BY <1>1, <1>3, GroupsKept DEF IInv, Typed
<1>5. Pictured' BY <1>1, PictureKept
<1>6. PlanKept' /\ TimerRuns' BY <1>1 DEF IInv, Planned, PlanKept, PlanHeld, PlanStored, Starting, TimerRuns
<1>7. StartIsDue' BY <1>1 DEF StartIsDue, Starting, Free
<1>8. DueIsTried' BY <1>1 DEF DueIsTried, Blocked
<1> QED BY <1>4, <1>5, <1>6, <1>7, <1>8 DEF IInv, Planned

LEMMA RegainStep ==
  ASSUME IInv, Regain
  PROVE  IInv'
<1>1. /\ Free /\ link' = "ready" /\ queue' = Retried(queue)
      /\ UNCHANGED <<ctl, updates, progress, pending, shown, overtaken, reported, refused>>
      /\ UNCHANGED <<clock, sched, settings, saved, ui, breaks, plan, unsaved, astray>>
  BY DEF Regain, stored, decided
<1>2. /\ queue' \in Seq(Kinds)
      /\ \A k \in {"snapshot", "progress"} :
           (Has(queue', k) <=> Has(queue, k)) /\ (Once(queue, k) => Once(queue', k))
      /\ sched.due => Has(queue', "start")
  BY <1>1, RetriedKeeps DEF IInv, Typed, QueueTyped
<1>3. QueueTyped' /\ Slots' BY <1>1, <1>2 DEF IInv, Typed, QueueTyped, Slots, Posted
<1>4. PlanTyped' BY <1>1 DEF IInv, Typed, PlanTyped, PlanType
<1>5. Typed' BY <1>1, <1>3, <1>4, GroupsKept DEF IInv, Typed
<1>6. Pictured' BY <1>1, PictureKept
<1>7. PlanKept' /\ TimerRuns'
  BY <1>1 DEF IInv, Planned, PlanKept, PlanHeld, PlanStored, Starting, TimerRuns
<1>8. StartIsDue' BY <1>1 DEF StartIsDue, Starting, Free
<1>9. DueIsTried' BY <1>1, <1>2 DEF DueIsTried
<1> QED BY <1>5, <1>6, <1>7, <1>8, <1>9 DEF IInv, Planned

LEMMA ReloadStep ==
  ASSUME IInv, Reload
  PROVE  IInv'
<1>1. /\ Free /\ link' = "ready" /\ ui' = [Idle EXCEPT !.at = "reload", !.view = Snapshot]
      /\ UNCHANGED <<ctl, updates, progress, pending, queue, shown, overtaken, reported, refused>>
      /\ UNCHANGED <<clock, sched, settings, saved, breaks, plan, unsaved, astray>>
  BY DEF Reload, feed, stored, decided
<1>2. Snapshot \in Views /\ Snapshot # None BY SnapshotTyped DEF IInv, Typed
<1>3. WindowTyped' /\ ui'.at = "reload" /\ ui'.view = Snapshot
  <2>1. ui' = [at |-> "reload", scheduled |-> FALSE, due |-> FALSE, plan |-> NoPlan, paused |-> FALSE,
               view |-> Snapshot]
    BY <1>1 DEF Idle
  <2>2. NoPlan \in 0..MaxTime BY Constants
  <2> HIDE DEF Snapshot
  <2> QED BY <1>2, <2>1, <2>2 DEF WindowTyped
<1>4. PlanTyped' BY <1>1 DEF IInv, Typed, PlanTyped, PlanType
<1>5. Typed' BY <1>1, <1>3, <1>4, GroupsKept DEF IInv, Typed
<1>6. Attempting' /\ Counting' BY <1>1, <1>3 DEF IInv, Pictured, Attempting, Counting
<1>7. Snapshot.paused = ctl.paused /\ Snapshot.active = ctl.active /\ Snapshot.bytes = ctl.bytes
  BY DEF Snapshot
<1>8. ViewCounted(ui.view)'
  <2>1. ctl.bytes \in Nat BY DEF IInv, Typed, ControllerTyped, ControllerType
  <2> QED BY <1>1, <1>3, <1>7, <2>1 DEF ViewCounted, IInv, Pictured, Counting
<1>9. NewsCounted' BY <1>1, <1>8 DEF IInv, Pictured, NewsCounted, ViewCounted
<1>10. NewestTold'
  <2>1. Running' = Running BY <1>1 DEF Running
  <2>2. Newest' = Newest BY <1>1 DEF Newest
  <2> QED BY <1>1, <2>1, <2>2 DEF IInv, Pictured, NewestTold
<1>11. ReloadKnows' BY <1>1, <1>3, <1>7 DEF ReloadKnows
<1>12. PlanKept' /\ TimerRuns'
  BY <1>1, <1>3 DEF IInv, Planned, PlanKept, PlanHeld, PlanStored, Starting, Free, TimerRuns
<1>13. StartIsDue' BY <1>3 DEF StartIsDue, Starting
<1>14. DueIsTried' BY <1>3 DEF DueIsTried
<1> QED BY <1>5, <1>6, <1>9, <1>10, <1>11, <1>12, <1>13, <1>14 DEF IInv, Pictured, Planned

LEMMA ShowReloadStep ==
  ASSUME IInv, ShowReload
  PROVE  IInv'
<1> DEFINE q == IF pending.snapshot = None THEN Append(queue, "snapshot") ELSE queue
<1>1. /\ ui.at = "reload" /\ ui' = Idle
      /\ pending' = [pending EXCEPT !.snapshot = ui.view] /\ queue' = Retried(q)
      /\ overtaken' = (overtaken \/ (ui.view # Snapshot /\ updates = None))
      /\ UNCHANGED <<ctl, updates, progress, shown, reported, refused>>
      /\ UNCHANGED <<clock, sched, settings, saved, link, breaks, plan, unsaved, astray>>
  BY DEF ShowReload, stored, decided
<1>2. ui.view \in Views /\ ui.view # None BY <1>1 DEF IInv, Typed, WindowTyped
<1>3. /\ pending'.snapshot = ui.view /\ pending'.progress = pending.progress
      /\ pending' \in [snapshot : Views \cup {None}, progress : Counts \cup {None}]
  BY <1>1, <1>2 DEF IInv, Typed, ChannelsTyped
<1>4. /\ q \in Seq(Kinds) /\ Has(q, "snapshot") /\ Once(q, "snapshot")
      /\ Has(q, "progress") <=> Has(queue, "progress")
      /\ Once(queue, "progress") => Once(q, "progress")
  <2>1. Posted("snapshot", pending.snapshot) /\ queue \in Seq(Kinds)
    BY DEF IInv, Typed, Slots, QueueTyped
  <2>2. CASE pending.snapshot = None
    <3>1. q = Append(queue, "snapshot") /\ ~Has(queue, "snapshot") /\ "snapshot" \in Kinds
      BY <2>1, <2>2 DEF Posted, Kinds
    <3> HIDE DEF q
    <3> QED BY <2>1, <3>1, Appends
  <2>3. CASE pending.snapshot # None BY <2>1, <2>3 DEF Posted
  <2> QED BY <2>2, <2>3
<1> HIDE DEF q
<1>5. /\ queue' \in Seq(Kinds) /\ Has(queue', "snapshot") /\ Once(queue', "snapshot")
      /\ Has(queue', "progress") <=> Has(queue, "progress")
      /\ Once(queue, "progress") => Once(queue', "progress")
      /\ sched.due => Has(queue', "start")
  BY <1>1, <1>4, RetriedKeeps
<1>6. QueueTyped' /\ Slots'
  BY <1>2, <1>3, <1>5 DEF IInv, Typed, QueueTyped, Slots, Posted
<1>7. overtaken' \in BOOLEAN BY <1>1
<1>8. ChannelsTyped' BY <1>1, <1>3, <1>7 DEF IInv, Typed, ChannelsTyped
<1>9. WindowTyped' /\ ui'.at = "free" /\ ui'.view = None
  BY <1>1, Constants DEF WindowTyped, Idle
<1>10. Typed' BY <1>1, <1>6, <1>8, <1>9, GroupsKept DEF IInv, Typed
<1>11. Attempting' /\ Counting' BY <1>1, <1>9 DEF IInv, Pictured, Attempting, Counting
<1>12. NewsCounted' BY <1>1, <1>3, <1>9 DEF IInv, Pictured, NewsCounted, ViewCounted
<1>13. NewestTold'
  <2>1. Running' = Running BY <1>1 DEF Running
  <2>2. CASE updates # None
    <3>1. Newest' = Newest BY <1>1, <2>2 DEF Newest
    <3>2. overtaken' = overtaken BY <1>1, <2>2 DEF IInv, Typed, ChannelsTyped
    <3> QED BY <1>1, <2>1, <3>1, <3>2 DEF IInv, Pictured, NewestTold
  <2>3. CASE updates = None
    <3>1. Newest' = ui.view BY <1>1, <1>2, <1>3, <2>3 DEF Newest
    <3>2. Newest'.paused = ctl'.paused BY <1>1, <3>1 DEF IInv, Pictured, ReloadKnows
    <3>3. CASE ~overtaken'
      <4>1. ui.view = Snapshot BY <1>1, <2>3, <3>3
      <4>2. /\ ui.view.running = Running /\ ui.view.state = ctl.state /\ ui.view.bytes = ctl.bytes
            /\ ui.view.active = ctl.active
        BY <4>1 DEF Snapshot
      <4>3. ctl.bytes \in Nat BY DEF IInv, Typed, ControllerTyped, ControllerType
      <4> QED BY <1>1, <2>1, <3>1, <3>2, <4>2, <4>3 DEF NewestTold, IInv, Pictured, Counting
    <3>4. CASE overtaken' BY <3>2, <3>4 DEF NewestTold
    <3> QED BY <3>3, <3>4
  <2> QED BY <2>2, <2>3
<1>14. ReloadKnows' BY <1>9 DEF ReloadKnows
<1>15. PlanKept' /\ TimerRuns' BY <1>1, <1>9 DEF IInv, Planned, PlanKept, PlanHeld, PlanStored, Starting, TimerRuns
<1>16. StartIsDue' BY <1>9 DEF StartIsDue, Starting
<1>17. DueIsTried' BY <1>1, <1>5 DEF DueIsTried
<1> QED BY <1>10, <1>11, <1>12, <1>13, <1>14, <1>15, <1>16, <1>17 DEF IInv, Pictured, Planned

LEMMA RestartStep ==
  ASSUME IInv, Restart
  PROVE  IInv'
<1>1. PICK state \in States :
        ctl' = [ctl EXCEPT !.at = "off", !.active = NoAttempt, !.state = state]
  <2>1. ctl.state \in States BY DEF IInv, Typed, ControllerTyped, ControllerType
  <2> QED BY <2>1 DEF Restart, States
<1>2. /\ updates' = None /\ progress' = None /\ pending' = [snapshot |-> None, progress |-> None]
      /\ shown' = Snapshot' /\ overtaken' = FALSE /\ refused' = FALSE /\ unsaved' = FALSE
      /\ ui' = Idle /\ link' = "none" /\ reported' = reported /\ clock' = clock
      /\ saved' = saved /\ settings' = saved /\ plan' = plan
      /\ breaks < MaxBreaks /\ breaks' = breaks + 1
      /\ astray' = ((astray \/ unsaved \/ Starting) /\ saved # plan)
      /\ queue' = IF saved # NoPlan /\ saved <= clock THEN <<"start">> ELSE <<>>
  BY DEF Restart
<1>3. /\ ctl'.size = ctl.size /\ ctl'.at = "off" /\ ctl'.paused = ctl.paused /\ ctl'.state = state
      /\ ctl'.attempt = ctl.attempt /\ ctl'.active = NoAttempt /\ ctl'.bytes = ctl.bytes
  BY <1>1 DEF IInv, Typed, ControllerTyped, ControllerType
<1>4. ControllerTyped'
  BY <1>1, <1>2, <1>3 DEF IInv, Typed, ControllerTyped, ControllerType, States
<1>5. Snapshot' \in Views /\ Snapshot' # None
  <2>1. ControllerTyped' => (Snapshot \in Views /\ Snapshot # None)' BY SnapshotTyped, PTL
  <2> QED BY <1>4, <2>1
<1>6. ChannelsTyped' BY <1>2, <1>5 DEF ChannelsTyped
<1>7. QueueTyped' /\ Slots' /\ (queue' # <<>> => Has(queue', "start"))
  <2>1. CASE queue' = <<>>
    <3>1. queue' \in Seq(Kinds) BY <2>1
    <3>2. \A k : ~Has(queue', k) /\ Once(queue', k) BY <2>1 DEF Has, Once
    <3> QED BY <1>2, <2>1, <3>1, <3>2 DEF QueueTyped, Slots, Posted
  <2>2. CASE queue' = <<"start">>
    <3>1. queue' \in Seq(Kinds) /\ Len(queue') = 1 /\ queue'[1] = "start" BY <2>2 DEF Kinds
    <3>2. \A k \in {"snapshot", "progress"} : ~Has(queue', k) /\ Once(queue', k)
      BY <3>1 DEF Has, Once
    <3>3. Has(queue', "start") BY <3>1 DEF Has
    <3> QED BY <1>2, <3>1, <3>2, <3>3 DEF QueueTyped, Slots, Posted
  <2> QED BY <1>2, <2>1, <2>2
<1>8. WindowTyped' /\ ui'.at = "free" /\ ui'.view = None
  BY <1>2, Constants DEF WindowTyped, Idle
<1>9. /\ sched' \in PlanType
      /\ sched'.at = saved /\ (sched'.due => saved # NoPlan /\ saved <= clock)
      /\ sched'.timer # "fired" /\ (saved # NoPlan /\ ~sched'.due => sched'.timer = "armed")
  <2>1. saved \in 0..MaxTime /\ NoPlan \in 0..MaxTime
    BY Constants DEF IInv, Typed, PlanTyped, PlanType
  <2>2. CASE saved = NoPlan
    <3>1. sched' = [at |-> NoPlan, due |-> FALSE, timer |-> "none", late |-> FALSE]
      BY <2>2 DEF Restart, NotSet
    <3> QED BY <2>1, <2>2, <3>1 DEF PlanType
  <2>3. CASE saved # NoPlan /\ saved <= clock
    <3>1. sched' = [at |-> saved, due |-> TRUE, timer |-> "none", late |-> FALSE]
      BY <2>3 DEF Restart
    <3> QED BY <2>1, <2>3, <3>1 DEF PlanType
  <2>4. CASE saved # NoPlan /\ ~(saved <= clock)
    <3>1. sched' = [at |-> saved, due |-> FALSE, timer |-> "armed", late |-> FALSE]
      <4>1. sched' = [at |-> saved, due |-> saved <= clock, late |-> FALSE,
                      timer |-> IF saved <= clock THEN "none" ELSE "armed"]
        BY <2>4 DEF Restart
      <4>2. (saved <= clock) = FALSE BY <2>4
      <4> QED BY ONLY <4>1, <4>2
    <3> QED BY <2>1, <2>4, <3>1 DEF PlanType
  <2> QED BY <2>2, <2>3, <2>4
<1>10. PlanTyped'
  <2>1. breaks' \in 0..MaxBreaks
    BY <1>2, ScheduleConstants DEF ScheduleConstants, IInv, Typed, PlanTyped, PlanType
  <2> QED BY <1>2, <1>9, <2>1 DEF IInv, Typed, PlanTyped, PlanType
<1>11. Typed' BY <1>4, <1>6, <1>7, <1>8, <1>10 DEF Typed
<1>12. Attempting' BY <1>3, <1>8 DEF Attempting
<1>13. Counting' BY <1>2, <1>3 DEF IInv, Pictured, Counting
<1>14. /\ shown'.running = Running' /\ shown'.paused = ctl'.paused /\ shown'.state = ctl'.state
       /\ shown'.active = NoAttempt /\ shown'.bytes = ctl'.bytes
  BY <1>2, <1>3 DEF Snapshot
<1>15. NewsCounted'
  <2>1. ViewCounted(shown)' BY <1>14 DEF ViewCounted
  <2> QED BY <1>2, <1>8, <2>1 DEF NewsCounted, ViewCounted
<1>16. NewestTold'
  <2>1. Newest' = shown' BY <1>2 DEF Newest
  <2>2. ctl'.bytes \in Nat BY <1>4 DEF ControllerTyped, ControllerType
  <2> QED BY <1>14, <2>1, <2>2 DEF NewestTold
<1>17. ReloadKnows' BY <1>8 DEF ReloadKnows
<1>18. PlanKept' BY <1>2, <1>8, <1>9 DEF IInv, Planned, PlanKept, PlanHeld, PlanStored, Starting
<1>19. TimerRuns' BY <1>2, <1>9 DEF TimerRuns
<1>20. StartIsDue' BY <1>8 DEF StartIsDue, Starting
<1>21. DueIsTried' BY <1>2, <1>7, <1>9 DEF DueIsTried
<1> QED BY <1>11, <1>12, <1>13, <1>15, <1>16, <1>17, <1>18, <1>19, <1>20, <1>21
        DEF IInv, Pictured, Planned

-----------------------------------------------------------------------------
(* The invariant and the theorems.                                         *)

LEMMA InitInv == Init => IInv
<1> SUFFICES ASSUME Init PROVE IInv OBVIOUS
<1>1. PICK n \in Sizes :
        ctl = [size |-> n, at |-> "off", paused |-> FALSE, state |-> "queued",
               attempt |-> 0, active |-> NoAttempt, bytes |-> 0]
  BY DEF Init, FeedInit
<1>2. /\ updates = None /\ progress = None /\ pending = [snapshot |-> None, progress |-> None]
      /\ queue = <<>> /\ shown = Snapshot /\ reported = [a \in Attempts |-> 0]
      /\ overtaken = FALSE /\ refused = FALSE
      /\ clock \in 0..MaxTime /\ sched = NotSet /\ settings = NoPlan /\ saved = NoPlan
      /\ ui = Idle /\ link = "ready" /\ breaks = 0
      /\ plan = NoPlan /\ unsaved = FALSE /\ astray = FALSE
  BY DEF Init, FeedInit
<1>3. ControllerTyped
  <2>1. n \in Nat BY Constants
  <2>2. ctl \in ControllerType BY <1>1, Constants DEF ControllerType, States
  <2>3. ctl.bytes <= ctl.size BY <1>1, <2>1
  <2>4. reported \in [Attempts -> Nat] BY <1>2
  <2> QED BY <1>2, <2>2, <2>3, <2>4 DEF ControllerTyped, ControllerType
<1>4. shown \in Views /\ shown # None
  <2>1. Snapshot \in Views /\ Snapshot # None BY <1>3, SnapshotTyped
  <2> QED BY <1>2, <2>1
<1>5. /\ shown.running = Running /\ shown.paused = ctl.paused /\ shown.state = ctl.state
      /\ shown.active = NoAttempt /\ shown.bytes = 0 /\ ctl.bytes = 0 /\ ctl.active = NoAttempt
      /\ ctl.at = "off" /\ ctl.attempt = 0
  BY <1>1, <1>2 DEF Snapshot
<1>6. ChannelsTyped BY <1>2, <1>4 DEF ChannelsTyped
<1>7. QueueTyped /\ Slots
  <2>1. queue \in Seq(Kinds) BY <1>2
  <2>2. \A k : ~Has(queue, k) /\ Once(queue, k) BY <1>2 DEF Has, Once
  <2> QED BY <1>2, <2>1, <2>2 DEF QueueTyped, Slots, Posted
<1>8. PlanTyped
  <2>1. NoPlan \in 0..MaxTime /\ 0 \in 0..MaxBreaks
    BY Constants, ScheduleConstants DEF ScheduleConstants
  <2>2. sched = [at |-> NoPlan, due |-> FALSE, timer |-> "none", late |-> FALSE]
    BY <1>2 DEF NotSet
  <2>3. sched \in PlanType BY <2>1, <2>2 DEF PlanType
  <2>4. /\ clock \in 0..MaxTime /\ settings \in 0..MaxTime /\ saved \in 0..MaxTime
        /\ plan \in 0..MaxTime /\ breaks \in 0..MaxBreaks /\ link \in {"none", "lost", "ready"}
        /\ unsaved \in BOOLEAN /\ astray \in BOOLEAN
    BY <1>2, <2>1
  <2> QED BY <2>3, <2>4 DEF PlanTyped, PlanType
<1>9. WindowTyped /\ ui.at = "free" /\ ui.view = None BY <1>2, Constants DEF WindowTyped, Idle
<1>10. Typed BY <1>3, <1>6, <1>7, <1>8, <1>9 DEF Typed
<1>11. Attempting BY <1>5, <1>9 DEF Attempting
<1>12. Counting BY <1>2, <1>5 DEF Counting
<1>13. NewsCounted BY <1>2, <1>5, <1>9 DEF NewsCounted, ViewCounted
<1>14. NewestTold
  <2>1. Newest = shown BY <1>2 DEF Newest
  <2> QED BY <1>5, <2>1 DEF NewestTold
<1>15. ReloadKnows BY <1>9 DEF ReloadKnows
<1>16. sched.at = NoPlan /\ ~sched.due /\ sched.timer = "none" BY <1>2 DEF NotSet
<1>17. PlanKept BY <1>2, <1>9, <1>16 DEF PlanKept, PlanHeld, PlanStored, Starting
<1>18. TimerRuns /\ DueIsTried BY <1>16 DEF TimerRuns, DueIsTried
<1>19. StartIsDue BY <1>9 DEF StartIsDue, Starting
<1> QED BY <1>10, <1>11, <1>12, <1>13, <1>14, <1>15, <1>17, <1>18, <1>19 DEF IInv, Pictured,
    Planned

LEMMA NextInv == IInv /\ [Next]_vars => IInv'
<1> SUFFICES ASSUME IInv, [Next]_vars PROVE IInv' OBVIOUS
<1>1. CASE FeedStep
  BY <1>1, ControllerStep, ObserveStep, ProgressStep DEF FeedStep
<1>2. CASE Tick \/ TimerFires \/ Fire BY <1>2, TimeStep
<1>2a. CASE SaveOther BY <1>2a, SaveOtherStep
<1>3. CASE OpenDialog \/ LeaveDialog BY <1>3, DialogStep
<1>4. CASE PlanStart \/ PlanNotSaved \/ CancelPlan BY <1>4, PlanStep
<1>5. CASE StartPressed BY <1>5, PressStep
<1>6. CASE RunStart BY <1>6, RunStartStep
<1>7. CASE TakeQueue BY <1>7, TakeStep
<1>8. CASE Started BY <1>8, StartedStep
<1>9. CASE StartRefused \/ StartDeclined BY <1>9, RefusedStep
<1>10. CASE SaveFails BY <1>10, SaveFailsStep
<1>11. CASE Pause BY <1>11, PauseStep
<1>12. CASE RunSnapshot BY <1>12, SnapshotStep
<1>13. CASE Lose BY <1>13, LoseStep
<1>13a. CASE Regain BY <1>13a, RegainStep
<1>14. CASE Reload BY <1>14, ReloadStep
<1>15. CASE ShowReload BY <1>15, ShowReloadStep
<1>16. CASE Restart BY <1>16, RestartStep
<1>17. CASE UNCHANGED vars
  <2>1. UNCHANGED <<ctl, updates, progress, pending, queue, shown, overtaken, reported, refused>>
        /\ UNCHANGED schedule
    BY <1>17 DEF vars, feed
  <2>2. Typed' BY <2>1, GroupsKept DEF IInv, Typed, schedule, stored, decided
  <2>3. Pictured' BY <2>1, PictureKept DEF schedule, stored, decided
  <2>4. Planned' BY <2>1, PlanUntouched DEF Has
  <2> QED BY <2>2, <2>3, <2>4 DEF IInv
<1> QED
  BY <1>1, <1>2, <1>2a, <1>3, <1>4, <1>5, <1>6, <1>7, <1>8, <1>9, <1>10, <1>11, <1>12, <1>13,
     <1>13a, <1>14, <1>15, <1>16, <1>17 DEF Next

\* The picture of the queue, the plan and what is on its way between them.
LEMMA AlwaysPlanned == Spec => []IInv
BY InitInv, NextInv, PTL DEF Spec

\* The types of the feed and the schedule; a slot that waits for the interface
\* thread has exactly one callback there, and an empty slot none.
THEOREM FeedTypes == Spec => []FeedTypeOK
<1>1. IInv => FeedTypeOK
  <2> SUFFICES ASSUME IInv PROVE FeedTypeOK OBVIOUS
  <2>1. ctl.bytes \in Bytes
    <3>1. ctl.size \in Sizes /\ ctl.size \in Nat /\ ctl.bytes \in Nat /\ ctl.bytes <= ctl.size
      BY Constants DEF IInv, Typed, ControllerTyped, ControllerType
    <3>2. ctl.bytes \in 0..ctl.size BY <3>1
    <3> QED BY <3>1, <3>2, Constants
  <2>2. ctl \in [size : Sizes, at : {"off", "saving", "next", "upload", "returned", "wait", "cleaning"},
              paused : BOOLEAN, state : {"queued", "uploading", "sending", "done"}, attempt : Attempts \cup {NoAttempt},
              active : Attempts \cup {NoAttempt}, bytes : Bytes]
    BY <2>1 DEF IInv, Typed, ControllerTyped, ControllerType, States
  <2>3. ASSUME NEW kind \in {"snapshot", "progress"}
        PROVE  Cardinality({i \in DOMAIN queue : queue[i] = kind}) = (IF pending[kind] = None THEN 0 ELSE 1)
    <3> DEFINE places == {i \in DOMAIN queue : queue[i] = kind}
    <3>1. Posted(kind, pending[kind]) /\ DOMAIN queue = 1..Len(queue)
      BY DEF IInv, Typed, Slots, QueueTyped
    <3>2. CASE pending[kind] = None
      <4>1. places = {} BY <3>1, <3>2 DEF Posted, Has
      <4> QED BY <3>2, <4>1, FS_EmptySet
    <3>3. CASE pending[kind] # None
      <4>1. PICK i \in 1..Len(queue) : queue[i] = kind BY <3>1, <3>3 DEF Posted, Has
      <4>2. places = {i} BY <3>1, <4>1 DEF Posted, Once
      <4>3. Cardinality(places) = 1 BY <4>2, FS_Singleton
      <4> QED BY <3>3, <4>3
    <3> QED BY <3>2, <3>3
  <2> QED BY <2>2, <2>3 DEF FeedTypeOK, IInv, Typed, ChannelsTyped, QueueTyped, PlanTyped,
      PlanType, Kinds
<1> QED BY <1>1, AlwaysPlanned, PTL

\* The newest snapshot is in the channel, in the slot or in the window, and no step
\* puts an older one in front of it but a Reload; so the window ends with it.
THEOREM PictureSettles == Spec => []WindowSettles
<1>1. IInv => WindowSettles
  BY DEF IInv, Pictured, NewestTold, Newest, WindowSettles, AtRest, NoNews
<1> QED BY <1>1, AlwaysPlanned, PTL

\* Whatever overtakes what, the window shows no more bytes of an attempt than the
\* controller counted for it.
THEOREM BytesAreOwn == Spec => []BytesOfAttempt
<1>1. IInv => BytesOfAttempt
  BY Constants DEF IInv, Typed, ChannelsTyped, Pictured, NewsCounted, ViewCounted,
     BytesOfAttempt
<1> QED BY <1>1, AlwaysPlanned, PTL

\* Between two callbacks the coordinator has the user's plan, and the settings, in
\* memory and in their file, have the coordinator's, whatever was refused or cut off
\* by a restart.  A save that reported an error may have changed the file; until
\* another save puts it right the settings may differ, and a restart may then find a
\* plan that is not the user's.
THEOREM PlansAgree == Spec => []PlanAgrees
<1>1. IInv => PlanAgrees
  BY DEF IInv, Planned, PlanKept, PlanHeld, PlanStored, Starting, PlanAgrees, Free
<1> QED BY <1>1, AlwaysPlanned, PTL

\* While the queue could be started and nothing is on its way, no plan of the
\* coordinator's and none of the user's is due, unless a start was refused without
\* news of its end, or a restart lost the user's plan after a save that failed.
THEOREM DuePlansStart == Spec => []DuePlanStarts
<1>1. ASSUME IInv, CouldStart, PlanIsDue(sched.at) PROVE refused
  <2>1. /\ updates = None /\ pending.snapshot = None /\ queue = <<>> /\ ui.at = "free"
        /\ ~overtaken /\ connected /\ sched.timer = "none"
        /\ ctl.at = "off" /\ ~ctl.paused /\ Runnable(ctl.state)
    BY <1>1 DEF CouldStart, AtRest, NoNews, Free
  <2>2. sched.due BY <1>1, <2>1 DEF IInv, Planned, TimerRuns, PlanIsDue
  <2>3. ~Has(queue, "start") BY <2>1 DEF Has
  <2>4. ~Blocked
    <3>1. Newest = shown /\ ~Running BY <2>1 DEF Newest, Running
    <3> QED BY <1>1, <2>1, <3>1 DEF IInv, Pictured, NewestTold, Blocked, connected
  <2> QED BY <1>1, <2>1, <2>2, <2>3, <2>4 DEF IInv, Planned, DueIsTried
<1>2. ASSUME IInv, CouldStart, ~astray PROVE sched.at = plan
  BY <1>2 DEF IInv, Planned, PlanKept, PlanHeld, Starting, CouldStart, AtRest, Free
<1>3. IInv => DuePlanStarts BY <1>1, <1>2 DEF DuePlanStarts
<1> QED BY <1>3, AlwaysPlanned, PTL

\* A scheduled start is that of a plan, not before its time, and of the plan the user
\* decided on last, unless a restart found another one in the file after a save that
\* reported an error, or after the program died in the middle of a start.
THEOREM StartsWhenDue == Spec => ScheduledStartsDue
<1>1. IInv => (TakeQueue /\ ui.scheduled =>
                 /\ ui.plan # NoPlan /\ ui.plan <= clock
                 /\ ui.plan = plan \/ astray)
  BY DEF TakeQueue, IInv, Planned, StartIsDue, PlanKept, PlanHeld, Starting
<1> QED BY <1>1, AlwaysPlanned, PTL DEF ScheduledStartsDue

\* A pause that a scheduled start ends is one whose news is still on its way.
THEOREM PausesRespected == Spec => NoSilentUnpause
<1>1. IInv => (TakeQueue /\ ui.scheduled /\ ctl.paused => updates # None \/ pending.snapshot # None)
  BY DEF TakeQueue, IInv, Planned, StartIsDue, Starting, Pictured, NewestTold, Newest
<1> QED BY <1>1, AlwaysPlanned, PTL DEF NoSilentUnpause
=============================================================================
