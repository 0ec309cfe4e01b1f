--------------------------- MODULE ConnectionTypes ---------------------------
(***************************************************************************)
(* The types of Connection: ConnTypeOK holds in every state, for all bots, *)
(* bounds and numbers of connection attempts.  The types of the fields it  *)
(* leaves out and three counters make it inductive.                        *)
(***************************************************************************)
EXTENDS Connection, SequenceTheorems, TLAPS

Stages == {"none", "made", "ended"} \cup Active
Reasons == {"none", "wrongBot", "cancelled", "clean", "transient", "fatal"}
Kinds == {"ensure", "failed", "ready", "down", "up", "stopped"}
Callbacks == [kind : {"ensure"}, gen : {NoGen}] \cup [kind : Kinds \ {"ensure"}, gen : Gens]
Before == {"save", "make", "fail", "report"}
AttemptType == [at : {"none", "spawn"} \cup Before, bot : Bots \cup {NoBot}, auto : BOOLEAN]
RunnerType ==
  [at : {"none", "run", "detach", "clear", "post", "posted", "done"},
   current : BOOLEAN, retry : BOOLEAN, fatal : BOOLEAN, again : Bots \cup {NoBot}]

TransportTyped ==
  /\ life \in [Gens -> Stages] /\ botOf \in [Gens -> Bots \cup {NoBot}]
  /\ dead \subseteq Gens /\ why \in [Gens -> Reasons]
  /\ session \in Bots \cup {NoBot, Unreadable}

UploadsTyped ==
  /\ gateway \in Gens \cup {NoGen} /\ running \in BOOLEAN
  /\ req \in [at : {"idle", "captured", "inFlight"}, gen : Gens \cup {NoGen}, cut : BOOLEAN]
  /\ req.at # "idle" => req.gen \in Gens

\* One generation follows the last attempt: that of the closed window.
ConnTyped ==
  /\ conn \in [client : Gens \cup {NoGen}, gen : 0..(MaxGen + 1), connecting : BOOLEAN,
               reconnect : BOOLEAN, pending : Bots \cup {NoBot}, applied : Bots \cup {NoBot}]
  /\ exit \in {"open", "closed", "detached", "gone"}
  /\ exit \in {"open", "closed"} => conn.gen <= MaxGen

QueueTyped == queue \in Seq(Callbacks)

\* A handle that is armed is one of the armed timers.
TimerTyped ==
  /\ timer \in [handle : {"nil", "armed", "fired"}, armed : 0..MaxTimers, fired : 0..MaxTimers]
  /\ timer.armed + timer.fired <= MaxTimers
  /\ timer.handle = "armed" => timer.armed > 0

FieldsTyped ==
  /\ ui \in [at : {"free", "cut"}, gen : Gens \cup {NoGen}] /\ (ui.at = "cut" => ui.gen \in Gens)
  /\ win \in [connected : BOOLEAN, identity : BOOLEAN, configErr : BOOLEAN]
  /\ wanted \in Bots \cup {NoBot} /\ strayStop \in BOOLEAN /\ dropped \in BOOLEAN

WorkersTyped ==
  /\ attempt \in [Gens -> AttemptType]
  /\ runner \in [Gens -> RunnerType]
  /\ waiter \in [Gens -> {"none", "wait", "ready"}]

Typed ==
  /\ TransportTyped /\ UploadsTyped /\ ConnTyped /\ QueueTyped /\ TimerTyped
  /\ FieldsTyped /\ WorkersTyped

LEMMA TypedIsTypeOK == Typed => ConnTypeOK
<1>1. Callbacks \subseteq [kind : Kinds, gen : Gens \cup {NoGen}] BY DEF Callbacks, Kinds
<1>2. ASSUME queue \in Seq(Callbacks) PROVE queue \in Seq([kind : Kinds, gen : Gens \cup {NoGen}])
  <2>1. Len(queue) \in Nat /\ queue \in [1..Len(queue) -> Callbacks] BY <1>2
  <2>2. queue \in [1..Len(queue) -> [kind : Kinds, gen : Gens \cup {NoGen}]] BY <1>1, <2>1
  <2> QED BY <2>1, <2>2, SeqDef, Zenon
<1> QED BY <1>2 DEF Typed, TransportTyped, UploadsTyped, ConnTyped, QueueTyped, TimerTyped,
       ConnTypeOK, Stages, Reasons, Kinds

\* A group whose variables do not change keeps its types.
LEMMA GroupsKept ==
  ASSUME Typed
  PROVE  /\ UNCHANGED transport => TransportTyped'
         /\ UNCHANGED uploads => UploadsTyped'
         /\ UNCHANGED <<conn, exit>> => ConnTyped'
         /\ UNCHANGED queue => QueueTyped'
         /\ UNCHANGED timer => TimerTyped'
         /\ UNCHANGED <<ui, win, wanted, strayStop, dropped>> => FieldsTyped'
         /\ UNCHANGED <<attempt, runner, waiter>> => WorkersTyped'
  BY DEF Typed, transport, uploads, TransportTyped, UploadsTyped, ConnTyped, QueueTyped,
     TimerTyped, FieldsTyped, WorkersTyped

LEMMA NoGenIsNone == NoGen \notin Gens /\ Gens \subseteq 1..MaxGen /\ NoGen = 0
  BY ClientConstants DEF ClientConstants, Gens, NoGen

\* Posting and taking a callback.
LEMMA PostTyped ==
  ASSUME Typed, NEW kind, NEW g, [kind |-> kind, gen |-> g] \in Callbacks, Post(kind, g)
  PROVE  QueueTyped'
  BY DEF Typed, QueueTyped, Post

LEMMA TakeTyped ==
  ASSUME Typed, queue # <<>>
  PROVE  Head1 \in Callbacks /\ Tail(queue) \in Seq(Callbacks)
<1>1. queue \in Seq(Callbacks) /\ Len(queue) \in Nat /\ Len(queue) > 0
  BY DEF Typed, QueueTyped
<1>2. queue[1] \in Callbacks BY <1>1
<1> QED BY <1>1, <1>2 DEF Head1

\* The two things that happen to the retry timer.
LEMMA TimersTyped ==
  ASSUME Typed
  PROVE  /\ timer' = TimerStopped => TimerTyped'
         /\ MayArm /\ timer' = TimerScheduled => TimerTyped'
<1>1. MaxTimers \in Nat BY ConnectionConstants DEF ConnectionConstants
<1>2. /\ timer = [handle |-> timer.handle, armed |-> timer.armed, fired |-> timer.fired]
      /\ timer.handle \in {"nil", "armed", "fired"} /\ timer.armed \in Nat /\ timer.fired \in Nat
      /\ timer.armed + timer.fired <= MaxTimers /\ (timer.handle = "armed" => timer.armed > 0)
  BY <1>1 DEF Typed, TimerTyped
<1>3. ASSUME timer' = TimerStopped PROVE TimerTyped'
  <2>1. timer' = [handle |-> "nil", fired |-> timer.fired,
                  armed |-> IF timer.handle = "armed" THEN timer.armed - 1 ELSE timer.armed]
    BY <1>2, <1>3 DEF TimerStopped
  <2> QED BY <1>1, <1>2, <2>1 DEF TimerTyped
<1>4. ASSUME MayArm, timer' = TimerScheduled PROVE TimerTyped'
  <2>1. CASE timer.handle # "nil" BY <1>4, <2>1 DEF TimerScheduled, Typed, TimerTyped
  <2>2. CASE timer.handle = "nil"
    <3>1. timer' = [handle |-> "armed", armed |-> timer.armed + 1, fired |-> timer.fired]
      BY <1>2, <1>4, <2>2 DEF TimerScheduled
    <3> QED BY <1>1, <1>2, <1>4, <3>1 DEF TimerTyped, MayArm
  <2> QED BY <2>1, <2>2
<1> QED BY <1>3, <1>4

\* A new attempt.
LEMMA ConnectingKeeps ==
  ASSUME Typed, UIFree, NEW bot \in Bots \cup {NoBot}, NEW auto \in BOOLEAN,
         conn.gen < MaxGen, Connecting(bot, auto), UNCHANGED exit
  PROVE  /\ ConnTyped' /\ TimerTyped' /\ attempt' \in [Gens -> AttemptType]
         /\ strayStop' \in BOOLEAN /\ dropped' \in BOOLEAN
<1>0. MaxGen \in Nat BY ClientConstants DEF ClientConstants
<1>1. conn.gen \in 0..(MaxGen + 1) BY DEF Typed, ConnTyped
<1>2. conn.gen + 1 \in Gens BY <1>0, <1>1 DEF Gens
<1>3. TimerTyped' BY TimersTyped DEF Connecting
<1>4. ConnTyped'
  <2>1. conn' = [conn EXCEPT !.connecting = TRUE, !.gen = conn.gen + 1,
                             !.applied = IF auto /\ conn.applied = NoBot THEN bot ELSE conn.applied]
    BY DEF Connecting
  <2>2. conn.gen + 1 \in 0..(MaxGen + 1) /\ conn.gen + 1 <= MaxGen BY <1>0, <1>1
  <2>3. (IF auto /\ conn.applied = NoBot THEN bot ELSE conn.applied) \in Bots \cup {NoBot}
    BY DEF Typed, ConnTyped
  <2>4. conn' \in [client : Gens \cup {NoGen}, gen : 0..(MaxGen + 1), connecting : BOOLEAN,
                   reconnect : BOOLEAN, pending : Bots \cup {NoBot}, applied : Bots \cup {NoBot}]
    BY <2>1, <2>2, <2>3 DEF Typed, ConnTyped
  <2>5. conn'.gen = conn.gen + 1 BY <2>1 DEF Typed, ConnTyped
  <2> QED BY <2>2, <2>4, <2>5 DEF Typed, ConnTyped
<1>5. [at |-> IF auto THEN "make" ELSE "save", bot |-> bot, auto |-> auto] \in AttemptType
  BY DEF AttemptType, Before
<1>6. attempt' \in [Gens -> AttemptType] BY <1>2, <1>5 DEF Connecting, Typed, WorkersTyped
<1> QED BY <1>3, <1>4, <1>6 DEF Connecting

LEMMA ConnectingTyped ==
  ASSUME Typed, UIFree, NEW bot \in Bots \cup {NoBot}, NEW auto \in BOOLEAN,
         conn.gen < MaxGen, Connecting(bot, auto), UNCHANGED <<runner, waiter, exit>>
  PROVE  ConnTyped' /\ WorkersTyped' /\ TimerTyped' /\ strayStop' \in BOOLEAN /\ dropped' \in BOOLEAN
<1>1. ConnTyped' /\ TimerTyped' /\ attempt' \in [Gens -> AttemptType] /\ strayStop' \in BOOLEAN /\ dropped' \in BOOLEAN
  BY ConnectingKeeps
<1> QED BY <1>1 DEF Typed, WorkersTyped

LEMMA EnsureTyped ==
  ASSUME Typed, UIFree, Ensure, UNCHANGED <<runner, waiter, exit, ui, wanted>>
  PROVE  ConnTyped' /\ WorkersTyped' /\ TimerTyped' /\ FieldsTyped'
<1>1. CASE MayEnsure /\ Connecting(Saved, TRUE) /\ win' = [win EXCEPT !.connected = FALSE]
  <2>1. Saved \in Bots \cup {NoBot} BY DEF Saved, Typed, ConnTyped, FieldsTyped
  <2>2. conn.gen < MaxGen /\ Connecting(Saved, TRUE) /\ win' = [win EXCEPT !.connected = FALSE]
    BY <1>1 DEF MayEnsure
  <2>3. ConnTyped' /\ WorkersTyped' /\ TimerTyped' /\ strayStop' \in BOOLEAN /\ dropped' \in BOOLEAN
    BY <2>1, <2>2, ConnectingTyped
  <2>4. FieldsTyped' BY <2>2, <2>3 DEF Typed, FieldsTyped
  <2> QED BY <2>3, <2>4
<1>2. CASE FieldsRefused
  <2>1. FieldsTyped' BY <1>2 DEF FieldsRefused, Typed, FieldsTyped
  <2> QED BY <1>2, <2>1, GroupsKept DEF FieldsRefused
<1>3. CASE ~MayEnsure
  BY <1>3, GroupsKept DEF Ensure
<1> QED BY <1>1, <1>2, <1>3 DEF Ensure

-----------------------------------------------------------------------------
(* One lemma per part of the system.                                       *)

\* Run of a client.
LEMMA TransportTypes ==
  ASSUME Typed, NEW g \in Gens, TransportStep(g)
  PROVE  Typed'
<1>1. ConnTyped' /\ QueueTyped' /\ TimerTyped' /\ FieldsTyped' /\ WorkersTyped'
  BY GroupsKept DEF TransportStep, window
<1>2. TransportTyped' /\ UploadsTyped'
  <2> USE DEF Typed, TransportTyped, Becomes, Ends, Stages, Active, Reasons
  <2>1. CASE Login(g) BY <2>1, GroupsKept DEF Login
  <2>2. CASE LoginFails(g) BY <2>2, GroupsKept DEF LoginFails
  <2>3. CASE Ready(g) BY <2>3, GroupsKept DEF Ready
  <2>4. CASE Stop(g)
    <3>1. TransportTyped' BY <2>4 DEF Stop
    <3>2. UploadsTyped' BY <2>4 DEF Stop, UploadsTyped, Cut
    <3> QED BY <3>1, <3>2
  <2>5. CASE RequestsDone(g) BY <2>5, GroupsKept DEF RequestsDone
  <2>6. CASE PoolClosed(g) BY <2>6, GroupsKept DEF PoolClosed
  <2> QED BY <2>1, <2>2, <2>3, <2>4, <2>5, <2>6 DEF TransportStep, Transport
<1> QED BY <1>1, <1>2 DEF Typed

\* The upload goroutine.
LEMMA UploadTypes ==
  ASSUME Typed, UploadStep
  PROVE  Typed'
<1>1. ConnTyped' /\ QueueTyped' /\ TimerTyped' /\ FieldsTyped' /\ WorkersTyped'
  BY GroupsKept DEF UploadStep, window
<1>2. UNCHANGED transport
  BY DEF UploadStep, Uploading, CaptureGateway, BeginRequest, EndRequest, EndQueue
<1>3. TransportTyped' BY <1>2, GroupsKept
<1>4. UploadsTyped'
  <2> USE DEF Typed, UploadsTyped, NoRequest
  <2>1. CASE CaptureGateway BY <2>1 DEF CaptureGateway
  <2>2. CASE BeginRequest BY <2>2, NoGenIsNone DEF BeginRequest
  <2>3. CASE EndRequest BY <2>3, NoGenIsNone DEF EndRequest
  <2>4. CASE EndQueue BY <2>4 DEF EndQueue
  <2> QED BY <2>1, <2>2, <2>3, <2>4 DEF UploadStep, Uploading
<1> QED BY <1>1, <1>3, <1>4 DEF Typed

\* Retry timers.
LEMMA TimerTypes ==
  ASSUME Typed, TimerFires \/ TimerDelivers
  PROVE  Typed'
<1>0. MaxTimers \in Nat BY ConnectionConstants DEF ConnectionConstants
<1>1. /\ timer = [handle |-> timer.handle, armed |-> timer.armed, fired |-> timer.fired]
      /\ timer.handle \in {"nil", "armed", "fired"} /\ timer.armed \in Nat /\ timer.fired \in Nat
      /\ timer.armed + timer.fired <= MaxTimers /\ (timer.handle = "armed" => timer.armed > 0)
  BY <1>0 DEF Typed, TimerTyped
<1>2. CASE TimerFires
  <2>1. QueueTyped' /\ TransportTyped' /\ UploadsTyped' /\ ConnTyped' /\ FieldsTyped' /\ WorkersTyped'
    BY <1>2, GroupsKept DEF TimerFires
  <2>2. CASE timer.handle = "armed"
             /\ timer' = [timer EXCEPT !.handle = "fired", !.armed = @ - 1, !.fired = @ + 1]
    <3>1. timer' = [handle |-> "fired", armed |-> timer.armed - 1, fired |-> timer.fired + 1]
      BY <1>1, <2>2
    <3> QED BY <1>0, <1>1, <2>1, <2>2, <3>1 DEF Typed, TimerTyped
  <2>3. CASE timer.armed > (IF timer.handle = "armed" THEN 1 ELSE 0)
             /\ timer' = [timer EXCEPT !.armed = @ - 1, !.fired = @ + 1]
    <3>1. timer' = [handle |-> timer.handle, armed |-> timer.armed - 1, fired |-> timer.fired + 1]
      BY <1>1, <2>3
    <3> QED BY <1>0, <1>1, <2>1, <2>3, <3>1 DEF Typed, TimerTyped
  <2> QED BY <1>2, <2>2, <2>3 DEF TimerFires
<1>3. CASE TimerDelivers
  <2>0. [kind |-> "ensure", gen |-> NoGen] \in Callbacks BY DEF Callbacks
  <2>1. QueueTyped' BY <1>3, <2>0, PostTyped DEF TimerDelivers
  <2>2. TransportTyped' /\ UploadsTyped' /\ ConnTyped' /\ FieldsTyped' /\ WorkersTyped'
    BY <1>3, GroupsKept DEF TimerDelivers
  <2>3. timer' = [handle |-> "nil", armed |-> timer.armed, fired |-> timer.fired - 1] /\ timer.fired > 0
    BY <1>1, <1>3 DEF TimerDelivers
  <2> QED BY <1>0, <1>1, <2>1, <2>2, <2>3 DEF Typed, TimerTyped
<1> QED BY <1>2, <1>3

\* What the user and the schedule do.
LEMMA UserTypes ==
  ASSUME Typed, \/ ScheduleEnsures \/ PressInvalid \/ CutOff \/ StartQueue
                \/ \E bot \in Bots : Connect(bot) \/ Reconnect(bot)
  PROVE  Typed'
<1>1. CASE ScheduleEnsures
  <2>1. ConnTyped' /\ WorkersTyped' /\ TimerTyped' /\ FieldsTyped'
    BY <1>1, EnsureTyped DEF ScheduleEnsures
  <2> QED BY <1>1, <2>1, GroupsKept DEF ScheduleEnsures, Typed
<1>2. CASE CutOff
  <2>1. ConnTyped' /\ QueueTyped' /\ TimerTyped' /\ WorkersTyped'
    BY <1>2, GroupsKept DEF CutOff
  <2>2. TransportTyped' BY <1>2 DEF CutOff, Typed, TransportTyped, FieldsTyped
  <2>3. UploadsTyped' BY <1>2 DEF CutOff, Typed, UploadsTyped
  <2>4. FieldsTyped' BY <1>2 DEF CutOff, Typed, FieldsTyped
  <2> QED BY <2>1, <2>2, <2>3, <2>4 DEF Typed
<1>3. CASE StartQueue
  <2>1. UploadsTyped' BY <1>3 DEF StartQueue, Typed, UploadsTyped
  <2> QED BY <1>3, <2>1, GroupsKept DEF StartQueue, window, Typed
<1>4. ASSUME NEW bot \in Bots, Connect(bot) PROVE Typed'
  <2>1. ConnTyped' /\ WorkersTyped' /\ TimerTyped' /\ strayStop' \in BOOLEAN /\ dropped' \in BOOLEAN
    BY <1>4, ConnectingTyped DEF Connect
  <2>2. FieldsTyped' BY <1>4, <2>1 DEF Connect, Typed, FieldsTyped
  <2> QED BY <1>4, <2>1, <2>2, GroupsKept DEF Connect, Typed
<1>5. ASSUME NEW bot \in Bots, Reconnect(bot) PROVE Typed'
  <2>1. TransportTyped' /\ UploadsTyped' /\ QueueTyped' /\ WorkersTyped'
    BY <1>5, GroupsKept DEF Reconnect
  <2>2. TimerTyped' BY <1>5, TimersTyped DEF Reconnect
  <2>3. ConnTyped' BY <1>5 DEF Reconnect, Typed, ConnTyped
  <2>4. ui' \in [at : {"free", "cut"}, gen : Gens \cup {NoGen}] /\ ui'.gen \in Gens
    BY <1>5, NoGenIsNone DEF Reconnect, Typed, ConnTyped
  <2>5. FieldsTyped' BY <1>5, <2>4 DEF Reconnect, Typed, FieldsTyped
  <2> QED BY <2>1, <2>2, <2>3, <2>5 DEF Typed
<1>6. CASE PressInvalid
  <2>1. TimerTyped' BY <1>6, TimersTyped DEF PressInvalid
  <2>2. FieldsTyped' BY <1>6 DEF PressInvalid, Typed, FieldsTyped
  <2> QED BY <1>6, <2>1, <2>2, GroupsKept DEF PressInvalid, Typed
<1> QED BY <1>1, <1>2, <1>3, <1>4, <1>5, <1>6

\* The callbacks.
LEMMA CallbackTypes ==
  ASSUME Typed, Callback
  PROVE  Typed'
<1>1. queue # <<>> /\ queue' = Tail(queue) /\ UIFree /\ UNCHANGED <<transport, uploads, ui, waiter, exit, wanted>>
  BY DEF Callback, RunEnsure, RunFailed, RunReady, RunState, RunStopped, Take
<1>2. QueueTyped' /\ Head1 \in Callbacks BY <1>1, TakeTyped DEF QueueTyped
<1>3. TransportTyped' /\ UploadsTyped' BY <1>1, GroupsKept
<1>4. ConnTyped' /\ TimerTyped' /\ FieldsTyped' /\ WorkersTyped'
  <2>1. CASE RunEnsure BY <2>1, EnsureTyped DEF RunEnsure, Take
  <2>2. CASE RunFailed
    <3>1. TimerTyped' BY <2>2, TimersTyped, GroupsKept DEF RunFailed
    <3>2. FieldsTyped' BY <2>2 DEF RunFailed, Typed, FieldsTyped
    <3> QED BY <2>2, <3>1, <3>2, GroupsKept DEF RunFailed
  <2>3. CASE RunReady
    <3>1. TimerTyped' BY <2>3, TimersTyped, GroupsKept DEF RunReady
    <3>2. FieldsTyped' BY <2>3 DEF RunReady, Typed, FieldsTyped
    <3>3. ConnTyped' BY <2>3 DEF RunReady, Typed, ConnTyped
    <3> QED BY <2>3, <3>1, <3>2, <3>3, GroupsKept DEF RunReady
  <2>4. CASE RunState
    <3>1. TimerTyped' BY <2>4, TimersTyped, GroupsKept DEF RunState
    <3>2. FieldsTyped' BY <2>4 DEF RunState, Typed, FieldsTyped
    <3> QED BY <2>4, <3>1, <3>2, GroupsKept DEF RunState
  <2>5. CASE RunStopped
    <3> DEFINE g == Head1.gen
               r == runner[g]
    <3>1. g \in Gens /\ r \in RunnerType
      <4>1. Head1.kind = "stopped" BY <2>5 DEF RunStopped, Take
      <4> QED BY <1>2, <4>1 DEF Callbacks, Typed, WorkersTyped
    <3>2. [NoRunner EXCEPT !.at = "done"] \in RunnerType BY DEF NoRunner, RunnerType
    <3>3. runner' \in [Gens -> RunnerType]
      BY <2>5, <3>2 DEF RunStopped, Typed, WorkersTyped
    <3>4. CASE ~(r.current /\ conn.gen = g /\ conn.client = NoGen)
      <4>1. UNCHANGED <<conn, attempt, win, timer, strayStop, dropped>> BY <2>5, <3>4 DEF RunStopped
      <4>2. WorkersTyped' BY <1>1, <3>3, <4>1 DEF Typed, WorkersTyped
      <4> QED BY <1>1, <4>1, <4>2, GroupsKept
    <3>5. CASE /\ r.current /\ conn.gen = g /\ conn.client = NoGen
               /\ r.again # NoBot /\ ~running /\ g < MaxGen
      <4>1. /\ Connecting(r.again, FALSE)
            /\ win' = [[win EXCEPT !.connected = FALSE, !.identity = FALSE] EXCEPT !.configErr = FALSE]
        BY <2>5, <3>5 DEF RunStopped
      <4>2. r.again \in Bots \cup {NoBot} BY <3>1 DEF RunnerType
      <4>3. attempt' \in [Gens -> AttemptType] /\ TimerTyped' /\ ConnTyped' /\ strayStop' \in BOOLEAN /\ dropped' \in BOOLEAN
        BY <1>1, <3>5, <4>1, <4>2, ConnectingKeeps
      <4>4. FieldsTyped' BY <1>1, <4>1, <4>3 DEF Typed, FieldsTyped
      <4> QED BY <1>1, <3>3, <4>3, <4>4 DEF Typed, WorkersTyped
    <3>6. CASE /\ r.current /\ conn.gen = g /\ conn.client = NoGen
               /\ ~(r.again # NoBot /\ ~running /\ g < MaxGen)
      <4>1. /\ r.retry => MayArm
            /\ conn' = [conn EXCEPT !.connecting = FALSE]
            /\ win' = [[win EXCEPT !.connected = FALSE, !.identity = FALSE]
                         EXCEPT !.configErr = ~r.retry /\ (@ \/ r.fatal)]
            /\ timer' = IF r.retry THEN TimerScheduled ELSE TimerStopped
            /\ UNCHANGED <<attempt, strayStop, dropped>>
        BY <2>5, <3>6 DEF RunStopped
      <4>2. TimerTyped' BY <4>1, TimersTyped
      <4>3. ConnTyped' BY <1>1, <4>1 DEF Typed, ConnTyped
      <4>4. FieldsTyped' BY <1>1, <3>1, <4>1 DEF Typed, FieldsTyped, RunnerType
      <4>5. WorkersTyped' BY <1>1, <3>3, <4>1 DEF Typed, WorkersTyped
      <4> QED BY <4>2, <4>3, <4>4, <4>5
    <3> QED BY <3>4, <3>5, <3>6
  <2> QED BY <2>1, <2>2, <2>3, <2>4, <2>5 DEF Callback
<1> QED BY <1>2, <1>3, <1>4 DEF Typed

\* shutdown.
LEMMA ShutdownTypes ==
  ASSUME Typed, Shutdown
  PROVE  Typed'
<1>0. MaxGen \in Nat /\ MaxTimers \in Nat
  BY ClientConstants, ConnectionConstants DEF ClientConstants, ConnectionConstants
<1>1. CASE Close
  <2>1. TransportTyped' /\ UploadsTyped' /\ WorkersTyped' BY <1>1, GroupsKept DEF Close
  <2>2. ConnTyped' BY <1>1 DEF Close, UIFree, Closed, ExitTo, Typed, ConnTyped
  <2>3. QueueTyped' BY <1>1 DEF Close, QueueTyped
  <2>4. TimerTyped' BY <1>0, <1>1 DEF Close, TimerTyped, NoTimer
  <2>5. FieldsTyped' BY <1>1 DEF Close, Typed, FieldsTyped, ConnTyped, Blank
  <2> QED BY <2>1, <2>2, <2>3, <2>4, <2>5 DEF Typed
<1>2. CASE CloseClient
  <2>1. QueueTyped' /\ TimerTyped' /\ FieldsTyped' /\ WorkersTyped'
    BY <1>2, GroupsKept DEF CloseClient
  <2>2. TransportTyped' BY <1>2 DEF CloseClient, Typed, TransportTyped, ConnTyped
  <2>3. UploadsTyped' BY <1>2 DEF CloseClient, Typed, UploadsTyped, Cut
  <2>4. conn.gen + 1 \in 0..(MaxGen + 1) BY <1>0, <1>2 DEF CloseClient, Typed, ConnTyped
  <2>5. ConnTyped' BY <1>2, <2>4 DEF CloseClient, ExitTo, Typed, ConnTyped
  <2> QED BY <2>1, <2>2, <2>3, <2>5 DEF Typed
<1>3. CASE CloseGateway
  <2>1. QueueTyped' /\ TimerTyped' /\ FieldsTyped' /\ WorkersTyped'
    BY <1>3, GroupsKept DEF CloseGateway
  <2>2. TransportTyped' BY <1>3 DEF CloseGateway, Typed, TransportTyped
  <2>3. UploadsTyped' BY <1>3 DEF CloseGateway, Typed, UploadsTyped, Cut
  <2>4. ConnTyped' BY <1>3 DEF CloseGateway, ExitTo, Typed, ConnTyped
  <2> QED BY <2>1, <2>2, <2>3, <2>4 DEF Typed
<1> QED BY <1>1, <1>2, <1>3 DEF Shutdown

\* connectAsync.
LEMMA AttemptTypes ==
  ASSUME Typed, NEW g \in Gens, ConnectAsync(g)
  PROVE  Typed'
<1>1. NoAttempt \in AttemptType BY DEF NoAttempt, AttemptType
<1>2. attempt \in [Gens -> AttemptType] /\ runner \in [Gens -> RunnerType]
      /\ waiter \in [Gens -> {"none", "wait", "ready"}]
  BY DEF Typed, WorkersTyped
<1>3. ASSUME NEW at \in {"spawn"} \cup Before, AttemptTo(g, at)
      PROVE  attempt' \in [Gens -> AttemptType]
  BY <1>2, <1>3 DEF AttemptTo, AttemptType
<1>4. EndAttempt(g) => attempt' \in [Gens -> AttemptType] BY <1>1, <1>2 DEF EndAttempt
<1>5. CASE SaveConfig(g)
  <2>1. attempt' \in [Gens -> AttemptType] BY <1>3, <1>5 DEF SaveConfig, Before
  <2>2. WorkersTyped' BY <1>2, <1>5, <2>1 DEF SaveConfig, WorkersTyped
  <2>3. attempt[g].bot \in Bots \cup {NoBot} BY <1>2 DEF AttemptType
  <2>4. ConnTyped' BY <1>5, <2>3 DEF SaveConfig, Typed, ConnTyped
  <2> QED BY <1>5, <2>2, <2>4, GroupsKept DEF SaveConfig, Typed
<1>6. CASE MakeFails(g)
  <2>1. attempt' \in [Gens -> AttemptType] BY <1>3, <1>6 DEF MakeFails, Before
  <2>2. WorkersTyped' BY <1>2, <1>6, <2>1 DEF MakeFails, WorkersTyped
  <2> QED BY <1>6, <2>2, GroupsKept DEF MakeFails, Typed
<1>7. CASE Publish(g)
  <2>1. attempt' \in [Gens -> AttemptType] BY <1>3, <1>4, <1>7 DEF Publish
  <2>2. WorkersTyped' BY <1>2, <1>7, <2>1 DEF Publish, WorkersTyped
  <2>3. attempt[g].bot \in Bots \cup {NoBot} BY <1>2 DEF AttemptType
  <2>4. TransportTyped'
    BY <1>7, <2>3 DEF Publish, Becomes, Stages, Typed, TransportTyped
  <2>5. UploadsTyped' BY <1>7 DEF Publish, Typed, UploadsTyped
  <2>6. ConnTyped' BY <1>7 DEF Publish, Typed, ConnTyped
  <2>7. QueueTyped' /\ TimerTyped' /\ FieldsTyped' BY <1>7, GroupsKept DEF Publish
  <2> QED BY <2>2, <2>4, <2>5, <2>6, <2>7 DEF Typed
<1>8. CASE Spawn(g)
  <2>1. runner' \in [Gens -> RunnerType] BY <1>2, <1>8 DEF Spawn, RunnerType
  <2>2. WorkersTyped' BY <1>2, <1>4, <1>8, <2>1 DEF Spawn, WorkersTyped
  <2> QED BY <1>8, <2>2, GroupsKept DEF Spawn, Typed
<1>9. CASE FailAttempt(g)
  <2>1. attempt' \in [Gens -> AttemptType] BY <1>3, <1>4, <1>9 DEF FailAttempt, Before
  <2>2. WorkersTyped' BY <1>2, <1>9, <2>1 DEF FailAttempt, WorkersTyped
  <2>3. ConnTyped' BY <1>9 DEF FailAttempt, Typed, ConnTyped
  <2>4. FieldsTyped' BY <1>9 DEF FailAttempt, Typed, FieldsTyped, ConnTyped
  <2> QED BY <1>9, <2>2, <2>3, <2>4, GroupsKept DEF FailAttempt, Typed
<1>10. CASE ReportFailure(g)
  <2>1. [kind |-> "failed", gen |-> g] \in Callbacks BY DEF Callbacks, Kinds
  <2>2. QueueTyped' BY <1>10, <2>1, PostTyped DEF ReportFailure
  <2>3. WorkersTyped' BY <1>2, <1>4, <1>10 DEF ReportFailure, WorkersTyped
  <2> QED BY <1>10, <2>2, <2>3, GroupsKept DEF ReportFailure, Typed
<1> QED BY <1>5, <1>6, <1>7, <1>8, <1>9, <1>10 DEF ConnectAsync

\* runClient, waitClientReady and the transport's state callback.
LEMMA ClientTypes ==
  ASSUME Typed, NEW g \in Gens,
         RunClient(g) \/ WaitReady(g) \/ PostReady(g) \/ LinkChanges(g)
  PROVE  Typed'
<1>1. runner \in [Gens -> RunnerType] /\ waiter \in [Gens -> {"none", "wait", "ready"}]
  BY DEF Typed, WorkersTyped
<1>2. CASE StartRun(g)
  <2>1. TransportTyped' BY <1>2 DEF StartRun, Becomes, Typed, TransportTyped, Stages, Active
  <2> QED BY <1>2, <2>1, GroupsKept DEF StartRun, window, Typed
<1>3. CASE RemoveSession(g)
  <2>1. TransportTyped' BY <1>3 DEF RemoveSession, Typed, TransportTyped
  <2>2. runner' \in [Gens -> RunnerType] BY <1>1, <1>3 DEF RemoveSession, RunnerType
  <2>3. WorkersTyped' BY <1>3, <2>2 DEF RemoveSession, Typed, WorkersTyped
  <2> QED BY <1>3, <2>1, <2>3, GroupsKept DEF RemoveSession, Typed
<1>4. CASE Detach(g)
  <2> DEFINE current == conn.client = g /\ conn.gen = g
             cleared == [NoRunner EXCEPT !.at = "clear", !.current = current,
                           !.again = IF current /\ conn.reconnect THEN conn.pending ELSE NoBot]
  <2>1. conn.pending \in Bots \cup {NoBot} BY DEF Typed, ConnTyped
  <2>2. NoRunner \in RunnerType BY DEF NoRunner, RunnerType
  <2>3. cleared \in RunnerType
    <3>1. \A r \in RunnerType, c \in BOOLEAN, a \in Bots \cup {NoBot} :
            [r EXCEPT !.at = "clear", !.current = c, !.again = a] \in RunnerType
      BY DEF RunnerType
    <3>2. (IF current /\ conn.reconnect THEN conn.pending ELSE NoBot) \in Bots \cup {NoBot}
      BY <2>1
    <3> QED BY <2>2, <3>1, <3>2
  <2>4. runner' = [runner EXCEPT ![g] = cleared] BY <1>4 DEF Detach
  <2> HIDE DEF cleared
  <2>5. runner' \in [Gens -> RunnerType] BY <1>1, <2>3, <2>4
  <2>6. WorkersTyped' BY <1>4, <2>5 DEF Detach, Typed, WorkersTyped
  <2>7. TransportTyped' BY <1>4 DEF Detach, Typed, TransportTyped
  <2>8. ConnTyped' BY <1>4 DEF Detach, Typed, ConnTyped
  <2>9. FieldsTyped'
    <3>1. strayStop' \in BOOLEAN /\ dropped' \in BOOLEAN
      BY <1>4 DEF Detach, Typed, FieldsTyped
    <3> QED BY <1>4, <3>1 DEF Detach, Typed, FieldsTyped
  <2> QED BY <1>4, <2>6, <2>7, <2>8, <2>9, GroupsKept DEF Detach, Typed
<1>5. CASE ClearGateway(g)
  <2>1. runner' \in [Gens -> RunnerType] BY <1>1, <1>5 DEF ClearGateway, RunnerType
  <2>2. WorkersTyped' BY <1>5, <2>1 DEF ClearGateway, Typed, WorkersTyped
  <2>3. UploadsTyped' BY <1>5 DEF ClearGateway, Typed, UploadsTyped
  <2> QED BY <1>5, <2>2, <2>3, GroupsKept DEF ClearGateway, Typed
<1>6. CASE PostStopped(g)
  <2>1. [kind |-> "stopped", gen |-> g] \in Callbacks BY DEF Callbacks, Kinds
  <2>2. QueueTyped' BY <1>6, <2>1, PostTyped DEF PostStopped
  <2>3. Retryable(g) \in BOOLEAN /\ Fatal(g) \in BOOLEAN BY DEF Retryable, Fatal
  <2>4. runner' \in [Gens -> RunnerType]
    <3>1. runner' = [runner EXCEPT ![g].at = IF Closed THEN "done" ELSE "posted",
                                   ![g].retry = Retryable(g), ![g].fatal = Fatal(g)]
      BY <1>6 DEF PostStopped
    <3>2. \A r \in RunnerType, a \in {"done", "posted"}, b, c \in BOOLEAN :
            [r EXCEPT !.at = a, !.retry = b, !.fatal = c] \in RunnerType
      BY DEF RunnerType
    <3> DEFINE r == [runner[g] EXCEPT !.at = IF Closed THEN "done" ELSE "posted",
                                      !.retry = Retryable(g), !.fatal = Fatal(g)]
    <3>3. r \in RunnerType BY <1>1, <2>3, <3>2
    <3>4. runner' = [runner EXCEPT ![g] = r] BY <1>1, <3>1
    <3> HIDE DEF r
    <3> QED BY <1>1, <3>3, <3>4
  <2>5. WorkersTyped' BY <1>6, <2>4 DEF PostStopped, Typed, WorkersTyped
  <2>6. TransportTyped' BY <1>6 DEF PostStopped, Typed, TransportTyped, Reasons
  <2> QED BY <1>6, <2>2, <2>5, <2>6, GroupsKept DEF PostStopped, Typed
<1>7. CASE WaitReady(g)
  <2>1. WorkersTyped' BY <1>1, <1>7 DEF WaitReady, Typed, WorkersTyped
  <2> QED BY <1>7, <2>1, GroupsKept DEF WaitReady, Typed
<1>8. CASE PostReady(g)
  <2>1. [kind |-> "ready", gen |-> g] \in Callbacks BY DEF Callbacks, Kinds
  <2>2. QueueTyped' BY <1>8, <2>1, PostTyped DEF PostReady
  <2>3. WorkersTyped' BY <1>1, <1>8 DEF PostReady, Typed, WorkersTyped
  <2> QED BY <1>8, <2>2, <2>3, GroupsKept DEF PostReady, Typed
<1>9. CASE LinkChanges(g)
  <2>1. PICK kind \in {"down", "up"} : Post(kind, g) BY <1>9 DEF LinkChanges
  <2>2. [kind |-> kind, gen |-> g] \in Callbacks BY DEF Callbacks, Kinds
  <2>3. QueueTyped' BY <2>1, <2>2, PostTyped
  <2> QED BY <1>9, <2>3, GroupsKept DEF LinkChanges, Typed
<1> QED BY <1>2, <1>3, <1>4, <1>5, <1>6, <1>7, <1>8, <1>9 DEF RunClient

-----------------------------------------------------------------------------
LEMMA InitTyped == Init => Typed
<1> SUFFICES ASSUME Init PROVE Typed OBVIOUS
<1>0. MaxGen \in Nat /\ MaxTimers \in Nat /\ Configured \subseteq Bots \cup {NoBot}
      /\ Stored \subseteq Bots \cup {NoBot, Unreadable}
  BY ClientConstants, ConnectionConstants DEF ClientConstants, ConnectionConstants
<1>1. TransportTyped BY <1>0 DEF Init, TransportTyped, Stages, Reasons
<1>2. UploadsTyped BY DEF Init, UploadsTyped, NoRequest
<1>3. ConnTyped BY <1>0 DEF Init, ConnTyped, NoGen
<1>4. QueueTyped
  <2>1. [kind |-> "ensure", gen |-> NoGen] \in Callbacks BY DEF Callbacks
  <2> QED BY <2>1 DEF Init, QueueTyped
<1>5. TimerTyped BY <1>0 DEF Init, TimerTyped, NoTimer
<1>6. FieldsTyped BY <1>0 DEF Init, FieldsTyped, Blank
<1>7. WorkersTyped BY DEF Init, WorkersTyped, NoAttempt, AttemptType, NoRunner, RunnerType
<1> QED BY <1>1, <1>2, <1>3, <1>4, <1>5, <1>6, <1>7 DEF Typed

LEMMA NextTyped == Typed /\ [Next]_vars => Typed'
<1> SUFFICES ASSUME Typed, [Next]_vars PROVE Typed' OBVIOUS
<1>1. CASE UNCHANGED vars BY <1>1, GroupsKept DEF vars, window, Typed
<1>2. CASE Interface BY <1>2, UserTypes, CallbackTypes, ShutdownTypes DEF Interface
<1>3. CASE TimerFires \/ TimerDelivers BY <1>3, TimerTypes
<1>4. CASE UploadStep BY <1>4, UploadTypes
<1>5. ASSUME NEW g \in Gens, Worker(g) \/ TransportStep(g) \/ LinkChanges(g) PROVE Typed'
  BY <1>5, TransportTypes, AttemptTypes, ClientTypes DEF Worker
<1> QED BY <1>1, <1>2, <1>3, <1>4, <1>5 DEF Next, Over

\* The types hold in every reachable state.
THEOREM ConnectionTyped == Spec => []Typed
<1>1. Init => Typed BY InitTyped
<1>2. Typed /\ [Next]_vars => Typed' BY NextTyped
<1> QED BY <1>1, <1>2, PTL DEF Spec

\* The type invariant that TLC checks of the window and its clients.
THEOREM ConnectionTypeOK == Spec => []ConnTypeOK
<1>1. Typed => ConnTypeOK BY TypedIsTypeOK
<1> QED BY <1>1, ConnectionTyped, PTL
=============================================================================
