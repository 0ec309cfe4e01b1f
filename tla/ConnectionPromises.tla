-------------------------- MODULE ConnectionPromises --------------------------
(***************************************************************************)
(* What the window promises its user about the connection: that it says    *)
(* "connected" only when it is, with the configuration entered last, and   *)
(* that it is never left without a client and without a way to get one.    *)
(* The invariant Watched holds while the window is open.  It follows the   *)
(* flags connecting and reconnect through the hands they pass: the         *)
(* attempt, the client, the clean-up after it and the callback that ends   *)
(* the clean-up.                                                           *)
(***************************************************************************)
EXTENDS ConnectionOwner

Trying == {"save", "make", "fail"}
Queued(kind, g) == \E i \in 1..Len(queue) : queue[i] = [kind |-> kind, gen |-> g]

-----------------------------------------------------------------------------
(* The client, the gateway and the flags.                                  *)

ClientIsMade == conn.client # NoGen => life[conn.client] # "none"

\* The uploads have the client of the window until it is to be replaced.
GatewayHeld == conn.client # NoGen /\ ~conn.reconnect => gateway = conn.client

\* While a client is made or its failure is told there is none, and nothing else connects.
AttemptBlocks ==
  \A g \in Gens : attempt[g].at \in Before /\ conn.gen = g =>
    conn.client = NoGen /\ (attempt[g].at \in Trying => conn.connecting)

\* ... nor while the end of a client is on its way to the window.
StopBlocks ==
  \A g \in Gens : StopOnTheWay(g) => conn.client = NoGen /\ conn.gen = g /\ conn.connecting

\* Only a client can be replaced, and the uploads do not run then.
ReplacesClient == conn.reconnect => conn.client # NoGen /\ ~running

\* The interface thread cuts off a client that is to be replaced, or has ended meanwhile.
CutHolds ==
  ui.at = "cut" =>
    life[ui.gen] # "none" /\ (conn.reconnect \/ \E g \in Gens : StopOnTheWay(g))

ConnectedHasClient ==
  win.connected => \/ conn.client # NoGen /\ ~conn.reconnect
                   \/ \E g \in Gens : StopOnTheWay(g)

\* A callback that has run left nothing behind.
DoneIsOver == \A g \in Gens : runner[g].at = "done" => ~runner[g].current

Steady ==
  /\ DoneIsOver /\ ClientIsMade /\ GatewayHeld /\ AttemptBlocks /\ StopBlocks
  /\ ReplacesClient /\ CutHolds /\ ConnectedHasClient

-----------------------------------------------------------------------------
(* The configuration.                                                      *)

ClientIsWanted ==
  conn.client # NoGen =>
    IF conn.reconnect THEN conn.pending = wanted /\ wanted # NoBot
    ELSE botOf[conn.client] = wanted /\ conn.applied = wanted

AttemptIsWanted ==
  \A g \in Gens : conn.gen = g /\ attempt[g].at \in {"save", "make"} =>
    attempt[g].bot = wanted /\ (attempt[g].at = "make" => conn.applied = wanted)

\* What the callback will connect with, or an automatic attempt after it.
StopIsWanted ==
  \A g \in Gens : StopOnTheWay(g) =>
    IF runner[g].again = NoBot THEN conn.applied = wanted
    ELSE runner[g].again = wanted /\ ~running /\ ~win.connected

AppliedIsWanted ==
  ~conn.connecting /\ conn.client = NoGen /\ conn.applied # NoBot /\ conn.gen < MaxGen =>
    conn.applied = wanted

Newest == ClientIsWanted /\ AttemptIsWanted /\ StopIsWanted /\ AppliedIsWanted

-----------------------------------------------------------------------------
(* Somebody goes on.                                                       *)

ConnectingEnds ==
  conn.connecting =>
    \/ conn.client # NoGen
    \/ \E g \in Gens : conn.gen = g /\ (attempt[g].at \in Trying \/ StopOnTheWay(g))

HandleIsTimer == timer.handle = "fired" => timer.fired > 0

\* A client that is not made yet is neither cancelled nor ended.
Unmade == \A g \in Gens : life[g] = "none" => why[g] = "none" /\ g \notin dead

EndHasReason ==
  \A g \in Gens :
    \/ life[g] \in {"closing", "idle"}
    \/ life[g] = "ended" /\ runner[g].at \in {"run", "detach", "clear", "post"}
    => why[g] # "none"

\* In an open window only a client that is to be replaced is cancelled.
CancelledIsReplaced ==
  conn.client # NoGen /\ ~conn.reconnect =>
    conn.client \notin dead /\ why[conn.client] # "cancelled"

\* An end that is not replaced is retried, or refused for good, or a stray stop.
StopIsHandled ==
  \A g \in Gens : StopOnTheWay(g) /\ runner[g].again = NoBot =>
    IF runner[g].at = "posted" THEN runner[g].retry \/ runner[g].fatal \/ strayStop
    ELSE why[g] = "transient" \/ Fatal(g) \/ (why[g] = "clean" /\ strayStop)

Reason ==
  \/ RetryComes \/ win.configErr \/ Saved = NoBot \/ strayStop \/ dropped
  \/ Queued("ensure", NoGen)
  \/ \E g \in Gens : conn.gen = g /\ (attempt[g].at = "report" \/ Queued("failed", g))

IdleHasReason ==
  ~conn.connecting /\ conn.client = NoGen /\ conn.gen < MaxGen => Reason

Attended ==
  /\ ConnectingEnds /\ HandleIsTimer /\ Unmade /\ EndHasReason /\ CancelledIsReplaced
  /\ StopIsHandled /\ IdleHasReason

Watched == exit = "open" => Steady /\ Newest /\ Attended

\* The callback of a client that is cleaned up is posted.
PostedIsQueued ==
  exit = "open" => \A g \in Gens : runner[g].at = "posted" => Queued("stopped", g)

-----------------------------------------------------------------------------
(* Callbacks in the queue.                                                 *)

LEMMA PostQueues ==
  ASSUME Typed, exit = "open", NEW kind, NEW g, [kind |-> kind, gen |-> g] \in Callbacks,
         Post(kind, g)
  PROVE  Queued(kind, g)' /\ \A k, h : Queued(k, h) => Queued(k, h)'
<1>1. queue \in Seq(Callbacks) BY DEF Typed, QueueTyped
<1>2. queue' = Append(queue, [kind |-> kind, gen |-> g]) BY DEF Post, Closed
<1>3. /\ Len(queue') = Len(queue) + 1 /\ Len(queue) \in Nat
      /\ queue'[Len(queue) + 1] = [kind |-> kind, gen |-> g]
      /\ \A i \in 1..Len(queue) : queue'[i] = queue[i]
  BY <1>1, <1>2
<1> QED BY <1>3 DEF Queued

LEMMA TakeQueues ==
  ASSUME Typed, queue # <<>>, queue' = Tail(queue)
  PROVE  \A k, h : Queued(k, h) => Queued(k, h)' \/ (Head1.kind = k /\ Head1.gen = h)
<1>1. queue \in Seq(Callbacks) BY DEF Typed, QueueTyped
<1>2. /\ Len(queue) \in Nat /\ Len(queue) > 0 /\ Len(queue') = Len(queue) - 1
      /\ \A i \in 1..Len(queue') : queue'[i] = queue[i + 1]
  BY <1>1
<1>3. ASSUME NEW k, NEW h, NEW i \in 1..Len(queue), queue[i] = [kind |-> k, gen |-> h]
      PROVE  Queued(k, h)' \/ (Head1.kind = k /\ Head1.gen = h)
  <2>1. CASE i = 1 BY <1>3, <2>1 DEF Head1
  <2>2. CASE i # 1
    <3>1. i - 1 \in 1..Len(queue') /\ queue'[i - 1] = [kind |-> k, gen |-> h]
      BY <1>2, <1>3, <2>2
    <3> QED BY <3>1 DEF Queued
  <2> QED BY <2>1, <2>2
<1> QED BY <1>3 DEF Queued

-----------------------------------------------------------------------------
(* Steps outside of the window.                                            *)

\* A step that only posts, or takes what is nobody's reason to wait.
LEMMA WatchedFrame ==
  ASSUME Watched, UNCHANGED <<conn, ui, win, timer, attempt, runner, exit, wanted, strayStop, dropped>>,
         UNCHANGED <<life, botOf, dead, why, gateway>>, running' => running,
         \A g : /\ Queued("ensure", g) => Queued("ensure", g)'
                /\ Queued("failed", g) => Queued("failed", g)'
  PROVE  Watched'
<1> USE DEF Watched
<1> SUFFICES ASSUME exit = "open" PROVE (Steady /\ Newest /\ Attended)' OBVIOUS
<1>1. Steady'
  BY DEF Steady, DoneIsOver, ClientIsMade, GatewayHeld, AttemptBlocks, StopBlocks, StopOnTheWay,
     ReplacesClient, CutHolds, ConnectedHasClient
<1>2. Newest'
  BY DEF Newest, ClientIsWanted, AttemptIsWanted, StopIsWanted, AppliedIsWanted, StopOnTheWay
<1>3. ConnectingEnds' /\ HandleIsTimer' /\ Unmade' /\ EndHasReason' /\ CancelledIsReplaced'
      /\ StopIsHandled'
  BY DEF Attended, ConnectingEnds, StopOnTheWay, HandleIsTimer, Unmade, EndHasReason,
     CancelledIsReplaced, StopIsHandled, Fatal
<1>4. IdleHasReason' BY DEF Attended, IdleHasReason, Reason, RetryComes, Saved
<1> QED BY <1>1, <1>2, <1>3, <1>4 DEF Attended

\* Run of a client.
LEMMA WatchedTransport ==
  ASSUME Typed, Owned, Watched, NEW g \in Gens, TransportStep(g)
  PROVE  Watched'
<1>1. /\ life[g] \in Active /\ UNCHANGED <<botOf, dead, gateway, window>> /\ running' = running
      /\ why \in [Gens -> Reasons]
  BY DEF TransportStep, Transport, Login, LoginFails, Ready, Stop, RequestsDone, PoolClosed,
     Active, uploads, Typed, TransportTyped
<1>2. /\ \A h \in Gens \ {g} : life'[h] = life[h] /\ why'[h] = why[h]
      /\ life'[g] \in Active \cup {"ended"}
      /\ \/ why'[g] = why[g] /\ (life'[g] \in {"closing", "idle", "ended"}
                                  => life[g] \in {"closing", "idle"})
         \/ why'[g] \in Reasons \ {"none"} /\ (why'[g] = "cancelled" => g \in dead)
  <2> USE <1>1, Shapes DEF Becomes, Ends, Active, Reasons
  <2>1. CASE Login(g) BY <2>1 DEF Login
  <2>2. CASE LoginFails(g) BY <2>2 DEF LoginFails
  <2>3. CASE Ready(g) BY <2>3 DEF Ready
  <2>4. CASE Stop(g) BY <2>4 DEF Stop
  <2>5. CASE RequestsDone(g) BY <2>5 DEF RequestsDone
  <2>6. CASE PoolClosed(g) BY <2>6 DEF PoolClosed
  <2> QED BY <2>1, <2>2, <2>3, <2>4, <2>5, <2>6 DEF TransportStep, Transport
<1>3. UNCHANGED <<conn, attempt, runner, exit, queue, win, ui, timer, wanted, strayStop, dropped>>
  BY <1>1 DEF window
<1>4. exit = "open" => conn.client = g
  BY <1>1, Shapes DEF Owned, Ownership, OwnerIsClient, Owner
<1>5. runner[g].at = "run" BY <1>1 DEF Owned, Order, RunnerFollows
<1> SUFFICES ASSUME exit = "open" PROVE (Steady /\ Newest /\ Attended)'
  BY <1>3 DEF Watched
<1> USE DEF Watched, Active
<1>6. Steady'
  BY <1>1, <1>2, <1>3, Shapes
     DEF Typed, FieldsTyped, Steady, DoneIsOver, ClientIsMade, GatewayHeld, AttemptBlocks,
         StopBlocks, StopOnTheWay, ReplacesClient, CutHolds, ConnectedHasClient
<1>7. Newest'
  BY <1>1, <1>2, <1>3 DEF Newest, ClientIsWanted, AttemptIsWanted, StopIsWanted,
     AppliedIsWanted,
     StopOnTheWay
<1>8. Attended'
  <2> USE DEF Attended
  <2>1. ConnectingEnds' /\ HandleIsTimer'
    BY <1>3 DEF ConnectingEnds, StopOnTheWay, HandleIsTimer
  <2>2. Unmade' BY <1>1, <1>2 DEF Unmade
  <2>3. EndHasReason' BY <1>1, <1>2, <1>3 DEF EndHasReason
  <2>4. CancelledIsReplaced' BY <1>1, <1>2, <1>3, <1>4 DEF CancelledIsReplaced
  <2>5. StopIsHandled' BY <1>1, <1>2, <1>3, <1>5 DEF StopIsHandled, StopOnTheWay, Fatal
  <2>6. IdleHasReason' BY <1>3 DEF IdleHasReason, Reason, RetryComes, Saved, Queued
  <2> QED BY <2>1, <2>2, <2>3, <2>4, <2>5, <2>6
<1> QED BY <1>6, <1>7, <1>8

\* The upload goroutine.
LEMMA WatchedUploads ==
  ASSUME Typed, Watched, UploadStep
  PROVE  Watched'
<1>1. UNCHANGED <<transport, window, gateway>> /\ (running' => running)
  BY DEF UploadStep, Uploading, CaptureGateway, BeginRequest, EndRequest, EndQueue
<1> QED BY <1>1, WatchedFrame DEF window, transport, Queued

\* Retry timers.
LEMMA WatchedTimers ==
  ASSUME Typed, Owned, Watched, TimerFires \/ TimerDelivers
  PROVE  Watched'
<1>1. UNCHANGED <<conn, attempt, runner, exit, win, ui, wanted, strayStop, dropped,
                  life, why, dead, botOf, gateway, running>>
  BY DEF TimerFires, TimerDelivers, transport, uploads
<1> SUFFICES ASSUME exit = "open" PROVE (Steady /\ Newest /\ Attended)'
  BY <1>1 DEF Watched
<1> USE DEF Watched
<1>2. Steady'
  BY <1>1
     DEF Steady, DoneIsOver, ClientIsMade, GatewayHeld, AttemptBlocks, StopBlocks, StopOnTheWay,
         ReplacesClient, CutHolds, ConnectedHasClient
<1>3. Newest'
  BY <1>1 DEF Newest, ClientIsWanted, AttemptIsWanted, StopIsWanted, AppliedIsWanted,
     StopOnTheWay
<1>4. ConnectingEnds' /\ Unmade' /\ EndHasReason' /\ CancelledIsReplaced' /\ StopIsHandled'
  BY <1>1 DEF Attended, ConnectingEnds, StopOnTheWay, Unmade, EndHasReason,
     CancelledIsReplaced, StopIsHandled, Fatal
<1>5. MaxTimers \in Nat BY ConnectionConstants DEF ConnectionConstants
<1>6. /\ timer = [handle |-> timer.handle, armed |-> timer.armed, fired |-> timer.fired]
      /\ timer.armed \in Nat /\ timer.fired \in Nat
  BY <1>5 DEF Typed, TimerTyped
<1>7. CASE TimerFires
  <2>1. timer'.fired = timer.fired + 1 /\ timer'.armed = timer.armed - 1 /\ timer.armed > 0
    BY <1>6, <1>7 DEF TimerFires
  <2>2. HandleIsTimer' BY <1>6, <2>1 DEF HandleIsTimer
  <2>3. queue' = queue BY <1>7 DEF TimerFires
  <2>4. IdleHasReason'
    BY <1>1, <1>6, <2>1, <2>3 DEF Attended, IdleHasReason, Reason, RetryComes, Saved, Queued
  <2> QED BY <1>2, <1>3, <1>4, <2>2, <2>4 DEF Attended
<1>8. CASE TimerDelivers
  <2>1. timer'.handle = "nil" BY <1>6, <1>8 DEF TimerDelivers
  <2>2. HandleIsTimer' BY <2>1 DEF HandleIsTimer
  <2>3. [kind |-> "ensure", gen |-> NoGen] \in Callbacks BY DEF Callbacks
  <2>4. Queued("ensure", NoGen)' BY <1>8, <2>3, PostQueues DEF TimerDelivers
  <2>5. IdleHasReason' BY <2>4 DEF IdleHasReason, Reason
  <2> QED BY <1>2, <1>3, <1>4, <2>2, <2>5 DEF Attended
<1> QED BY <1>7, <1>8

-----------------------------------------------------------------------------
(* The interface thread.                                                   *)

\* A new attempt, when nothing is on the way that could end another one.
LEMMA WatchedConnecting ==
  ASSUME Typed, Owned, Watched, UIFree, NEW bot, NEW auto \in BOOLEAN, Connecting(bot, auto),
         conn.gen < MaxGen, conn.client = NoGen, UNCHANGED <<transport, uploads, ui, exit>>,
         \A g \in Gens : ~StopOnTheWay(g)', ~win'.connected,
         \A g \in Gens :
           runner'[g] = runner[g] \/ (runner'[g].at = "done" /\ ~runner'[g].current),
         bot = wanted', auto /\ conn.applied # NoBot => conn.applied = bot
  PROVE  Watched'
<1> DEFINE n == conn.gen + 1
<1>1. n \in Gens /\ exit = "open" /\ exit' = "open" /\ ui'.at = "free"
  BY Shapes DEF UIFree, Closed
<1>2. /\ conn'.gen = n /\ conn'.client = NoGen /\ conn'.connecting /\ ~conn'.reconnect
      /\ attempt'[n].at = (IF auto THEN "make" ELSE "save") /\ attempt'[n].bot = bot
      /\ conn'.applied = (IF auto /\ conn.applied = NoBot THEN bot ELSE conn.applied)
  <2>1. conn' = [conn EXCEPT !.connecting = TRUE, !.gen = n,
                             !.applied = IF auto /\ @ = NoBot THEN bot ELSE @]
        /\ attempt' = [attempt EXCEPT ![n] = [at |-> IF auto THEN "make" ELSE "save",
                                              bot |-> bot, auto |-> auto]]
    BY DEF Connecting
  <2>2. conn'.gen = n /\ conn'.client = conn.client /\ conn'.connecting
        /\ conn'.reconnect = conn.reconnect
        /\ conn'.applied = (IF auto /\ conn.applied = NoBot THEN bot ELSE conn.applied)
    BY <2>1 DEF Typed, ConnTyped
  <2>3. ~conn.reconnect BY <1>1 DEF Watched, Steady, ReplacesClient
  <2> QED BY <1>1, <2>1, <2>2, <2>3, Shapes
<1>3. UNCHANGED <<life, botOf, dead, why, gateway, running>> BY DEF transport, uploads
<1>4. timer'.handle = "nil"
  BY DEF Connecting, TimerStopped, Typed, TimerTyped
<1> HIDE DEF n
<1>5. Steady'
  BY <1>1, <1>2 DEF Steady, DoneIsOver, ClientIsMade, GatewayHeld, AttemptBlocks, StopBlocks,
     ReplacesClient, CutHolds,
     ConnectedHasClient, Trying, Before, Watched
<1>6. Newest'
  BY <1>1, <1>2 DEF Newest, ClientIsWanted, AttemptIsWanted, StopIsWanted, AppliedIsWanted
<1>7. Attended'
  <2> USE DEF Watched, Attended
  <2>1. ConnectingEnds' BY <1>1, <1>2 DEF ConnectingEnds, Trying
  <2>2. Unmade' /\ EndHasReason' BY <1>1, <1>3 DEF Unmade, EndHasReason
  <2>3. HandleIsTimer' /\ CancelledIsReplaced' /\ StopIsHandled' /\ IdleHasReason'
    BY <1>2, <1>4 DEF HandleIsTimer, CancelledIsReplaced, StopIsHandled, IdleHasReason
  <2> QED BY <2>1, <2>2, <2>3
<1> QED BY <1>5, <1>6, <1>7 DEF Watched

\* ensureConnection; a callback that asked for it and is refused had a reason.
LEMMA WatchedEnsure ==
  ASSUME Typed, Owned, Watched, UIFree, Ensure,
         UNCHANGED <<transport, uploads, ui, runner, exit, wanted>>,
         \A g \in Gens : Queued("failed", g) => Queued("failed", g)',
         MayEnsure \/ \A k, g : k # "ensure" /\ Queued(k, g) => Queued(k, g)'
  PROVE  Watched'
<1>1. exit = "open" BY DEF UIFree, Closed
<1> USE <1>1 DEF Watched
<1>2. CASE MayEnsure /\ Connecting(Saved, TRUE) /\ win' = [win EXCEPT !.connected = FALSE]
  <2>1. /\ Connecting(Saved, TRUE) /\ conn.gen < MaxGen /\ conn.client = NoGen
        /\ ~conn.connecting /\ win' = [win EXCEPT !.connected = FALSE]
    BY <1>2 DEF MayEnsure
  <2>2. \A g \in Gens : ~StopOnTheWay(g)' BY <2>1 DEF Steady, StopBlocks, StopOnTheWay
  <2>3. Saved = wanted' /\ (conn.applied # NoBot => conn.applied = Saved)
    BY <2>1 DEF Saved, Newest, AppliedIsWanted
  <2>4. ~win'.connected BY <2>1 DEF Typed, FieldsTyped
  <2> QED BY <2>1, <2>2, <2>3, <2>4, WatchedConnecting
<1>3. CASE ~MayEnsure
  <2>1. UNCHANGED <<conn, attempt, timer, win, strayStop, dropped>> BY <1>3 DEF Ensure
  <2>2. UNCHANGED <<life, botOf, dead, why, gateway, running>> BY DEF transport, uploads
  <2>3. Steady'
    BY <2>1, <2>2 DEF Steady, DoneIsOver, ClientIsMade, GatewayHeld, AttemptBlocks, StopBlocks,
       StopOnTheWay,
       ReplacesClient, CutHolds, ConnectedHasClient
  <2>4. Newest'
    BY <2>1, <2>2 DEF Newest, ClientIsWanted, AttemptIsWanted, StopIsWanted, AppliedIsWanted,
       StopOnTheWay
  <2>5. ConnectingEnds' /\ HandleIsTimer' /\ Unmade' /\ EndHasReason' /\ CancelledIsReplaced'
        /\ StopIsHandled'
    BY <2>1, <2>2 DEF Attended, ConnectingEnds, StopOnTheWay, HandleIsTimer, Unmade,
       EndHasReason, CancelledIsReplaced, StopIsHandled, Fatal
  <2>6. IdleHasReason'
    BY <1>3, <2>1 DEF IdleHasReason, MayEnsure, Reason, Saved
  <2> QED BY <2>3, <2>4, <2>5, <2>6 DEF Attended
<1>4. CASE FieldsRefused
  <2>1. UNCHANGED <<conn, attempt, timer, strayStop, dropped>> BY <1>4 DEF FieldsRefused
  <2>2. ~win'.connected /\ win'.configErr
    BY <1>4 DEF FieldsRefused, Typed, FieldsTyped
  <2>3. UNCHANGED <<life, botOf, dead, why, gateway, running>> BY DEF transport, uploads
  <2>4. Steady'
    BY <2>1, <2>2, <2>3 DEF Steady, DoneIsOver, ClientIsMade, GatewayHeld, AttemptBlocks,
       StopBlocks, StopOnTheWay, ReplacesClient, CutHolds, ConnectedHasClient
  <2>5. Newest'
    BY <2>1, <2>2, <2>3 DEF Newest, ClientIsWanted, AttemptIsWanted, StopIsWanted,
       AppliedIsWanted, StopOnTheWay
  <2>6. ConnectingEnds' /\ Unmade' /\ EndHasReason' /\ CancelledIsReplaced' /\ StopIsHandled'
    BY <2>1, <2>3 DEF Attended, ConnectingEnds, StopOnTheWay, Unmade, EndHasReason,
       CancelledIsReplaced, StopIsHandled, Fatal
  <2>7. HandleIsTimer' BY <2>1 DEF Attended, HandleIsTimer
  <2>8. IdleHasReason' BY <2>2 DEF IdleHasReason, Reason
  <2> QED BY <2>4, <2>5, <2>6, <2>7, <2>8 DEF Attended
<1> QED BY <1>2, <1>3, <1>4 DEF Ensure

\* What the user and the schedule do.
LEMMA WatchedUser ==
  ASSUME Typed, Owned, Watched, \/ ScheduleEnsures \/ PressInvalid \/ CutOff \/ StartQueue
                                \/ \E bot \in Bots : Connect(bot) \/ Reconnect(bot)
  PROVE  Watched'
<1>1. exit' = exit
  BY DEF ScheduleEnsures, PressInvalid, CutOff, StartQueue, Connect, Reconnect, window
<1> SUFFICES ASSUME exit = "open" PROVE Watched' BY <1>1 DEF Watched
<1>2. CASE ScheduleEnsures
  <2>1. /\ UIFree /\ Ensure /\ MayEnsure
        /\ UNCHANGED <<transport, uploads, ui, queue, runner, exit, wanted>>
    BY <1>2 DEF ScheduleEnsures
  <2>2. \A g \in Gens : Queued("failed", g) => Queued("failed", g)' BY <2>1 DEF Queued
  <2> QED BY <2>1, <2>2, WatchedEnsure
<1>3. ASSUME NEW bot \in Bots, Connect(bot) PROVE Watched'
  <2>1. /\ UIFree /\ Connecting(bot, FALSE) /\ conn.gen < MaxGen /\ conn.client = NoGen
        /\ ~conn.connecting /\ wanted' = bot
        /\ UNCHANGED <<transport, uploads, exit, runner, ui>>
    BY <1>3 DEF Connect
  <2>2. \A g \in Gens : ~StopOnTheWay(g) BY <2>1 DEF Watched, Steady, StopBlocks
  <2>3. \A g \in Gens : ~StopOnTheWay(g)' BY <2>1, <2>2 DEF StopOnTheWay
  <2>4. ~win.connected BY <2>1, <2>2 DEF Watched, Steady, ConnectedHasClient
  <2>5. ~win'.connected BY <1>3, <2>4 DEF Connect, Typed, FieldsTyped
  <2> QED BY <2>1, <2>3, <2>5, WatchedConnecting
<1> USE DEF Watched
<1>4. ASSUME NEW bot \in Bots, Reconnect(bot) PROVE Watched'
  <2>1. /\ ~running /\ conn.client # NoGen
        /\ UNCHANGED <<transport, uploads, queue, attempt, runner, exit, strayStop, dropped>>
        /\ wanted' = bot /\ ui' = [at |-> "cut", gen |-> conn.client]
        /\ timer' = TimerStopped
    BY <1>4 DEF Reconnect
  <2>2. /\ conn'.client = conn.client /\ conn'.gen = conn.gen /\ conn'.connecting
        /\ conn'.reconnect /\ conn'.pending = bot /\ conn'.applied = conn.applied
    BY <1>4 DEF Reconnect, Typed, ConnTyped
  <2>3. ~win'.connected BY <1>4 DEF Reconnect, Typed, FieldsTyped
  <2>4. UNCHANGED <<life, botOf, dead, why, gateway, running>> BY <2>1 DEF transport, uploads
  <2>5. life[conn.client] # "none" /\ conn.client \in Gens
    BY <2>1, Shapes DEF Steady, ClientIsMade
  <2>6. bot # NoBot BY ClientConstants DEF ClientConstants
  <2>7. \A g \in Gens : ~StopOnTheWay(g) BY <2>1 DEF Steady, StopBlocks
  <2>8. \A g \in Gens : ~StopOnTheWay(g)' BY <2>1, <2>7 DEF StopOnTheWay
  <2>9. Steady'
    BY <2>1, <2>2, <2>3, <2>4, <2>5, <2>8 DEF Steady, DoneIsOver, ClientIsMade, GatewayHeld,
       AttemptBlocks, StopBlocks,
       ReplacesClient, CutHolds, ConnectedHasClient
  <2>10. Newest'
    BY <2>1, <2>2, <2>3, <2>4, <2>6, <2>8 DEF Before, Newest, ClientIsWanted, AttemptIsWanted,
       StopIsWanted,
       AppliedIsWanted, Steady, AttemptBlocks
  <2>11. Attended'
    <3>1. timer'.handle = "nil" BY <2>1 DEF TimerStopped, Typed, TimerTyped
    <3> QED BY <2>1, <2>2, <2>4, <2>8, <3>1
            DEF Attended, ConnectingEnds, HandleIsTimer, Unmade, EndHasReason,
                CancelledIsReplaced, StopIsHandled, IdleHasReason
  <2> QED BY <2>9, <2>10, <2>11
<1>5. CASE CutOff
  <2>1. /\ ui.at = "cut" /\ gateway' = NoGen /\ dead' = dead \cup {ui.gen} /\ ui'.at = "free"
        /\ UNCHANGED <<life, botOf, why, running, conn, queue, win, timer, attempt, runner,
                       wanted, strayStop, dropped>>
    BY <1>5 DEF CutOff
  <2>2. ui.gen \in Gens BY <2>1 DEF Typed, FieldsTyped
  <2>3. conn.client = NoGen \/ conn.reconnect
    BY <2>1 DEF Steady, CutHolds, StopBlocks
  <2>4. Steady'
    BY <2>1, <2>3 DEF Steady, DoneIsOver, ClientIsMade, GatewayHeld, AttemptBlocks, StopBlocks,
       StopOnTheWay,
       ReplacesClient, CutHolds, ConnectedHasClient
  <2>5. Newest'
    BY <2>1 DEF Newest, ClientIsWanted, AttemptIsWanted, StopIsWanted, AppliedIsWanted,
       StopOnTheWay
  <2>6. Unmade' /\ CancelledIsReplaced'
    BY <2>1, <2>2, <2>3 DEF Attended, Unmade, CancelledIsReplaced, Steady, CutHolds
  <2>7. ConnectingEnds' /\ HandleIsTimer' /\ EndHasReason' /\ StopIsHandled' /\ IdleHasReason'
    BY <2>1 DEF Attended, ConnectingEnds, StopOnTheWay, HandleIsTimer, EndHasReason,
       StopIsHandled, Fatal, IdleHasReason, Reason, RetryComes, Saved, Queued
  <2> QED BY <2>4, <2>5, <2>6, <2>7 DEF Attended
<1>6. CASE StartQueue
  <2>1. UNCHANGED <<conn, attempt, runner, queue, win, ui, timer, wanted, strayStop, dropped,
                    life, why, dead, botOf, gateway>> /\ win.connected
    BY <1>6 DEF StartQueue, window, transport
  <2>2. ~conn.reconnect BY <2>1 DEF Steady, ConnectedHasClient, StopBlocks, ReplacesClient
  <2>3. Steady'
    BY <2>1, <2>2 DEF Steady, DoneIsOver, ClientIsMade, GatewayHeld, AttemptBlocks, StopBlocks,
       StopOnTheWay,
       ReplacesClient, CutHolds, ConnectedHasClient
  <2>4. Newest'
    BY <2>1 DEF Newest, ClientIsWanted, AttemptIsWanted, StopIsWanted, AppliedIsWanted,
       StopOnTheWay
  <2>5. Attended'
    BY <2>1 DEF Attended, ConnectingEnds, StopOnTheWay, HandleIsTimer, Unmade, EndHasReason,
       CancelledIsReplaced, StopIsHandled, Fatal, IdleHasReason, Reason, RetryComes, Saved,
       Queued
  <2> QED BY <2>3, <2>4, <2>5
<1>7. CASE PressInvalid
  <2>1. UNCHANGED <<conn, attempt, runner, queue, win, ui, wanted, strayStop,
                    life, why, dead, botOf, gateway, running>>
        /\ ~conn.connecting
    BY <1>7 DEF PressInvalid, transport, uploads
  <2>2. Steady'
    BY <2>1 DEF Steady, DoneIsOver, ClientIsMade, GatewayHeld, AttemptBlocks, StopBlocks,
       StopOnTheWay, ReplacesClient, CutHolds, ConnectedHasClient
  <2>3. Newest'
    BY <2>1 DEF Newest, ClientIsWanted, AttemptIsWanted, StopIsWanted, AppliedIsWanted,
       StopOnTheWay
  <2>4. ConnectingEnds' /\ Unmade' /\ EndHasReason' /\ CancelledIsReplaced' /\ StopIsHandled'
    BY <2>1 DEF Attended, ConnectingEnds, StopOnTheWay, Unmade, EndHasReason,
       CancelledIsReplaced, StopIsHandled, Fatal, Queued
  <2>5. /\ timer'.handle = "nil" /\ timer'.fired = timer.fired
        /\ timer.handle # "armed" => timer'.armed = timer.armed
    BY <1>7 DEF PressInvalid, TimerStopped, Typed, TimerTyped
  <2>6. HandleIsTimer' BY <2>5 DEF HandleIsTimer
  <2>7. RetryComes => RetryComes' \/ dropped'
    BY <1>7, <2>5 DEF PressInvalid, RetryComes
  <2>8. dropped => dropped' BY <1>7 DEF PressInvalid
  <2>9. IdleHasReason'
    BY <2>1, <2>7, <2>8 DEF Attended, IdleHasReason, Reason, Saved, Queued
  <2> QED BY <2>2, <2>3, <2>4, <2>6, <2>9 DEF Attended
<1> QED BY <1>2, <1>3, <1>4, <1>5, <1>6, <1>7

\* The callbacks that concern a client: of the current one, or too late.
LEMMA WatchedNews ==
  ASSUME Typed, Owned, Watched, RunReady \/ RunState
  PROVE  Watched'
<1>1. /\ exit = "open" /\ exit' = exit /\ queue # <<>> /\ queue' = Tail(queue)
      /\ UNCHANGED <<transport, uploads, ui, attempt, runner, wanted, strayStop, dropped>>
      /\ Head1.kind \in {"ready", "down", "up"}
  BY DEF RunReady, RunState, Take, UIFree, Closed
<1> USE DEF Watched
<1>2. UNCHANGED <<life, botOf, dead, why, gateway, running>> BY <1>1 DEF transport, uploads
<1>3. CASE UNCHANGED <<conn, win, timer>>
  <2>1. \A g : /\ Queued("failed", g) => Queued("failed", g)'
               /\ Queued("ensure", g) => Queued("ensure", g)'
    BY <1>1, TakeQueues
  <2> QED BY <1>1, <1>2, <1>3, <2>1, WatchedFrame
<1>4. CASE conn.client = Head1.gen /\ conn.gen = Head1.gen /\ ~conn.reconnect
  <2>1. Head1 \in Callbacks BY <1>1, TakeTyped
  <2>2. conn.client # NoGen BY <1>1, <1>4, <2>1, Shapes DEF Callbacks
  <2>3. /\ conn'.client = conn.client /\ conn'.gen = conn.gen /\ ~conn'.reconnect
        /\ conn'.applied = conn.applied
    BY <1>4 DEF RunReady, RunState, Typed, ConnTyped
  <2>4. \A g \in Gens : ~StopOnTheWay(g) /\ ~StopOnTheWay(g)'
    BY <1>1, <2>2 DEF Steady, StopBlocks, StopOnTheWay
  <2>5. \A g \in Gens : conn.gen = g => attempt[g].at \notin Before
    BY <1>1, <2>2 DEF Steady, AttemptBlocks
  <2>6. timer'.handle \in {timer.handle, "nil"} /\ timer'.fired = timer.fired
    BY <1>4 DEF RunReady, RunState, TimerStopped, Typed, TimerTyped
  <2>7. Steady'
    BY <1>1, <1>2, <1>4, <2>2, <2>3, <2>4, <2>5
       DEF Steady, DoneIsOver, ClientIsMade, GatewayHeld, AttemptBlocks, StopBlocks,
           ReplacesClient, CutHolds, ConnectedHasClient
  <2>8. Newest'
    BY <1>1, <1>2, <1>4, <2>2, <2>3, <2>4, <2>5
       DEF Newest, ClientIsWanted, AttemptIsWanted, StopIsWanted, AppliedIsWanted, Before
  <2>9. Attended'
    BY <1>1, <1>2, <1>4, <2>2, <2>3, <2>4, <2>6
       DEF Attended, ConnectingEnds, HandleIsTimer, Unmade, EndHasReason,
           CancelledIsReplaced, StopIsHandled, IdleHasReason
  <2> QED BY <2>7, <2>8, <2>9
<1> QED BY <1>3, <1>4 DEF RunReady, RunState

\* A refused attempt is the reason why nothing goes on.
LEMMA WatchedFailed ==
  ASSUME Typed, Owned, Watched, RunFailed
  PROVE  Watched'
<1>1. /\ exit = "open" /\ exit' = exit /\ queue # <<>> /\ queue' = Tail(queue)
      /\ UNCHANGED <<transport, uploads, conn, ui, attempt, runner, wanted, strayStop, dropped>>
      /\ Head1.kind = "failed" /\ (win'.connected => win.connected)
  BY DEF RunFailed, Take, UIFree, Closed, Typed, FieldsTyped
<1> USE DEF Watched
<1>2. UNCHANGED <<life, botOf, dead, why, gateway, running>> BY <1>1 DEF transport, uploads
<1>3. Steady'
  BY <1>1, <1>2
     DEF Steady, DoneIsOver, ClientIsMade, GatewayHeld, AttemptBlocks, StopBlocks, StopOnTheWay,
         ReplacesClient, CutHolds, ConnectedHasClient
<1>4. Newest'
  BY <1>1, <1>2
     DEF Newest, ClientIsWanted, AttemptIsWanted, StopIsWanted, AppliedIsWanted, StopOnTheWay
<1>5. ConnectingEnds' /\ Unmade' /\ EndHasReason' /\ CancelledIsReplaced' /\ StopIsHandled'
  BY <1>1, <1>2
     DEF Attended, ConnectingEnds, StopOnTheWay, Unmade, EndHasReason,
         CancelledIsReplaced, StopIsHandled, Fatal
<1>6. HandleIsTimer' /\ IdleHasReason'
  <2>1. CASE Head1.gen = conn.gen
    <3>1. win'.configErr /\ timer'.handle = "nil"
      BY <2>1 DEF RunFailed, TimerStopped, Typed, FieldsTyped, TimerTyped
    <3> QED BY <3>1 DEF HandleIsTimer, IdleHasReason, Reason
  <2>2. CASE Head1.gen # conn.gen
    <3>1. UNCHANGED <<win, timer>> BY <2>2 DEF RunFailed
    <3>2. Queued("ensure", NoGen) => Queued("ensure", NoGen)' BY <1>1, TakeQueues
    <3>3. \A g \in Gens : conn.gen = g /\ Queued("failed", g) => Queued("failed", g)'
      BY <1>1, <2>2, TakeQueues
    <3> QED BY <1>1, <3>1, <3>2, <3>3
            DEF Attended, HandleIsTimer, IdleHasReason, Reason, RetryComes, Saved
  <2> QED BY <2>1, <2>2
<1> QED BY <1>3, <1>4, <1>5, <1>6 DEF Attended

\* The end of a client: replaced, retried, or told.
LEMMA WatchedStopped ==
  ASSUME Typed, Owned, StoppedAreTold, Watched, RunStopped
  PROVE  Watched'
<1> DEFINE g == Head1.gen
           r == runner[g]
<1>1. /\ exit = "open" /\ exit' = exit /\ queue # <<>> /\ queue' = Tail(queue) /\ UIFree
      /\ UNCHANGED <<transport, uploads, ui, wanted>>
      /\ Head1.kind = "stopped"
      /\ runner' = [runner EXCEPT ![g] = [NoRunner EXCEPT !.at = "done"]]
  BY DEF RunStopped, Take, UIFree, Closed
<1> USE DEF Watched
<1>2. UNCHANGED <<life, botOf, dead, why, gateway, running>> BY <1>1 DEF transport, uploads
<1>3. g \in Gens BY <1>1, TakeTyped DEF Callbacks
<1>4. /\ runner'[g].at = "done" /\ ~runner'[g].current
      /\ \A h \in Gens \ {g} : runner'[h] = runner[h]
  BY <1>1, <1>3, Shapes DEF NoRunner
<1>5. r.at \in Told
  <2>1. 1 \in 1..Len(queue) BY <1>1 DEF Typed, QueueTyped
  <2> QED BY <1>1, <2>1 DEF StoppedAreTold, Head1
<1>6. \A k, h : k # "stopped" /\ Queued(k, h) => Queued(k, h)' BY <1>1, TakeQueues
<1>7. r \in RunnerType BY <1>3, Shapes
<1> DEFINE mine == r.current /\ conn.gen = g /\ conn.client = NoGen
<1>8. CASE ~mine
  <2>1. UNCHANGED <<conn, attempt, win, timer, strayStop, dropped>> BY <1>8 DEF RunStopped
  \* It was not on the way, so nothing that is on the way has gone.
  <2>2. \A h \in Gens : StopOnTheWay(h)' <=> StopOnTheWay(h)
    <3>1. ~StopOnTheWay(g) BY <1>1, <1>3, <1>8 DEF Steady, StopBlocks, StopOnTheWay
    <3> QED BY <1>4, <3>1 DEF StopOnTheWay
  <2> HIDE DEF g
  <2>3. Steady'
    BY <1>1, <1>2, <1>4, <2>1, <2>2
       DEF Steady, DoneIsOver, ClientIsMade, GatewayHeld, AttemptBlocks, StopBlocks,
           ReplacesClient, CutHolds, ConnectedHasClient
  <2>4. \A h \in Gens : StopOnTheWay(h)' => runner'[h] = runner[h]
    BY <1>4 DEF StopOnTheWay
  <2>5. Newest'
    BY <1>1, <1>2, <2>1, <2>2, <2>4
       DEF Newest, ClientIsWanted, AttemptIsWanted, StopIsWanted, AppliedIsWanted
  <2>6. ConnectingEnds' /\ HandleIsTimer' /\ Unmade' /\ CancelledIsReplaced' /\ StopIsHandled'
    BY <1>1, <1>2, <2>1, <2>2, <2>4
       DEF Attended, ConnectingEnds, HandleIsTimer, Unmade, CancelledIsReplaced,
           StopIsHandled, Fatal
  <2>7. EndHasReason' BY <1>1, <1>2, <1>4 DEF Attended, EndHasReason
  <2>8. IdleHasReason'
    BY <1>1, <1>6, <2>1 DEF Attended, IdleHasReason, Reason, RetryComes, Saved
  <2> QED BY <2>3, <2>5, <2>6, <2>7, <2>8 DEF Attended
<1>9. CASE mine /\ r.again # NoBot /\ ~running /\ g < MaxGen
  <2>1. /\ Connecting(r.again, FALSE) /\ conn.gen < MaxGen /\ conn.client = NoGen
        /\ win' = [[win EXCEPT !.connected = FALSE, !.identity = FALSE]
                     EXCEPT !.configErr = FALSE]
    BY <1>9 DEF RunStopped
  <2>2. ~win'.connected BY <2>1 DEF Typed, FieldsTyped
  <2>3. \A h \in Gens : ~StopOnTheWay(h)'
    BY <1>1, <1>4, <1>9 DEF Steady, StopBlocks, StopOnTheWay
  <2>4. r.again = wanted'
    BY <1>1, <1>3, <1>5, <1>9 DEF Newest, StopIsWanted, StopOnTheWay, Told, Steady, DoneIsOver
  <2>5. \A h \in Gens : runner'[h] = runner[h] \/ (runner'[h].at = "done" /\ ~runner'[h].current)
    BY <1>4
  <2> HIDE DEF g
  <2> QED BY <1>1, <2>1, <2>2, <2>3, <2>4, <2>5, WatchedConnecting
<1>10. CASE mine /\ ~(r.again # NoBot /\ ~running /\ g < MaxGen)
  <2>1. /\ conn' = [conn EXCEPT !.connecting = FALSE]
        /\ win' = [[win EXCEPT !.connected = FALSE, !.identity = FALSE]
                     EXCEPT !.configErr = ~r.retry /\ (@ \/ r.fatal)]
        /\ timer' = IF r.retry THEN TimerScheduled ELSE TimerStopped
        /\ UNCHANGED <<attempt, strayStop, dropped>>
    BY <1>10 DEF RunStopped
  <2>2. /\ conn'.client = NoGen /\ conn'.gen = g /\ ~conn'.connecting
        /\ conn'.reconnect = conn.reconnect /\ conn'.applied = conn.applied
    BY <1>10, <2>1 DEF Typed, ConnTyped
  <2>3. ~win'.connected /\ (~r.retry /\ r.fatal => win'.configErr)
    BY <1>7, <2>1 DEF Typed, FieldsTyped, RunnerType
  <2>4. r.at = "posted" /\ StopOnTheWay(g)
    BY <1>1, <1>3, <1>5, <1>10 DEF Told, Steady, DoneIsOver, StopOnTheWay
  <2>5. attempt[g].at \notin Before
    BY <1>3, <2>4 DEF Owned, Order, RunnerFollows, AttemptFirst
  <2>6. \A h \in Gens : ~StopOnTheWay(h)'
    BY <1>1, <1>4, <1>10 DEF Steady, StopBlocks, StopOnTheWay
  <2>7. /\ r.again # NoBot => r.again = wanted /\ g >= MaxGen
        /\ r.again = NoBot =>
             conn.applied = wanted /\ (r.retry \/ r.fatal \/ strayStop)
    BY <1>1, <1>3, <1>10, <2>4, Shapes
       DEF Newest, StopIsWanted, Attended, StopIsHandled
  <2>8. timer'.handle = "fired" => timer'.fired > 0
    BY <1>1, <2>1 DEF TimerScheduled, TimerStopped, Attended, HandleIsTimer, Typed, TimerTyped
  <2>9. r.retry => timer'.armed + timer'.fired > 0
    <3>1. MaxTimers \in Nat BY ConnectionConstants DEF ConnectionConstants
    <3>2. timer.armed \in Nat /\ timer.fired \in Nat BY <3>1 DEF Typed, TimerTyped
    <3>3. timer.handle # "nil" => timer.armed > 0 \/ timer.fired > 0
      BY <1>1 DEF Attended, HandleIsTimer, Typed, TimerTyped
    <3>4. ASSUME r.retry, timer.handle = "nil" PROVE timer'.armed + timer'.fired > 0
      BY <2>1, <3>2, <3>4 DEF TimerScheduled, Typed, TimerTyped
    <3>5. r.retry /\ timer.handle # "nil" => timer' = timer BY <2>1 DEF TimerScheduled
    <3> QED BY <3>2, <3>3, <3>4, <3>5
  <2>10. ~conn.reconnect BY <1>1, <1>10 DEF Steady, ReplacesClient
  <2> HIDE DEF g
  <2>11. Steady'
    BY <1>1, <1>2, <1>4, <2>1, <2>2, <2>3, <2>5, <2>6, <2>10
       DEF Steady, DoneIsOver, ClientIsMade, GatewayHeld, AttemptBlocks, StopBlocks,
           ReplacesClient, CutHolds, ConnectedHasClient, UIFree
  <2>12. Newest'
    BY <1>1, <2>1, <2>2, <2>5, <2>6, <2>7, Shapes
       DEF Newest, ClientIsWanted, AttemptIsWanted, StopIsWanted, AppliedIsWanted, Before
  <2>13. ConnectingEnds' /\ HandleIsTimer' /\ Unmade' /\ CancelledIsReplaced' /\ StopIsHandled'
    BY <1>1, <1>2, <2>2, <2>6, <2>8
       DEF Attended, ConnectingEnds, HandleIsTimer, Unmade, CancelledIsReplaced, StopIsHandled
  <2>14. EndHasReason' BY <1>1, <1>2, <1>4 DEF Attended, EndHasReason
  <2>15. IdleHasReason'
    BY <1>3, <2>1, <2>2, <2>3, <2>7, <2>9, Shapes DEF IdleHasReason, Reason, RetryComes
  <2> QED BY <2>11, <2>12, <2>13, <2>14, <2>15 DEF Attended
<1> QED BY <1>8, <1>9, <1>10

\* Any callback.
LEMMA WatchedCallback ==
  ASSUME Typed, Owned, StoppedAreTold, Watched, Callback
  PROVE  Watched'
<1>1. CASE RunEnsure
  <2>1. /\ UIFree /\ Ensure /\ UNCHANGED <<transport, uploads, ui, runner, exit, wanted>>
        /\ queue # <<>> /\ queue' = Tail(queue) /\ Head1.kind = "ensure"
    BY <1>1 DEF RunEnsure, Take
  <2>2. \A k, g : k # "ensure" /\ Queued(k, g) => Queued(k, g)' BY <2>1, TakeQueues
  <2> QED BY <2>1, <2>2, WatchedEnsure
<1> QED BY <1>1, WatchedNews, WatchedFailed, WatchedStopped DEF Callback

-----------------------------------------------------------------------------
(* The goroutine that makes a client.                                      *)

\* The configuration is saved, or the attempt fails.
LEMMA WatchedTrying ==
  ASSUME Typed, Owned, Watched, NEW g \in Gens, SaveConfig(g) \/ MakeFails(g)
  PROVE  Watched'
<1>1. /\ attempt[g].at \in {"save", "make"}
      /\ UNCHANGED <<transport, uploads, ui, queue, win, timer, runner, exit, wanted, strayStop, dropped>>
  BY DEF SaveConfig, MakeFails, AttemptAt
<1>2. UNCHANGED <<life, botOf, dead, why, gateway, running>> BY <1>1 DEF transport, uploads
<1>3. /\ attempt'[g].at \in {"make", "fail"} /\ attempt'[g].bot = attempt[g].bot
      /\ \A h \in Gens \ {g} : attempt'[h] = attempt[h]
  BY Shapes DEF SaveConfig, MakeFails, AttemptTo, AttemptType
<1>4. /\ conn'.client = conn.client /\ conn'.gen = conn.gen /\ conn'.connecting = conn.connecting
      /\ conn'.reconnect = conn.reconnect /\ conn'.pending = conn.pending
      /\ conn.gen # g => conn'.applied = conn.applied
      /\ exit = "open" /\ conn.gen = g /\ attempt'[g].at = "make" =>
           conn'.applied = attempt[g].bot
  BY Shapes DEF SaveConfig, MakeFails, AttemptTo, AttemptType, Closed, Typed, ConnTyped
<1>5. runner[g].at = "none" BY <1>1 DEF Owned, Order, AttemptFirst, Before
<1> SUFFICES ASSUME exit = "open" PROVE (Steady /\ Newest /\ Attended)'
  BY <1>1 DEF Watched
<1> USE DEF Watched
<1>6. conn.gen = g => conn.client = NoGen /\ conn.connecting
  BY <1>1 DEF Steady, AttemptBlocks, Trying, Before
<1>7. \A h \in Gens : StopOnTheWay(h) => conn.gen = h /\ h # g
  BY <1>5 DEF Steady, StopBlocks, StopOnTheWay
<1>8. Steady'
  BY <1>1, <1>2, <1>3, <1>4
     DEF Steady, DoneIsOver, ClientIsMade, GatewayHeld, AttemptBlocks, StopBlocks, StopOnTheWay,
         ReplacesClient, CutHolds, ConnectedHasClient, Before, Trying
<1>9. Newest'
  <2>1. ClientIsWanted' /\ AppliedIsWanted'
    BY <1>1, <1>2, <1>4, <1>6 DEF Newest, ClientIsWanted, AppliedIsWanted
  <2>2. AttemptIsWanted'
    BY <1>1, <1>3, <1>4 DEF Newest, AttemptIsWanted
  <2>3. StopIsWanted'
    BY <1>1, <1>2, <1>4, <1>7 DEF Newest, StopIsWanted, StopOnTheWay
  <2> QED BY <2>1, <2>2, <2>3 DEF Newest
<1>10. Attended'
  <2>1. ConnectingEnds' BY <1>1, <1>3, <1>4 DEF Attended, ConnectingEnds, StopOnTheWay, Trying
  <2>2. HandleIsTimer' /\ Unmade' /\ EndHasReason' /\ CancelledIsReplaced' /\ StopIsHandled'
    BY <1>1, <1>2, <1>4
       DEF Attended, HandleIsTimer, Unmade, EndHasReason, CancelledIsReplaced, StopIsHandled,
           StopOnTheWay, Fatal
  <2>3. IdleHasReason'
    BY <1>1, <1>3, <1>4, <1>6 DEF Attended, IdleHasReason, Reason, RetryComes, Saved, Queued
  <2> QED BY <2>1, <2>2, <2>3 DEF Attended
<1> QED BY <1>8, <1>9, <1>10

\* The client becomes that of the window and of the uploads.
LEMMA WatchedPublish ==
  ASSUME Typed, Owned, Watched, NEW g \in Gens, Publish(g)
  PROVE  Watched'
<1>1. /\ attempt[g].at = "make"
      /\ UNCHANGED <<dead, why, running, ui, queue, win, timer, runner, exit, wanted, strayStop, dropped>>
  BY DEF Publish, AttemptAt
<1> SUFFICES ASSUME exit = "open" PROVE (Steady /\ Newest /\ Attended)'
  BY <1>1 DEF Watched
<1> USE DEF Watched
<1>2. CASE conn.gen # g
  <2>1. /\ UNCHANGED <<conn, life, botOf, gateway>>
        /\ \A h \in Gens \ {g} : attempt'[h] = attempt[h]
    BY <1>2, Shapes DEF Publish, EndAttempt
  <2>2. Steady'
    BY <1>1, <1>2, <2>1
       DEF Steady, DoneIsOver, ClientIsMade, GatewayHeld, AttemptBlocks, StopBlocks, StopOnTheWay,
           ReplacesClient, CutHolds, ConnectedHasClient
  <2>3. Newest'
    BY <1>1, <1>2, <2>1
       DEF Newest, ClientIsWanted, AttemptIsWanted, StopIsWanted, AppliedIsWanted, StopOnTheWay
  <2>4. Attended'
    BY <1>1, <1>2, <2>1
       DEF Attended, ConnectingEnds, StopOnTheWay, HandleIsTimer, Unmade, EndHasReason,
           CancelledIsReplaced, StopIsHandled, Fatal, IdleHasReason, Reason, RetryComes, Saved,
           Queued
  <2> QED BY <2>2, <2>3, <2>4
<1>3. CASE conn.gen = g
  <2>1. /\ conn' = [conn EXCEPT !.client = g] /\ life' = [life EXCEPT ![g] = "made"]
        /\ botOf' = [botOf EXCEPT ![g] = attempt[g].bot] /\ gateway' = g
        /\ attempt' = [attempt EXCEPT ![g].at = "spawn"]
    BY <1>3 DEF Publish, Closed, Becomes, AttemptTo
  <2>2. /\ conn'.client = g /\ conn'.gen = g /\ conn'.reconnect = conn.reconnect
        /\ conn'.applied = conn.applied
        /\ life'[g] = "made" /\ \A h \in Gens \ {g} : life'[h] = life[h]
        /\ botOf'[g] = attempt[g].bot /\ attempt'[g].at = "spawn" /\ g # NoGen
    BY <1>3, <2>1, Shapes DEF Typed, ConnTyped, AttemptType
  <2>3. conn.client = NoGen /\ ~conn.reconnect
    BY <1>1, <1>3 DEF Steady, AttemptBlocks, ReplacesClient, Before
  <2>4. life[g] = "none" /\ runner[g].at = "none"
    BY <1>1 DEF Owned, Order, AttemptFirst, Before
  <2>5. \A h \in Gens : ~StopOnTheWay(h) /\ ~StopOnTheWay(h)'
    BY <1>1, <1>3, <2>4 DEF Steady, StopBlocks, StopOnTheWay
  <2>6. ui'.at # "cut" BY <1>1, <2>3, <2>5 DEF Steady, CutHolds
  <2>7. attempt[g].bot = wanted /\ conn.applied = wanted
    BY <1>1, <1>3 DEF Newest, AttemptIsWanted
  <2>8. g \notin dead /\ why[g] = "none" BY <2>4 DEF Attended, Unmade
  <2>9. Steady'
    BY <1>1, <2>1, <2>2, <2>3, <2>5, <2>6
       DEF Steady, DoneIsOver, ClientIsMade, GatewayHeld, AttemptBlocks, StopBlocks,
           ReplacesClient, CutHolds, ConnectedHasClient, Before
  <2>10. Newest'
    BY <1>1, <2>2, <2>3, <2>5, <2>7
       DEF Newest, ClientIsWanted, AttemptIsWanted, StopIsWanted, AppliedIsWanted
  <2>11. ConnectingEnds' /\ CancelledIsReplaced' /\ StopIsHandled' /\ IdleHasReason'
    BY <1>1, <2>2, <2>5, <2>8 DEF ConnectingEnds, CancelledIsReplaced, StopIsHandled,
       IdleHasReason
  <2>12. HandleIsTimer' /\ Unmade' /\ EndHasReason'
    BY <1>1, <2>2 DEF Attended, HandleIsTimer, Unmade, EndHasReason
  <2> QED BY <2>9, <2>10, <2>11, <2>12 DEF Attended
<1> QED BY <1>2, <1>3

\* The client has its runner.
LEMMA WatchedSpawn ==
  ASSUME Typed, Owned, Watched, NEW g \in Gens, Spawn(g)
  PROVE  Watched'
<1>1. /\ attempt[g].at = "spawn" /\ attempt' = [attempt EXCEPT ![g] = NoAttempt]
      /\ runner' = [runner EXCEPT ![g].at = IF Closed THEN "none" ELSE "run"]
      /\ UNCHANGED <<transport, uploads, conn, ui, queue, win, timer, exit, wanted, strayStop, dropped>>
  BY DEF Spawn, AttemptAt, EndAttempt
<1>2. UNCHANGED <<life, botOf, dead, why, gateway, running>> BY <1>1 DEF transport, uploads
<1>3. life[g] = "made" /\ runner[g].at = "none" BY <1>1 DEF Owned, Order, AttemptFirst
<1> SUFFICES ASSUME exit = "open" PROVE (Steady /\ Newest /\ Attended)'
  BY <1>1 DEF Watched
<1> USE DEF Watched
<1>4. /\ attempt'[g].at = "none" /\ runner'[g].at = "run"
      /\ \A h \in Gens \ {g} : attempt'[h] = attempt[h] /\ runner'[h] = runner[h]
  BY <1>1, Shapes DEF NoAttempt, RunnerType, Closed
<1>5. \A h \in Gens : /\ StopOnTheWay(h)' <=> StopOnTheWay(h)
                      /\ StopOnTheWay(h) => runner'[h] = runner[h]
  BY <1>3, <1>4 DEF StopOnTheWay
<1>6. Steady'
  BY <1>1, <1>2, <1>4, <1>5
     DEF Steady, DoneIsOver, ClientIsMade, GatewayHeld, AttemptBlocks, StopBlocks,
         ReplacesClient, CutHolds, ConnectedHasClient, Before
<1>7. Newest'
  BY <1>1, <1>2, <1>4, <1>5
     DEF Newest, ClientIsWanted, AttemptIsWanted, StopIsWanted, AppliedIsWanted
<1>8. Attended'
  <2>1. ConnectingEnds' BY <1>1, <1>4, <1>5 DEF Attended, ConnectingEnds, Trying
  <2>2. EndHasReason' BY <1>2, <1>3, <1>4 DEF Attended, EndHasReason
  <2>3. HandleIsTimer' /\ Unmade' /\ CancelledIsReplaced' /\ StopIsHandled'
    BY <1>1, <1>2, <1>5
       DEF Attended, HandleIsTimer, Unmade, CancelledIsReplaced, StopIsHandled, Fatal
  <2>4. IdleHasReason'
    BY <1>1, <1>4 DEF Attended, IdleHasReason, Reason, RetryComes, Saved, Queued
  <2> QED BY <2>1, <2>2, <2>3, <2>4 DEF Attended
<1> QED BY <1>6, <1>7, <1>8

\* A failed attempt puts the fields back and will say so.
LEMMA WatchedFail ==
  ASSUME Typed, Owned, Watched, NEW g \in Gens, FailAttempt(g)
  PROVE  Watched'
<1>1. /\ attempt[g].at = "fail"
      /\ UNCHANGED <<transport, uploads, ui, queue, win, timer, runner, exit, strayStop, dropped>>
  BY DEF FailAttempt, AttemptAt
<1>2. UNCHANGED <<life, botOf, dead, why, gateway, running>> BY <1>1 DEF transport, uploads
<1> SUFFICES ASSUME exit = "open" PROVE (Steady /\ Newest /\ Attended)'
  BY <1>1 DEF Watched
<1> USE DEF Watched
<1>3. CASE conn.gen # g
  <2>1. UNCHANGED <<conn, wanted>> /\ \A h \in Gens \ {g} : attempt'[h] = attempt[h]
    BY <1>3, Shapes DEF FailAttempt, EndAttempt
  <2>2. Steady'
    BY <1>1, <1>2, <1>3, <2>1
       DEF Steady, DoneIsOver, ClientIsMade, GatewayHeld, AttemptBlocks, StopBlocks, StopOnTheWay,
           ReplacesClient, CutHolds, ConnectedHasClient
  <2>3. Newest'
    BY <1>1, <1>2, <1>3, <2>1
       DEF Newest, ClientIsWanted, AttemptIsWanted, StopIsWanted, AppliedIsWanted, StopOnTheWay
  <2>4. Attended'
    BY <1>1, <1>2, <1>3, <2>1
       DEF Attended, ConnectingEnds, StopOnTheWay, HandleIsTimer, Unmade, EndHasReason,
           CancelledIsReplaced, StopIsHandled, Fatal, IdleHasReason, Reason, RetryComes, Saved,
           Queued
  <2> QED BY <2>2, <2>3, <2>4
<1>4. CASE conn.gen = g
  <2>1. /\ conn' = [conn EXCEPT !.connecting = FALSE]
        /\ wanted' = IF conn.applied # NoBot THEN conn.applied ELSE wanted
        /\ attempt' = [attempt EXCEPT ![g].at = "report"]
    BY <1>4 DEF FailAttempt, AttemptTo
  <2>2. /\ conn'.client = conn.client /\ conn'.gen = g /\ ~conn'.connecting
        /\ conn'.reconnect = conn.reconnect /\ conn'.applied = conn.applied
        /\ attempt'[g].at = "report"
    BY <1>4, <2>1, Shapes DEF Typed, ConnTyped, AttemptType
  <2>3. conn.client = NoGen /\ ~conn.reconnect
    BY <1>1, <1>4 DEF Steady, AttemptBlocks, ReplacesClient, Before
  <2>4. runner[g].at = "none" BY <1>1 DEF Owned, Order, AttemptFirst, Before
  <2>5. \A h \in Gens : ~StopOnTheWay(h) /\ ~StopOnTheWay(h)'
    BY <1>1, <1>4, <2>4 DEF Steady, StopBlocks, StopOnTheWay
  <2>6. Steady'
    BY <1>1, <1>2, <2>2, <2>3, <2>5
       DEF Steady, DoneIsOver, ClientIsMade, GatewayHeld, AttemptBlocks, StopBlocks,
           ReplacesClient, CutHolds, ConnectedHasClient, Trying
  <2>7. Newest'
    BY <2>1, <2>2, <2>3, <2>5
       DEF Newest, ClientIsWanted, AttemptIsWanted, StopIsWanted, AppliedIsWanted
  <2>8. Attended'
    BY <1>1, <1>2, <2>2, <2>3, <2>5
       DEF Attended, ConnectingEnds, HandleIsTimer, Unmade, EndHasReason, CancelledIsReplaced,
           StopIsHandled, IdleHasReason, Reason
  <2> QED BY <2>6, <2>7, <2>8
<1> QED BY <1>3, <1>4

\* Then the window is told.
LEMMA WatchedReport ==
  ASSUME Typed, Owned, Watched, NEW g \in Gens, ReportFailure(g)
  PROVE  Watched'
<1>1. /\ attempt[g].at = "report" /\ attempt' = [attempt EXCEPT ![g] = NoAttempt]
      /\ UNCHANGED <<transport, uploads, conn, ui, win, timer, runner, exit, wanted, strayStop, dropped>>
      /\ Post("failed", g)
  BY DEF ReportFailure, AttemptAt, EndAttempt
<1>2. UNCHANGED <<life, botOf, dead, why, gateway, running>> BY <1>1 DEF transport, uploads
<1>3. attempt'[g].at = "none" /\ \A h \in Gens \ {g} : attempt'[h] = attempt[h]
  BY <1>1, Shapes DEF NoAttempt
<1> SUFFICES ASSUME exit = "open" PROVE (Steady /\ Newest /\ Attended)'
  BY <1>1 DEF Watched
<1> USE DEF Watched
<1>4. Queued("failed", g)' /\ \A k, h : Queued(k, h) => Queued(k, h)'
  <2>1. [kind |-> "failed", gen |-> g] \in Callbacks BY DEF Callbacks, Kinds
  <2> QED BY <1>1, <2>1, PostQueues
<1>5. Steady'
  BY <1>1, <1>2, <1>3
     DEF Steady, DoneIsOver, ClientIsMade, GatewayHeld, AttemptBlocks, StopBlocks, StopOnTheWay,
         ReplacesClient, CutHolds, ConnectedHasClient, Before
<1>6. Newest'
  BY <1>1, <1>2, <1>3
     DEF Newest, ClientIsWanted, AttemptIsWanted, StopIsWanted, AppliedIsWanted, StopOnTheWay
<1>7. ConnectingEnds' /\ HandleIsTimer' /\ Unmade' /\ EndHasReason' /\ CancelledIsReplaced'
      /\ StopIsHandled'
  BY <1>1, <1>2, <1>3
     DEF Attended, ConnectingEnds, StopOnTheWay, HandleIsTimer, Unmade, EndHasReason,
         CancelledIsReplaced, StopIsHandled, Fatal, Trying
<1>8. IdleHasReason'
  BY <1>1, <1>3, <1>4 DEF Attended, IdleHasReason, Reason, RetryComes, Saved
<1> QED BY <1>5, <1>6, <1>7, <1>8 DEF Attended

-----------------------------------------------------------------------------
(* The goroutine that runs a client.                                       *)

\* Run is called, and what it leaves is removed.
LEMMA WatchedRun ==
  ASSUME Typed, Owned, Watched, NEW g \in Gens, StartRun(g) \/ RemoveSession(g)
  PROVE  Watched'
<1>1. /\ runner[g].at = "run" /\ UNCHANGED <<botOf, dead, why, gateway, running>>
      /\ UNCHANGED <<conn, ui, queue, win, timer, attempt, exit, wanted, strayStop, dropped>>
      /\ \/ life[g] = "made" /\ life' = [life EXCEPT ![g] = "login"] /\ runner' = runner
         \/ /\ life[g] = "ended" /\ life' = life
            /\ runner' = [runner EXCEPT ![g].at = "detach"]
  BY DEF StartRun, RemoveSession, Becomes, window, uploads
<1>2. /\ \A h \in Gens \ {g} : life'[h] = life[h] /\ runner'[h] = runner[h]
      /\ life[g] # "none" /\ life'[g] \notin {"none", "closing", "idle"}
      /\ life'[g] = "ended" => life[g] = "ended" /\ runner[g].at = "run"
      /\ runner'[g].at \in {"run", "detach"}
  BY <1>1, Shapes DEF RunnerType
<1> SUFFICES ASSUME exit = "open" PROVE (Steady /\ Newest /\ Attended)'
  BY <1>1 DEF Watched
<1> USE DEF Watched
<1>3. \A h \in Gens : /\ StopOnTheWay(h)' <=> StopOnTheWay(h)
                      /\ StopOnTheWay(h) => runner'[h] = runner[h]
  BY <1>1, <1>2 DEF StopOnTheWay
<1>4. Steady'
  <2>1. \A h \in Gens : life[h] # "none" => life'[h] # "none" BY <1>2
  <2>2. ClientIsMade' /\ CutHolds'
    BY <1>1, <1>3, <2>1, Shapes DEF Typed, FieldsTyped, Steady, ClientIsMade, CutHolds
  <2>3. DoneIsOver' BY <1>2 DEF Steady, DoneIsOver
  <2>4. GatewayHeld' /\ AttemptBlocks' /\ StopBlocks' /\ ReplacesClient' /\ ConnectedHasClient'
    BY <1>1, <1>3
       DEF Steady, GatewayHeld, AttemptBlocks, StopBlocks, ReplacesClient, ConnectedHasClient
  <2> QED BY <2>2, <2>3, <2>4 DEF Steady
<1>5. Newest'
  BY <1>1, <1>3
     DEF Newest, ClientIsWanted, AttemptIsWanted, StopIsWanted, AppliedIsWanted
<1>6. Attended'
  <2>1. Unmade' /\ EndHasReason' BY <1>1, <1>2 DEF Attended, Unmade, EndHasReason
  <2>2. ConnectingEnds' /\ HandleIsTimer' /\ CancelledIsReplaced' /\ StopIsHandled'
    BY <1>1, <1>3
       DEF Attended, ConnectingEnds, HandleIsTimer, CancelledIsReplaced, StopIsHandled, Fatal
  <2>3. IdleHasReason' BY <1>1 DEF Attended, IdleHasReason, Reason, RetryComes, Saved, Queued
  <2> QED BY <2>1, <2>2, <2>3 DEF Attended
<1> QED BY <1>4, <1>5, <1>6

\* The window lets go of the client: its runner takes over both flags.
LEMMA WatchedDetach ==
  ASSUME Typed, Owned, Watched, NEW g \in Gens, Detach(g)
  PROVE  Watched'
<1>1. /\ runner[g].at = "detach"
      /\ UNCHANGED <<life, botOf, why, gateway, running>>
      /\ UNCHANGED <<ui, queue, win, timer, attempt, exit, wanted>>
  BY DEF Detach, uploads
<1> SUFFICES ASSUME exit = "open" PROVE (Steady /\ Newest /\ Attended)'
  BY <1>1 DEF Watched
<1> USE DEF Watched
<1>2. life[g] = "ended" /\ conn.client = g /\ conn.gen = g /\ attempt[g].at \notin Before
  BY <1>1, Shapes
     DEF Owned, Order, RunnerFollows, AttemptFirst, Ownership, OwnerIsClient, Owner,
         ClientIsCurrent
<1>3. /\ conn' = [conn EXCEPT !.client = NoGen, !.connecting = TRUE, !.reconnect = FALSE,
                              !.pending = NoBot]
      /\ dead' = dead \cup {g}
      /\ runner' = [runner EXCEPT ![g] =
                      [NoRunner EXCEPT !.at = "clear", !.current = TRUE,
                        !.again = IF conn.reconnect THEN conn.pending ELSE NoBot]]
      /\ strayStop' = (strayStop \/ why[g] = "clean")
  BY <1>2 DEF Detach
<1>4. /\ conn'.client = NoGen /\ conn'.gen = g /\ conn'.connecting /\ ~conn'.reconnect
      /\ conn'.applied = conn.applied
      /\ runner'[g].at = "clear" /\ runner'[g].current
      /\ runner'[g].again = (IF conn.reconnect THEN conn.pending ELSE NoBot)
      /\ \A h \in Gens \ {g} : runner'[h] = runner[h]
  BY <1>2, <1>3, Shapes DEF Typed, ConnTyped, NoRunner
<1>5. StopOnTheWay(g)' /\ \A h \in Gens : StopOnTheWay(h)' => h = g
  <2>1. \A h \in Gens : ~StopOnTheWay(h) BY <1>2, Shapes DEF Steady, StopBlocks
  <2> QED BY <1>4, <2>1 DEF StopOnTheWay
<1>6. win.connected => ~conn.reconnect
  BY <1>2, Shapes DEF Steady, ConnectedHasClient, StopBlocks
<1>7. IF conn.reconnect THEN conn.pending = wanted /\ wanted # NoBot /\ ~running
      ELSE conn.applied = wanted
  BY <1>2, Shapes DEF Newest, ClientIsWanted, Steady, ReplacesClient
<1>8. Steady'
  BY <1>1, <1>2, <1>4, <1>5
     DEF Steady, DoneIsOver, ClientIsMade, GatewayHeld, AttemptBlocks, StopBlocks,
         ReplacesClient, CutHolds, ConnectedHasClient
<1>9. Newest'
  BY <1>1, <1>2, <1>4, <1>5, <1>6, <1>7
     DEF Newest, ClientIsWanted, AttemptIsWanted, StopIsWanted, AppliedIsWanted, Before
<1>10. Attended'
  <2>1. ConnectingEnds' /\ CancelledIsReplaced' /\ IdleHasReason'
    BY <1>4, <1>5 DEF ConnectingEnds, CancelledIsReplaced, IdleHasReason
  <2>2. HandleIsTimer' BY <1>1 DEF Attended, HandleIsTimer
  <2>3. Unmade' BY <1>1, <1>2, <1>3 DEF Attended, Unmade
  <2>4. EndHasReason' BY <1>1, <1>2, <1>4 DEF Attended, EndHasReason
  \* Nothing but a change of the configuration cancelled it.
  <2>5. ~conn.reconnect => why[g] \in {"wrongBot", "clean", "transient", "fatal"}
    <3>1. why[g] # "none" BY <1>1, <1>2 DEF Attended, EndHasReason
    <3>2. ~conn.reconnect => why[g] # "cancelled"
      BY <1>2, Shapes DEF Attended, CancelledIsReplaced
    <3> QED BY <3>1, <3>2 DEF Typed, TransportTyped, Reasons
  <2>6. StopIsHandled'
    <3>1. runner'[g].again = NoBot => ~conn.reconnect BY <1>4, <1>7
    <3>2. ~conn.reconnect => why[g] = "transient" \/ Fatal(g) \/ (why[g] = "clean" /\ strayStop')
      BY <1>3, <2>5 DEF Fatal
    <3>3. why' = why /\ (Fatal(g)' <=> Fatal(g)) BY <1>1 DEF Fatal
    <3> QED BY <1>4, <1>5, <3>1, <3>2, <3>3 DEF StopIsHandled
  <2> QED BY <2>1, <2>2, <2>3, <2>4, <2>6 DEF Attended
<1> QED BY <1>8, <1>9, <1>10

\* The uploads let go of it, and the window will be told.
LEMMA WatchedClear ==
  ASSUME Typed, Owned, Watched, NEW g \in Gens, ClearGateway(g)
  PROVE  Watched'
<1>1. /\ runner[g].at = "clear" /\ runner' = [runner EXCEPT ![g].at = "post"]
      /\ gateway' = IF runner[g].current THEN NoGen ELSE gateway
      /\ UNCHANGED <<life, botOf, dead, why, running, conn, ui, queue, win, timer, attempt, exit,
                     wanted, strayStop, dropped>>
  BY DEF ClearGateway, transport
<1>2. /\ runner'[g].at = "post" /\ runner'[g].current = runner[g].current
      /\ runner'[g].again = runner[g].again
      /\ \A h \in Gens \ {g} : runner'[h] = runner[h]
  BY <1>1, Shapes DEF RunnerType
<1> SUFFICES ASSUME exit = "open" PROVE (Steady /\ Newest /\ Attended)'
  BY <1>1 DEF Watched
<1> USE DEF Watched
<1>3. \A h \in Gens : StopOnTheWay(h)' <=> StopOnTheWay(h) BY <1>1, <1>2 DEF StopOnTheWay
<1>4. GatewayHeld' BY <1>1 DEF Steady, GatewayHeld, StopBlocks, StopOnTheWay
<1>5. Steady'
  BY <1>1, <1>2, <1>3, <1>4
     DEF Steady, DoneIsOver, ClientIsMade, AttemptBlocks, StopBlocks, ReplacesClient, CutHolds,
         ConnectedHasClient
<1>6. Newest'
  BY <1>1, <1>2, <1>3
     DEF Newest, ClientIsWanted, AttemptIsWanted, StopIsWanted, AppliedIsWanted
<1>7. Attended'
  <2>1. ConnectingEnds' /\ HandleIsTimer' /\ Unmade' /\ CancelledIsReplaced'
    BY <1>1, <1>3 DEF Attended, ConnectingEnds, HandleIsTimer, Unmade, CancelledIsReplaced
  <2>2. EndHasReason' BY <1>1, <1>2 DEF Attended, EndHasReason
  <2>3. StopIsHandled' BY <1>1, <1>2, <1>3 DEF Attended, StopIsHandled, Fatal
  <2>4. IdleHasReason' BY <1>1 DEF Attended, IdleHasReason, Reason, RetryComes, Saved, Queued
  <2> QED BY <2>1, <2>2, <2>3, <2>4 DEF Attended
<1> QED BY <1>5, <1>6, <1>7

\* The reason of the end goes with the callback.
LEMMA WatchedPost ==
  ASSUME Typed, Owned, Watched, NEW g \in Gens, PostStopped(g)
  PROVE  Watched'
<1>1. /\ runner[g].at = "post" /\ Post("stopped", g)
      /\ runner' = [runner EXCEPT ![g].at = IF Closed THEN "done" ELSE "posted",
                                  ![g].retry = Retryable(g), ![g].fatal = Fatal(g)]
      /\ why' = [why EXCEPT ![g] = "none"] /\ botOf' = [botOf EXCEPT ![g] = NoBot]
      /\ UNCHANGED <<life, dead, gateway, running, conn, ui, win, timer, attempt, exit, wanted,
                     strayStop, dropped>>
  BY DEF PostStopped, uploads
<1> SUFFICES ASSUME exit = "open" PROVE (Steady /\ Newest /\ Attended)'
  BY <1>1 DEF Watched
<1> USE DEF Watched
<1>2. /\ runner'[g].at = "posted" /\ runner'[g].current = runner[g].current
      /\ runner'[g].again = runner[g].again
      /\ why[g] = "transient" => runner'[g].retry
      /\ Fatal(g) => runner'[g].fatal
      /\ \A h \in Gens \ {g} : runner'[h] = runner[h]
  BY <1>1, Shapes DEF RunnerType, Closed, Retryable
<1>3. \A h \in Gens \ {g} : why'[h] = why[h] /\ botOf'[h] = botOf[h]
  BY <1>1, Shapes DEF Typed, TransportTyped
<1>4. why'[g] = "none" BY <1>1 DEF Typed, TransportTyped
<1>5. conn.client # g
  BY <1>1, Shapes DEF Owned, Order, AttemptFirst, Ownership, ClientIsOwner
<1>6. life[g] = "ended" BY <1>1 DEF Owned, Order, RunnerFollows
<1>7. \A k, h : Queued(k, h) => Queued(k, h)'
  <2>1. [kind |-> "stopped", gen |-> g] \in Callbacks BY DEF Callbacks, Kinds
  <2> QED BY <1>1, <2>1, PostQueues
<1>8. \A h \in Gens : StopOnTheWay(h)' <=> StopOnTheWay(h) BY <1>1, <1>2 DEF StopOnTheWay
<1>9. Steady'
  BY <1>1, <1>2, <1>8
     DEF Steady, DoneIsOver, ClientIsMade, GatewayHeld, AttemptBlocks, StopBlocks, ReplacesClient,
         CutHolds, ConnectedHasClient
<1>10. Newest'
  <2>1. ClientIsWanted' BY <1>1, <1>3, <1>5, Shapes DEF Newest, ClientIsWanted
  <2>2. \A h \in Gens : runner'[h].again = runner[h].again BY <1>2
  <2>3. StopIsWanted' BY <1>1, <1>8, <2>2 DEF Newest, StopIsWanted
  <2> QED BY <1>1, <2>1, <2>3 DEF Newest, AttemptIsWanted, AppliedIsWanted
<1>11. Attended'
  <2>1. ConnectingEnds' /\ HandleIsTimer'
    BY <1>1, <1>8 DEF Attended, ConnectingEnds, HandleIsTimer
  <2>2. Unmade' /\ EndHasReason'
    BY <1>1, <1>2, <1>3, <1>6 DEF Attended, Unmade, EndHasReason
  <2>3. CancelledIsReplaced'
    BY <1>1, <1>3, <1>5, Shapes DEF Attended, CancelledIsReplaced
  <2>4. StopIsHandled'
    <3>1. ASSUME NEW h \in Gens, StopOnTheWay(h)', runner'[h].again = NoBot
          PROVE  IF runner'[h].at = "posted"
                 THEN runner'[h].retry \/ runner'[h].fatal \/ strayStop'
                 ELSE why'[h] = "transient" \/ Fatal(h)' \/ (why'[h] = "clean" /\ strayStop')
      <4>1. StopOnTheWay(h) BY <1>8, <3>1
      <4>2. CASE h = g
        BY <1>1, <1>2, <3>1, <4>1, <4>2 DEF Attended, StopIsHandled
      <4>3. CASE h # g
        BY <1>1, <1>2, <1>3, <3>1, <4>1, <4>3 DEF Attended, StopIsHandled, Fatal
      <4> QED BY <4>2, <4>3
    <3> QED BY <3>1 DEF StopIsHandled
  <2>5. IdleHasReason'
    BY <1>1, <1>7 DEF Attended, IdleHasReason, Reason, RetryComes, Saved
  <2> QED BY <2>1, <2>2, <2>3, <2>4, <2>5 DEF Attended
<1> QED BY <1>9, <1>10, <1>11

\* The goroutine that waits for the client, and news of the transport.
LEMMA WatchedWaiter ==
  ASSUME Typed, Watched, NEW g \in Gens, WaitReady(g) \/ PostReady(g) \/ LinkChanges(g)
  PROVE  Watched'
<1>1. /\ UNCHANGED <<conn, ui, win, timer, attempt, runner, exit, wanted, strayStop, dropped>>
      /\ UNCHANGED <<life, botOf, dead, why, gateway, running>>
  BY DEF WaitReady, PostReady, LinkChanges, transport, uploads
<1>2. exit = "open" => \A k, h : Queued(k, h) => Queued(k, h)'
  <2>1. CASE WaitReady(g) BY <2>1 DEF WaitReady, Queued
  <2>2. CASE PostReady(g) \/ LinkChanges(g)
    <3>1. PICK kind \in {"ready", "down", "up"} : Post(kind, g)
      BY <2>2 DEF PostReady, LinkChanges
    <3>2. [kind |-> kind, gen |-> g] \in Callbacks BY DEF Callbacks, Kinds
    <3> QED BY <3>1, <3>2, PostQueues
  <2> QED BY <2>1, <2>2
<1>3. CASE exit = "open" BY <1>1, <1>2, <1>3, WatchedFrame
<1>4. CASE exit # "open" BY <1>1, <1>4 DEF Watched
<1> QED BY <1>3, <1>4

-----------------------------------------------------------------------------
(* The invariant.                                                          *)

LEMMA InitWatched == Init => Watched /\ PostedIsQueued
<1> SUFFICES ASSUME Init PROVE Watched /\ PostedIsQueued OBVIOUS
<1>1. /\ conn.client = NoGen /\ ~conn.connecting /\ ~conn.reconnect /\ conn.applied = NoBot
      /\ ui.at = "free" /\ ~win.connected /\ timer.handle = "nil" /\ dead = {}
  BY DEF Init, Blank, NoTimer
<1>2. \A g \in Gens : /\ attempt[g].at = "none" /\ runner[g].at = "none" /\ ~runner[g].current
                      /\ life[g] = "none" /\ why[g] = "none"
  BY DEF Init, NoAttempt, NoRunner
<1>3. \A g \in Gens : ~StopOnTheWay(g) BY <1>2 DEF StopOnTheWay
<1>4. Steady
  BY <1>1, <1>2, <1>3
     DEF Steady, DoneIsOver, ClientIsMade, GatewayHeld, AttemptBlocks, StopBlocks, ReplacesClient,
         CutHolds, ConnectedHasClient, Before
<1>5. Newest
  BY <1>1, <1>2, <1>3
     DEF Newest, ClientIsWanted, AttemptIsWanted, StopIsWanted, AppliedIsWanted
<1>6. Saved = NoBot \/ Queued("ensure", NoGen)
  <2>1. CASE wanted = NoBot BY <1>1, <2>1 DEF Saved
  <2>2. CASE wanted # NoBot
    <3>1. queue = <<[kind |-> "ensure", gen |-> NoGen]>> BY <2>2 DEF Init
    <3>2. 1 \in 1..Len(queue) /\ queue[1] = [kind |-> "ensure", gen |-> NoGen] BY <3>1
    <3> QED BY <3>2 DEF Queued
  <2> QED BY <2>1, <2>2
<1>7. Attended
  BY <1>1, <1>2, <1>3, <1>6
     DEF Attended, ConnectingEnds, HandleIsTimer, Unmade, EndHasReason, CancelledIsReplaced,
         StopIsHandled, IdleHasReason, Reason
<1> QED BY <1>2, <1>4, <1>5, <1>7 DEF Watched, PostedIsQueued

LEMMA NextWatched == IInv /\ Watched /\ [Next]_vars => Watched'
<1> SUFFICES ASSUME IInv, Watched, [Next]_vars PROVE Watched' OBVIOUS
<1> USE DEF IInv
<1>1. CASE UNCHANGED vars
  BY <1>1, WatchedFrame DEF vars, window, transport, uploads, Queued
<1>2. CASE Shutdown
  <2>1. exit' # "open" BY <1>2 DEF Shutdown, Close, CloseClient, CloseGateway, ExitTo
  <2> QED BY <2>1 DEF Watched
<1>3. CASE Interface BY <1>2, <1>3, WatchedUser, WatchedCallback DEF Interface
<1>4. CASE TimerFires \/ TimerDelivers BY <1>4, WatchedTimers
<1>5. CASE UploadStep BY <1>5, WatchedUploads
<1>6. ASSUME NEW g \in Gens, ConnectAsync(g) PROVE Watched'
  BY <1>6, WatchedTrying, WatchedPublish, WatchedSpawn, WatchedFail, WatchedReport
     DEF ConnectAsync
<1>7. ASSUME NEW g \in Gens, RunClient(g) PROVE Watched'
  BY <1>7, WatchedRun, WatchedDetach, WatchedClear, WatchedPost DEF RunClient
<1>8. ASSUME NEW g \in Gens, WaitReady(g) \/ PostReady(g) \/ LinkChanges(g) PROVE Watched'
  BY <1>8, WatchedWaiter
<1>9. ASSUME NEW g \in Gens, TransportStep(g) PROVE Watched' BY <1>9, WatchedTransport
<1> QED BY <1>1, <1>3, <1>4, <1>5, <1>6, <1>7, <1>8, <1>9 DEF Next, Over, Worker

\* A callback leaves the queue when it runs, and a client is then done.
LEMMA NextPosted == IInv /\ PostedIsQueued /\ [Next]_vars => PostedIsQueued'
<1> SUFFICES ASSUME IInv, PostedIsQueued, [Next]_vars, exit' = "open",
                    NEW h \in Gens, runner'[h].at = "posted"
             PROVE  Queued("stopped", h)'
  BY DEF PostedIsQueued
<1> USE DEF IInv
<1>1. CASE Shutdown
  BY <1>1 DEF Shutdown, Close, CloseClient, CloseGateway, ExitTo
<1>2. CASE UNCHANGED <<queue, exit>> /\ runner'[h].at = runner[h].at
  BY <1>2 DEF PostedIsQueued, Queued
<1>3. CASE Callback
  <2>1. queue # <<>> /\ queue' = Tail(queue) /\ exit = "open"
    BY <1>3 DEF Callback, RunEnsure, RunFailed, RunReady, RunState, RunStopped, Take, UIFree,
       Closed
  <2>2. \/ UNCHANGED runner /\ Head1.kind # "stopped"
        \/ runner' = [runner EXCEPT ![Head1.gen] = [NoRunner EXCEPT !.at = "done"]]
    BY <1>3 DEF Callback, RunEnsure, RunFailed, RunReady, RunState, RunStopped, Take
  <2>3. runner[h].at = "posted" /\ (Head1.kind = "stopped" => Head1.gen # h)
    <3>1. CASE UNCHANGED runner /\ Head1.kind # "stopped" BY <3>1
    <3>2. CASE runner' = [runner EXCEPT ![Head1.gen] = [NoRunner EXCEPT !.at = "done"]]
      BY <3>2, Shapes DEF NoRunner
    <3> QED BY <2>2, <3>1, <3>2
  <2> QED BY <2>1, <2>3, TakeQueues DEF PostedIsQueued
<1>4. ASSUME NEW kind, NEW g, [kind |-> kind, gen |-> g] \in Callbacks, Post(kind, g),
             exit' = exit, runner'[h].at = runner[h].at \/ (kind = "stopped" /\ h = g)
      PROVE  Queued("stopped", h)'
  <2>1. Queued(kind, g)' /\ \A k, i : Queued(k, i) => Queued(k, i)' BY <1>4, PostQueues
  <2> QED BY <1>4, <2>1 DEF PostedIsQueued
<1>5. CASE TimerDelivers
  <2>1. [kind |-> "ensure", gen |-> NoGen] \in Callbacks BY DEF Callbacks
  <2> QED BY <1>4, <1>5, <2>1 DEF TimerDelivers
<1>6. ASSUME NEW g \in Gens, ReportFailure(g) \/ PostReady(g) \/ LinkChanges(g)
      PROVE  Queued("stopped", h)'
  <2>1. PICK kind \in {"failed", "ready", "down", "up"} : Post(kind, g)
    BY <1>6 DEF ReportFailure, PostReady, LinkChanges
  <2>2. [kind |-> kind, gen |-> g] \in Callbacks BY DEF Callbacks, Kinds
  <2> QED BY <1>4, <1>6, <2>1, <2>2 DEF ReportFailure, PostReady, LinkChanges
<1>7. ASSUME NEW g \in Gens, PostStopped(g) PROVE Queued("stopped", h)'
  <2>1. [kind |-> "stopped", gen |-> g] \in Callbacks BY DEF Callbacks, Kinds
  <2>2. h # g => runner'[h].at = runner[h].at BY <1>7, Shapes DEF PostStopped
  <2> QED BY <1>4, <1>7, <2>1, <2>2 DEF PostStopped
<1>8. ASSUME NEW g \in Gens, RemoveSession(g) \/ Detach(g) \/ ClearGateway(g) \/ Spawn(g)
      PROVE  Queued("stopped", h)'
  <2>1. \A i \in Gens \ {g} : runner'[i] = runner[i]
    BY <1>8, Shapes DEF RemoveSession, Detach, ClearGateway, Spawn
  <2>2. runner'[g].at # "posted"
    <3>1. CASE Detach(g)
      <4>1. runner'[g].at = "clear" BY <3>1, Shapes DEF Detach, NoRunner
      <4> QED BY <4>1
    <3>2. CASE RemoveSession(g) \/ ClearGateway(g) \/ Spawn(g)
      <4>1. PICK at \in {"detach", "post", "none", "run"} :
              runner' = [runner EXCEPT ![g].at = at]
        BY <3>2 DEF RemoveSession, ClearGateway, Spawn
      <4> QED BY <4>1, Shapes DEF RunnerType
    <3> QED BY <1>8, <3>1, <3>2
  <2>3. UNCHANGED <<queue, exit>> BY <1>8 DEF RemoveSession, Detach, ClearGateway, Spawn
  <2> QED BY <1>2, <2>1, <2>3, <2>2
<1>9. ScheduleEnsures \/ PressInvalid \/ CutOff \/ StartQueue
      \/ (\E bot \in Bots : Connect(bot) \/ Reconnect(bot)) \/ TimerFires \/ UploadStep \/ UNCHANGED vars
      => UNCHANGED <<queue, runner, exit>>
  BY DEF ScheduleEnsures, PressInvalid, CutOff, StartQueue, Connect, Reconnect, TimerFires,
     UploadStep,
     window,
     vars
<1>10. ASSUME NEW g \in Gens,
              SaveConfig(g) \/ MakeFails(g) \/ Publish(g) \/ FailAttempt(g) \/ StartRun(g)
              \/ WaitReady(g) \/ TransportStep(g)
       PROVE  UNCHANGED <<queue, runner, exit>>
  BY <1>10 DEF SaveConfig, MakeFails, Publish, FailAttempt, StartRun, WaitReady, TransportStep,
     window
<1> QED BY <1>1, <1>2, <1>3, <1>5, <1>6, <1>7, <1>8, <1>9, <1>10
        DEF Next, Over, Interface, Worker, ConnectAsync, RunClient

\* While the window is open its flags say who has the client, the configuration
\* and the next step.
THEOREM ConnectionWatched == Spec => [](Watched /\ PostedIsQueued)
<1>1. Init => IInv /\ Watched /\ PostedIsQueued BY InitOwned, InitWatched
<1>2. IInv /\ Watched /\ PostedIsQueued /\ [Next]_vars => (IInv /\ Watched /\ PostedIsQueued)'
  BY NextOwned, NextWatched, NextPosted
<1> QED BY <1>1, <1>2, PTL DEF Spec

\* A window that says it is connected has a client and the uploads have the
\* same one, unless the news of its end is on the way.
THEOREM ConnectedTruly == Spec => []ConnectedIsTrue
<1>1. Watched => ConnectedIsTrue
  BY DEF Watched, Steady, ConnectedHasClient, GatewayHeld, ConnectedIsTrue, Closed
<1> QED BY <1>1, ConnectionWatched, PTL

\* A connection is never made with a configuration the user has replaced.
THEOREM NewestConnected == Spec => []NewestConfigWins
<1>1. ASSUME Watched, win.connected, exit = "open", conn.client # NoGen
      PROVE  botOf[conn.client] = wanted
  <2>1. ~conn.reconnect BY <1>1 DEF Watched, Steady, ConnectedHasClient, StopBlocks
  <2> QED BY <1>1, <2>1 DEF Watched, Newest, ClientIsWanted
<1>2. Watched => NewestConfigWins BY <1>1 DEF NewestConfigWins, Closed
<1> QED BY <1>2, ConnectionWatched, PTL

\* A window where nothing goes on is able to connect, and somebody will, or the
\* settings are missing or were refused.  Two ways out of this are named: the last
\* client ended by itself without an error, or a press with fields that are not
\* valid stopped the retry.
THEOREM NeverStranded == Spec => []NotStranded
<1>1. ASSUME IInv, Watched, Quiet, ~Bounded
      PROVE  ~conn.connecting
             /\ (RetryComes \/ win.configErr \/ Saved = NoBot \/ strayStop \/ dropped)
  <2> USE <1>1 DEF IInv
  <2>1. exit = "open" /\ queue = <<>> /\ conn.client = NoGen BY DEF Quiet, Closed
  <2>2. \A g \in Gens : attempt[g].at = "none" /\ ~StopOnTheWay(g)
    BY DEF Quiet, NoAttempt, StopOnTheWay
  <2>3. \A k, g : ~Queued(k, g) BY <2>1 DEF Queued
  <2>4. conn.gen < MaxGen BY <2>1, Shapes DEF Bounded
  <2>5. ~conn.connecting BY <2>1, <2>2 DEF Watched, Attended, ConnectingEnds, Trying
  <2>6. Reason BY <2>1, <2>4, <2>5 DEF Watched, Attended, IdleHasReason
  <2> QED BY <2>2, <2>3, <2>5, <2>6 DEF Reason
<1>2. IInv /\ Watched => NotStranded BY <1>1 DEF NotStranded
<1> QED BY <1>2, ConnectionOwned, ConnectionWatched, PTL
=============================================================================
