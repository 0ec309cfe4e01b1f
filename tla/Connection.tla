----------------------------- MODULE Connection -----------------------------
(***************************************************************************)
(* How the window connects, reconnects and closes (ui/connection.go, the   *)
(* worker and shutdown part of ui/window.go).  The user interface thread   *)
(* runs one callback after the other; connectAsync, runClient and          *)
(* waitClientReady are goroutines that post callbacks to it.  A section    *)
(* under clientMu is one action.                                           *)
(***************************************************************************)
EXTENDS TelegramClient, Sequences

CONSTANTS
  Configured, \* what the settings may hold when the program starts
  Stored,     \* whose session the file may hold then
  MaxTimers   \* bound: retry timers that have not delivered their callback

ASSUME ConnectionConstants ==
  /\ Configured \subseteq Bots \cup {NoBot} /\ Stored \subseteq Bots \cup {NoBot, Unreadable}
  /\ MaxTimers \in Nat \ {0}

VARIABLES
  conn,       \* what clientMu protects
  ui,         \* what the interface thread is in the middle of
  queue,      \* callbacks posted with doUI
  win,        \* fields only the interface thread uses
  timer,      \* retry timers: the handle, the armed ones, the fired ones
  attempt,    \* connectAsync of each generation
  runner,     \* runClient of each generation
  waiter,     \* waitClientReady of each generation
  exit,       \* how far shutdown is
  wanted,     \* what the fields held when the user last connected
  strayStop,  \* history: the last client ended without an error and uncancelled
  dropped     \* history: a press that was refused has stopped the retry to come

window == <<conn, ui, queue, win, timer, attempt, runner, waiter, exit, wanted, strayStop, dropped>>
vars == <<transport, uploads, window>>

Closed == exit # "open"
NoAttempt == [at |-> "none", bot |-> NoBot, auto |-> FALSE]
NoRunner == [at |-> "none", current |-> FALSE, retry |-> FALSE, fatal |-> FALSE, again |-> NoBot]

Blank == [connected |-> FALSE, identity |-> FALSE, configErr |-> FALSE]
NoTimer == [handle |-> "nil", armed |-> 0, fired |-> 0]

\* doUI: nothing is posted to a closed window.
Post(kind, g) ==
  queue' = IF Closed THEN queue ELSE Append(queue, [kind |-> kind, gen |-> g])

\* Errors that are not retried: the settings have to be looked at.
Fatal(g) == why[g] \in {"fatal", "wrongBot"}

-----------------------------------------------------------------------------
(* Retry timers.                                                           *)

\* Mutant of TimerStopped: a timer that fired is stopped like one that did not.
TimerStoppedTwice ==
  [timer EXCEPT !.handle = "nil", !.armed = IF timer.handle # "nil" THEN @ - 1 ELSE @]

\* resetConnectionRetry.
TimerStopped ==
  [timer EXCEPT !.handle = "nil", !.armed = IF timer.handle = "armed" THEN @ - 1 ELSE @]

\* Mutant of TimerScheduled: connected is reset after the retry was scheduled.
TimerScheduledIfDown ==
  IF win.connected \/ timer.handle # "nil" THEN timer
  ELSE [timer EXCEPT !.handle = "armed", !.armed = @ + 1]

\* scheduleConnectionRetry: a handle that is set means a retry is coming.
TimerScheduled ==
  IF timer.handle # "nil" THEN timer
  ELSE [timer EXCEPT !.handle = "armed", !.armed = @ + 1]

MayArm == timer.armed + timer.fired < MaxTimers

\* A timer fires: the one behind the handle, or one whose handle was lost.
TimerFires ==
  /\ timer.armed > 0
  /\ \/ /\ timer.handle = "armed"
        /\ timer' = [timer EXCEPT !.handle = "fired", !.armed = @ - 1, !.fired = @ + 1]
     \/ /\ timer.armed > (IF timer.handle = "armed" THEN 1 ELSE 0)
        /\ timer' = [timer EXCEPT !.armed = @ - 1, !.fired = @ + 1]
  /\ UNCHANGED <<transport, uploads, conn, ui, queue, win, attempt, runner, waiter,
                 exit, wanted, strayStop, dropped>>

\* Its function clears the handle, whichever it is by now, and posts.
TimerDelivers ==
  /\ timer.fired > 0
  /\ timer' = [timer EXCEPT !.handle = "nil", !.fired = @ - 1]
  /\ Post("ensure", NoGen)
  /\ UNCHANGED <<transport, uploads, conn, ui, win, attempt, runner, waiter,
                 exit, wanted, strayStop, dropped>>

-----------------------------------------------------------------------------
(* The interface thread.                                                   *)

UIFree == ui.at = "free" /\ ~Closed

\* connectWithRequest without a client: a new generation and its worker.
Connecting(bot, auto) ==
  LET g == conn.gen + 1 IN
  /\ conn' = [conn EXCEPT !.connecting = TRUE, !.gen = g,
                          !.applied = IF auto /\ @ = NoBot THEN bot ELSE @]
  /\ attempt' = [attempt EXCEPT ![g] =
                   [at |-> IF auto THEN "make" ELSE "save", bot |-> bot, auto |-> auto]]
  /\ timer' = TimerStopped
  /\ strayStop' = FALSE /\ dropped' = FALSE

\* The configuration an automatic attempt uses.
Saved == IF conn.applied # NoBot THEN conn.applied ELSE wanted

\* ensureConnection: the timer, a due schedule, the start of the program.
MayEnsure ==
  /\ conn.client = NoGen /\ ~conn.connecting /\ ~win.configErr
  /\ Saved # NoBot /\ conn.gen < MaxGen

\* The first attempt takes the configuration from the fields, which may be
\* complete and not valid: that is shown, and nothing is tried.
FieldsRefused ==
  /\ conn.applied = NoBot
  /\ win' = [win EXCEPT !.connected = FALSE, !.configErr = TRUE]
  /\ UNCHANGED <<conn, attempt, timer, strayStop, dropped>>

Ensure ==
  IF MayEnsure
  THEN \/ Connecting(Saved, TRUE) /\ win' = [win EXCEPT !.connected = FALSE]
       \/ FieldsRefused
  ELSE UNCHANGED <<conn, attempt, timer, win, strayStop, dropped>>

ScheduleEnsures ==
  /\ UIFree /\ MayEnsure
  /\ Ensure
  /\ UNCHANGED <<transport, uploads, ui, queue, runner, waiter, exit, wanted>>

\* connect, connectWithMode(false): the user presses "save and connect".
Connect(bot) ==
  /\ UIFree /\ ~running /\ ~conn.connecting /\ conn.client = NoGen /\ conn.gen < MaxGen
  /\ Connecting(bot, FALSE)
  /\ win' = [win EXCEPT !.configErr = FALSE]
  /\ wanted' = bot
  /\ UNCHANGED <<transport, uploads, ui, queue, runner, waiter, exit>>

\* The same press with fields that are not valid: the retry to come is stopped
\* before they are looked at, and nothing else changes.  The button is disabled
\* while the window connects.
PressInvalid ==
  /\ UIFree /\ ~running /\ ~conn.connecting
  /\ timer' = TimerStopped
  /\ dropped' = (dropped \/ timer.handle = "armed")
  /\ UNCHANGED <<transport, uploads, conn, ui, queue, win, attempt, runner, waiter, exit,
                 wanted, strayStop>>

\* Mutant of Reconnect: the old client is forgotten at once.
ReconnectAtOnce(bot) ==
  /\ UIFree /\ ~running /\ ~conn.connecting /\ conn.client # NoGen /\ conn.gen < MaxGen
  /\ conn' = [conn EXCEPT !.connecting = TRUE, !.gen = @ + 1, !.client = NoGen]
  /\ attempt' = [attempt EXCEPT ![conn.gen + 1] = [at |-> "save", bot |-> bot, auto |-> FALSE]]
  /\ win' = [win EXCEPT !.connected = FALSE, !.identity = FALSE, !.configErr = FALSE]
  /\ dead' = dead \cup {conn.client}
  /\ gateway' = NoGen
  /\ timer' = TimerStopped
  /\ wanted' = bot
  /\ UNCHANGED <<life, botOf, why, session, running, req, ui, queue, runner, waiter, exit,
                 strayStop, dropped>>

\* ... with a client: it is cancelled, and replaced when its Run has returned.
Reconnect(bot) ==
  /\ UIFree /\ ~running /\ ~conn.connecting /\ conn.client # NoGen /\ conn.gen < MaxGen
  /\ conn' = [conn EXCEPT !.connecting = TRUE, !.reconnect = TRUE, !.pending = bot]
  /\ ui' = [at |-> "cut", gen |-> conn.client]
  /\ win' = [win EXCEPT !.connected = FALSE, !.identity = FALSE, !.configErr = FALSE]
  /\ timer' = TimerStopped
  /\ wanted' = bot
  /\ UNCHANGED <<transport, uploads, queue, attempt, runner, waiter, exit, strayStop, dropped>>


\* SetGateway(nil), and the client's context is cancelled.
CutOff ==
  /\ ui.at = "cut"
  /\ gateway' = NoGen
  /\ dead' = dead \cup {ui.gen}
  /\ ui' = [at |-> "free", gen |-> NoGen]
  /\ UNCHANGED <<life, botOf, why, session, running, req, conn, queue, win, timer, attempt,
                 runner, waiter, exit, wanted, strayStop, dropped>>

\* beginUploads and Controller.Start.
StartQueue ==
  /\ UIFree /\ win.connected /\ gateway # NoGen /\ ~running
  /\ running' = TRUE
  /\ UNCHANGED <<transport, gateway, req, window>>

-----------------------------------------------------------------------------
(* Callbacks that the goroutines post.                                     *)

Head1 == queue[1]
Take(kind) == UIFree /\ queue # <<>> /\ Head1.kind = kind /\ queue' = Tail(queue)

RunEnsure ==
  /\ Take("ensure")
  /\ Ensure
  /\ UNCHANGED <<transport, uploads, ui, runner, waiter, exit, wanted>>

\* handleConnectionFailure's callback (connectAsync only fails for good).
RunFailed ==
  /\ Take("failed")
  /\ IF Head1.gen = conn.gen
     THEN /\ win' = [win EXCEPT !.connected = FALSE, !.configErr = TRUE]
          /\ timer' = TimerStopped
     ELSE UNCHANGED <<win, timer>>
  /\ UNCHANGED <<transport, uploads, conn, ui, attempt, runner, waiter, exit, wanted, strayStop,
                 dropped>>

\* Mutant of RunReady: the callback trusts the check made when it was posted.
RunReadyLate ==
  /\ Take("ready")
  /\ conn' = [conn EXCEPT !.connecting = FALSE]
  /\ win' = [win EXCEPT !.connected = TRUE, !.identity = TRUE, !.configErr = FALSE]
  /\ timer' = TimerStopped
  /\ UNCHANGED <<transport, uploads, ui, attempt, runner, waiter, exit, wanted, strayStop,
                 dropped>>

\* waitClientReady's callback.
RunReady ==
  /\ Take("ready")
  /\ IF conn.client = Head1.gen /\ conn.gen = Head1.gen /\ ~conn.reconnect
     THEN /\ conn' = [conn EXCEPT !.connecting = FALSE]
          /\ win' = [win EXCEPT !.connected = TRUE, !.identity = TRUE, !.configErr = FALSE]
          /\ timer' = TimerStopped
     ELSE UNCHANGED <<conn, win, timer>>
  /\ UNCHANGED <<transport, uploads, ui, attempt, runner, waiter, exit, wanted, strayStop,
                 dropped>>

\* handleConnectionState: the transport lost its connection, or has it again.
RunState ==
  /\ queue # <<>> /\ Head1.kind \in {"down", "up"} /\ UIFree
  /\ queue' = Tail(queue)
  /\ IF conn.client = Head1.gen /\ conn.gen = Head1.gen /\ ~conn.reconnect
     THEN IF Head1.kind = "down"
          THEN win' = [win EXCEPT !.connected = FALSE] /\ UNCHANGED timer
          ELSE win' = [win EXCEPT !.connected = win.identity \/ @]
               /\ timer' = IF win.identity THEN TimerStopped ELSE timer
     ELSE UNCHANGED <<win, timer>>
  /\ UNCHANGED <<transport, uploads, conn, ui, attempt, runner, waiter, exit, wanted, strayStop,
                 dropped>>

\* runClient's callback: retry later, report, or start the replacement.
RunStopped ==
  LET g == Head1.gen
      r == runner[g]
      stopped == [win EXCEPT !.connected = FALSE, !.identity = FALSE] IN
  /\ Take("stopped")
  /\ IF r.current /\ conn.gen = g /\ conn.client = NoGen
     THEN /\ r.retry => MayArm
          /\ IF r.again # NoBot /\ ~running /\ g < MaxGen
             THEN /\ Connecting(r.again, FALSE)
                  /\ win' = [stopped EXCEPT !.configErr = FALSE]
             ELSE /\ conn' = [conn EXCEPT !.connecting = FALSE]
                  /\ win' = [stopped EXCEPT !.configErr = ~r.retry /\ (@ \/ r.fatal)]
                  /\ timer' = IF r.retry THEN TimerScheduled ELSE TimerStopped
                  /\ UNCHANGED <<attempt, strayStop, dropped>>
     ELSE UNCHANGED <<conn, attempt, win, timer, strayStop, dropped>>
  /\ runner' = [runner EXCEPT ![g] = [NoRunner EXCEPT !.at = "done"]]
  /\ UNCHANGED <<transport, uploads, ui, waiter, exit, wanted>>

-----------------------------------------------------------------------------
(* connectAsync.                                                           *)

AttemptAt(g, at) == attempt[g].at = at
AttemptTo(g, at) == attempt' = [attempt EXCEPT ![g].at = at]
EndAttempt(g) == attempt' = [attempt EXCEPT ![g] = NoAttempt]

\* Mutant of SaveConfig: retries go on with the configuration of before.
SaveOnly(g) ==
  /\ AttemptAt(g, "save")
  /\ AttemptTo(g, "make")
  /\ conn' = [conn EXCEPT !.applied = IF @ = NoBot THEN attempt[g].bot ELSE @]
  /\ UNCHANGED <<transport, uploads, ui, queue, win, timer, runner, waiter, exit,
                 wanted, strayStop, dropped>>

\* The settings file and then the three secrets are written, or one of them is
\* not; then automatic retries use the new configuration.
SaveConfig(g) ==
  /\ AttemptAt(g, "save")
  /\ \/ /\ AttemptTo(g, "make")
        /\ conn' = IF conn.gen = g /\ ~Closed THEN [conn EXCEPT !.applied = attempt[g].bot] ELSE conn
     \/ AttemptTo(g, "fail") /\ UNCHANGED conn
  /\ UNCHANGED <<transport, uploads, ui, queue, win, timer, runner, waiter, exit,
                 wanted, strayStop, dropped>>

\* NewClient refuses a malformed token or proxy address.
MakeFails(g) ==
  /\ AttemptAt(g, "make")
  /\ AttemptTo(g, "fail")
  /\ UNCHANGED <<transport, uploads, conn, ui, queue, win, timer, runner, waiter, exit,
                 wanted, strayStop, dropped>>

\* Mutant of Publish: SetGateway is called after clientMu is unlocked.
PublishInTwo(g) ==
  \/ /\ AttemptAt(g, "make")
     /\ IF conn.gen # g \/ Closed
        THEN EndAttempt(g) /\ UNCHANGED <<conn, life, botOf>>
        ELSE /\ conn' = [conn EXCEPT !.client = g]
             /\ Becomes(g, "made")
             /\ botOf' = [botOf EXCEPT ![g] = attempt[g].bot]
             /\ AttemptTo(g, "gateway")
     /\ UNCHANGED <<dead, why, session, uploads, ui, queue, win, timer, runner, waiter,
                    exit, wanted, strayStop, dropped>>
  \/ /\ AttemptAt(g, "gateway")
     /\ gateway' = g
     /\ AttemptTo(g, "spawn")
     /\ UNCHANGED <<transport, running, req, conn, ui, queue, win, timer, runner, waiter,
                    exit, wanted, strayStop, dropped>>

\* The client is made and becomes the current one, unless it comes too late.
Publish(g) ==
  /\ AttemptAt(g, "make")
  /\ IF conn.gen # g \/ Closed
     THEN /\ conn' = IF conn.gen = g THEN [conn EXCEPT !.connecting = FALSE] ELSE conn
          /\ EndAttempt(g)
          /\ UNCHANGED <<life, botOf, gateway>>
     ELSE /\ conn' = [conn EXCEPT !.client = g]
          /\ Becomes(g, "made")
          /\ botOf' = [botOf EXCEPT ![g] = attempt[g].bot]
          /\ gateway' = g
          /\ AttemptTo(g, "spawn")
  /\ UNCHANGED <<dead, why, session, running, req, ui, queue, win, timer, runner, waiter,
                 exit, wanted, strayStop, dropped>>

\* startConnectionWorker for both: refused once the workers are stopped.
Spawn(g) ==
  /\ AttemptAt(g, "spawn")
  /\ runner' = [runner EXCEPT ![g].at = IF Closed THEN "none" ELSE "run"]
  /\ waiter' = [waiter EXCEPT ![g] = IF Closed THEN "none" ELSE "wait"]
  /\ EndAttempt(g)
  /\ UNCHANGED <<transport, uploads, conn, ui, queue, win, timer, exit, wanted, strayStop,
                 dropped>>

\* handleConnectionFailure: the user is told that the change was not made.
FailAttempt(g) ==
  /\ AttemptAt(g, "fail")
  /\ IF conn.gen = g
     THEN /\ conn' = [conn EXCEPT !.connecting = FALSE]
          /\ wanted' = IF conn.applied # NoBot THEN conn.applied ELSE wanted
          /\ AttemptTo(g, "report")
     ELSE EndAttempt(g) /\ UNCHANGED <<conn, wanted>>
  /\ UNCHANGED <<transport, uploads, ui, queue, win, timer, runner, waiter, exit, strayStop,
                 dropped>>

ReportFailure(g) ==
  /\ AttemptAt(g, "report")
  /\ Post("failed", g)
  /\ EndAttempt(g)
  /\ UNCHANGED <<transport, uploads, conn, ui, win, timer, runner, waiter, exit, wanted,
                 strayStop, dropped>>

ConnectAsync(g) ==
  SaveConfig(g) \/ MakeFails(g) \/ Publish(g) \/ Spawn(g) \/ FailAttempt(g) \/ ReportFailure(g)

-----------------------------------------------------------------------------
(* runClient and waitClientReady.                                          *)

StartRun(g) ==
  /\ runner[g].at = "run" /\ life[g] = "made"
  /\ Becomes(g, "login")
  /\ UNCHANGED <<botOf, dead, why, session, uploads, window>>

\* Run has returned.  The session of another bot is removed, if that succeeds.
RemoveSession(g) ==
  /\ runner[g].at = "run" /\ life[g] = "ended"
  /\ session' \in IF why[g] = "wrongBot" THEN {NoBot, session} ELSE {session}
  /\ runner' = [runner EXCEPT ![g].at = "detach"]
  /\ UNCHANGED <<life, botOf, dead, why, uploads, conn, ui, queue, win, timer, attempt, waiter,
                 exit, wanted, strayStop, dropped>>

\* The client is no longer the current one and its context is cancelled; other
\* ways to connect are kept out until the callback has run.
Detach(g) ==
  /\ runner[g].at = "detach"
  /\ LET current == conn.client = g /\ conn.gen = g IN
     /\ conn' = IF current
                THEN [conn EXCEPT !.client = NoGen, !.connecting = TRUE, !.reconnect = FALSE,
                                  !.pending = NoBot]
                ELSE conn
     /\ dead' = IF current THEN dead \cup {g} ELSE dead
     /\ runner' = [runner EXCEPT ![g] =
                     [NoRunner EXCEPT !.at = "clear", !.current = current,
                      !.again = IF current /\ conn.reconnect THEN conn.pending ELSE NoBot]]
     /\ strayStop' = (strayStop \/ (current /\ why[g] = "clean"))
  /\ UNCHANGED <<life, botOf, why, session, uploads, ui, queue, win, timer, attempt, waiter,
                 exit, wanted, dropped>>

ClearGateway(g) ==
  /\ runner[g].at = "clear"
  /\ gateway' = IF runner[g].current THEN NoGen ELSE gateway
  /\ runner' = [runner EXCEPT ![g].at = "post"]
  /\ UNCHANGED <<transport, running, req, conn, ui, queue, win, timer, attempt, waiter,
                 exit, wanted, strayStop, dropped>>

\* shouldRetryConnection, with the context as it is by now.
Retryable(g) == ~Closed /\ (why[g] = "transient" \/ (why[g] = "clean" /\ g \notin dead))

PostStopped(g) ==
  /\ runner[g].at = "post"
  \* Nobody looks at the client any more: what it was is forgotten.
  /\ runner' = [runner EXCEPT ![g].at = IF Closed THEN "done" ELSE "posted",
                               ![g].retry = Retryable(g), ![g].fatal = Fatal(g)]
  /\ why' = [why EXCEPT ![g] = "none"] /\ botOf' = [botOf EXCEPT ![g] = NoBot]
  /\ Post("stopped", g)
  /\ UNCHANGED <<life, dead, session, uploads, conn, ui, win, timer, attempt, waiter, exit,
                 wanted, strayStop, dropped>>

RunClient(g) ==
  StartRun(g) \/ RemoveSession(g) \/ Detach(g) \/ ClearGateway(g) \/ PostStopped(g)

Usable(g) == conn.client = g /\ conn.gen = g /\ ~conn.reconnect

\* WaitReady returns: the client is ready, ended or cancelled.
WaitReady(g) ==
  /\ waiter[g] = "wait" /\ (life[g] \in {"ready", "ended"} \/ g \in dead)
  /\ waiter' = [waiter EXCEPT ![g] =
                  IF life[g] = "ready" /\ Usable(g) /\ ~Closed THEN "ready" ELSE "none"]
  /\ UNCHANGED <<transport, uploads, conn, ui, queue, win, timer, attempt, runner,
                 exit, wanted, strayStop, dropped>>

PostReady(g) ==
  /\ waiter[g] = "ready"
  /\ Post("ready", g)
  /\ waiter' = [waiter EXCEPT ![g] = "none"]
  /\ UNCHANGED <<transport, uploads, conn, ui, win, timer, attempt, runner,
                 exit, wanted, strayStop, dropped>>

\* gotd tells the window that the transport was lost or is there again.  Bound:
\* only of a client that is ready, and only when no other callback is waiting.
LinkChanges(g) ==
  /\ life[g] = "ready" /\ queue = <<>>
  /\ \E kind \in {"down", "up"} : Post(kind, g)
  /\ UNCHANGED <<transport, uploads, conn, ui, win, timer, attempt, runner, waiter, exit,
                 wanted, strayStop, dropped>>

-----------------------------------------------------------------------------
(* shutdown, on the interface thread.                                      *)

ExitTo(stage) == exit' = stage

\* closed is set and stopConnectionWorkers follows: a worker that starts between
\* the two might as well have started before.  From now on no callback does
\* anything, no timer posts one and nobody looks at the window: all of it is put
\* back to how it was.
Close ==
  /\ UIFree
  /\ ExitTo("closed")
  /\ queue' = <<>> /\ win' = Blank /\ timer' = NoTimer
  /\ wanted' = conn.applied /\ strayStop' = FALSE /\ dropped' = FALSE
  /\ UNCHANGED <<transport, uploads, conn, ui, attempt, runner, waiter>>

\* For a close the user confirmed CancelAll comes first; then the client is
\* cancelled and belongs to no attempt.
CloseClient ==
  /\ exit = "closed"
  /\ ExitTo("detached")
  /\ req' \in {req, Cut(req)}
  /\ conn' = [conn EXCEPT !.gen = @ + 1, !.client = NoGen, !.connecting = FALSE,
                          !.reconnect = FALSE, !.pending = NoBot]
  /\ dead' = IF conn.client = NoGen THEN dead ELSE dead \cup {conn.client}
  /\ UNCHANGED <<life, botOf, why, session, gateway, running, ui, queue, win, timer, attempt,
                 runner,
                 waiter, wanted, strayStop, dropped>>

\* SetGateway(nil) and rootCancel, which ends what is left of the uploads.
CloseGateway ==
  /\ exit = "detached"
  /\ ExitTo("gone")
  /\ gateway' = NoGen
  /\ dead' = Gens
  /\ req' = Cut(req)
  /\ UNCHANGED <<life, botOf, why, session, running, conn, ui, queue, win, timer, attempt,
                 runner, waiter, wanted, strayStop, dropped>>

Shutdown == Close \/ CloseClient \/ CloseGateway

-----------------------------------------------------------------------------
Init ==
  /\ life = [g \in Gens |-> "none"]
  /\ botOf = [g \in Gens |-> NoBot]
  /\ dead = {}
  /\ why = [g \in Gens |-> "none"]
  /\ session \in Stored
  /\ gateway = NoGen /\ running = FALSE /\ req = NoRequest
  /\ wanted \in Configured
  /\ conn = [client |-> NoGen, gen |-> NoGen, connecting |-> FALSE, reconnect |-> FALSE,
             pending |-> NoBot, applied |-> NoBot]
  /\ ui = [at |-> "free", gen |-> NoGen]
  \* autoConnectIfConfigured
  /\ queue = IF wanted = NoBot THEN <<>> ELSE <<[kind |-> "ensure", gen |-> NoGen]>>
  /\ win = Blank /\ timer = NoTimer
  /\ attempt = [g \in Gens |-> NoAttempt]
  /\ runner = [g \in Gens |-> NoRunner]
  /\ waiter = [g \in Gens |-> "none"]
  /\ exit = "open" /\ strayStop = FALSE /\ dropped = FALSE

Callback == RunEnsure \/ RunFailed \/ RunReady \/ RunState \/ RunStopped

Worker(g) == ConnectAsync(g) \/ RunClient(g) \/ WaitReady(g) \/ PostReady(g)

TransportStep(g) == Transport(g) /\ UNCHANGED window

UploadStep == Uploading /\ UNCHANGED window

Interface ==
  \/ ScheduleEnsures \/ PressInvalid \/ CutOff \/ StartQueue \/ Callback \/ Shutdown
  \/ \E bot \in Bots : Connect(bot) \/ Reconnect(bot)

\* The window is closed and nothing it started is left.
Over == exit = "gone" /\ UNCHANGED vars

Next ==
  \/ Interface \/ TimerFires \/ TimerDelivers \/ UploadStep \/ Over
  \/ \E g \in Gens : Worker(g) \/ TransportStep(g) \/ LinkChanges(g)

\* Goroutines and the interface thread run; timers fire; gotd returns when its
\* context is cancelled.  Nothing is assumed of the network or of Telegram.
Fairness ==
  /\ WF_vars(Callback) /\ WF_vars(CutOff) /\ WF_vars(TimerFires) /\ WF_vars(TimerDelivers)
  /\ WF_vars(req.cut /\ EndRequest /\ UNCHANGED window)
  /\ \A g \in Gens :
       /\ WF_vars(ConnectAsync(g)) /\ WF_vars(RunClient(g))
       /\ WF_vars(g \in dead /\ (LoginFails(g) \/ Stop(g)) /\ UNCHANGED window)
       /\ WF_vars((RequestsDone(g) \/ PoolClosed(g)) /\ UNCHANGED window)

Spec == Init /\ [][Next]_vars

FairSpec == Spec /\ Fairness

-----------------------------------------------------------------------------
ConnTypeOK ==
  /\ life \in [Gens -> {"none", "made", "ended"} \cup Active]
  /\ botOf \in [Gens -> Bots \cup {NoBot}]
  /\ dead \subseteq Gens
  /\ why \in [Gens -> {"none", "wrongBot", "cancelled", "clean", "transient", "fatal"}]
  /\ session \in Bots \cup {NoBot, Unreadable}
  /\ gateway \in Gens \cup {NoGen} /\ running \in BOOLEAN
  /\ req \in [at : {"idle", "captured", "inFlight"}, gen : Gens \cup {NoGen}, cut : BOOLEAN]
  /\ conn \in [client : Gens \cup {NoGen}, gen : 0..(MaxGen + 1), connecting : BOOLEAN,
               reconnect : BOOLEAN, pending : Bots \cup {NoBot}, applied : Bots \cup {NoBot}]
  /\ queue \in Seq([kind : {"ensure", "failed", "ready", "down", "up", "stopped"},
                    gen : Gens \cup {NoGen}])
  /\ timer \in [handle : {"nil", "armed", "fired"}, armed : 0..MaxTimers, fired : 0..MaxTimers]

\* At most one client is inside Run, whatever is pressed, retried or replaced:
\* two would share one encrypted session file.
OneClient == \A g, h \in Gens : life[g] \in Active /\ life[h] \in Active => g = h

\* The session file of a connection that is logged in is that bot's: clearing
\* the session of a wrong bot never meets the file of the next client.
SessionIsClients == \A g \in Gens : life[g] \in {"open", "ready"} => session = botOf[g]

\* When Run of a client has returned, no request of the uploads is in its pool.
NoRequestOutlives == req.at = "inFlight" => life[req.gen] # "ended"

Cleaning(g) == runner[g].at \in {"detach", "clear"}

\* The uploads are never left with a client whose Run is over and whose clean-up
\* has gone by, nor with any client once the window is closed.
GatewayUsable ==
  /\ ~Closed /\ gateway # NoGen /\ life[gateway] = "ended" =>
       runner[gateway].at = "run" \/ Cleaning(gateway)
  /\ exit = "gone" => gateway = NoGen

StopOnTheWay(g) ==
  runner[g].current /\ runner[g].at \in {"clear", "post", "posted"}

\* A window that says it is connected has a client and the uploads have the
\* same one, unless the news of its end is on the way.
ConnectedIsTrue ==
  win.connected /\ ~Closed =>
    \/ conn.client # NoGen /\ gateway = conn.client
    \/ \E g \in Gens : StopOnTheWay(g)

\* A connection is never made with a configuration the user has replaced.
NewestConfigWins ==
  win.connected /\ ~Closed /\ conn.client # NoGen => botOf[conn.client] = wanted

\* Nothing is going on that would change the connection.
Quiet ==
  /\ ~Closed /\ ui.at = "free" /\ queue = <<>> /\ conn.client = NoGen
  /\ \A g \in Gens : attempt[g] = NoAttempt /\ runner[g].at \in {"none", "done"}

RetryComes == timer.armed + timer.fired > 0

\* What the bounds of the model, and not the program, keep from going on.
Bounded == conn.gen = MaxGen

\* An idle window without a client is able to connect, and a retry is coming unless
\* the settings are missing or were refused.  "Connects again by itself" is what the
\* window says of a connection that is down; there are two ends where it does not:
\* a client that ended by itself without an error (strayStop), and a press with
\* fields that are not valid, which stops the retry to come (dropped).
NotStranded ==
  Quiet /\ ~Bounded =>
    ~conn.connecting
    /\ (RetryComes \/ win.configErr \/ Saved = NoBot \/ strayStop \/ dropped)


\* The end of a connection waits for the requests in its pool, and comes.
ClosingEnds == (\E g \in Gens : life[g] = "closing") ~> (\A g \in Gens : life[g] # "closing")
=============================================================================
