--------------------------- MODULE ConnectionOwner ---------------------------
(***************************************************************************)
(* Who owns the session file.  A client is owned from the moment its       *)
(* attempt publishes it until runClient has detached it, and the window    *)
(* never has two of those: the inductive invariant Owned says how the      *)
(* generations, the attempts, the clients and their clean-up follow one    *)
(* another.  From it: one client inside Run, a session file that is the    *)
(* logged-in client's, uploads that never keep a dead client, and no       *)
(* request that outlives its client.                                       *)
(***************************************************************************)
EXTENDS ConnectionTypes

Owner(g) ==
  \/ life[g] \in {"made"} \cup Active
  \/ attempt[g].at = "spawn" \/ runner[g].at \in {"run", "detach"}

\* Generations are used in order.
NewUnused ==
  \A g \in Gens : g > conn.gen =>
    life[g] = "none" /\ attempt[g].at = "none" /\ runner[g].at = "none"

\* An attempt makes its client, and then starts its runner.
AttemptFirst ==
  \A g \in Gens :
    /\ attempt[g].at \in Before => life[g] = "none" /\ runner[g].at = "none"
    /\ attempt[g].at = "spawn" => life[g] = "made" /\ runner[g].at = "none"

\* Run is called by the runner, which cleans up when it has returned.
RunnerFollows ==
  \A g \in Gens :
    /\ life[g] \in Active => runner[g].at = "run"
    /\ runner[g].at \in {"detach", "clear", "post", "posted", "done"} => life[g] = "ended"

OneOwner == \A g, h \in Gens : Owner(g) /\ Owner(h) => g = h

\* Until the window lets go of it, the owned client is the current one.
OwnerIsClient == exit \in {"open", "closed"} => \A g \in Gens : Owner(g) => conn.client = g

ClientIsOwner ==
  exit = "open" /\ conn.client # NoGen =>
    attempt[conn.client].at = "spawn" \/ runner[conn.client].at \in {"run", "detach"}

ClientIsCurrent == conn.client # NoGen => conn.gen = conn.client

\* The attempt that may publish a client meets no other.
NoClientYet ==
  \A g \in Gens : attempt[g].at \in {"save", "make"} /\ conn.gen = g => conn.client = NoGen

GatewayIsClient ==
  exit = "open" /\ gateway # NoGen =>
    gateway = conn.client \/ (runner[gateway].at = "clear" /\ runner[gateway].current)

NoGatewayLeft == exit = "gone" => gateway = NoGen

\* The end of a client is told once it is cleaned up.
Told == {"posted", "done"}
StoppedAreTold ==
  \A i \in 1..Len(queue) : queue[i].kind = "stopped" => runner[queue[i].gen].at \in Told

RequestIsOpen == req.at = "inFlight" => life[req.gen] \in {"open", "ready", "closing"}

Order == NewUnused /\ AttemptFirst /\ RunnerFollows
Ownership == OneOwner /\ OwnerIsClient /\ ClientIsOwner /\ ClientIsCurrent /\ NoClientYet
Gateways == GatewayIsClient /\ NoGatewayLeft

Owned == Order /\ Ownership /\ Gateways /\ RequestIsOpen /\ SessionIsClients

\* What the proofs below use of the types.
LEMMA Shapes ==
  ASSUME Typed
  PROVE  /\ MaxGen \in Nat /\ Gens = 1..MaxGen /\ NoGen = 0 /\ NoGen \notin Gens
         /\ life \in [Gens -> Stages] /\ botOf \in [Gens -> Bots \cup {NoBot}]
         /\ attempt \in [Gens -> AttemptType] /\ runner \in [Gens -> RunnerType]
         /\ conn.gen \in Nat /\ conn.client \in Gens \cup {NoGen}
         /\ gateway \in Gens \cup {NoGen} /\ (req.at # "idle" => req.gen \in Gens)
         /\ (exit \in {"open", "closed"} => conn.gen <= MaxGen)
         /\ exit \in {"open", "closed", "detached", "gone"}
  BY NoGenIsNone, ClientConstants
     DEF ClientConstants, Typed, TransportTyped, UploadsTyped, ConnTyped, WorkersTyped, Gens

-----------------------------------------------------------------------------
(* Steps that own, publish and detach nothing.                             *)

\* An attempt goes on towards its client, or ends without one; the runner of a
\* client that is cleaned up ends.
AttemptAdvances(g) ==
  \/ attempt'[g].at = attempt[g].at
  \/ attempt[g].at \in Before /\ attempt'[g].at \in {"fail", "report", "none"}
  \/ attempt[g].at = "save" /\ attempt'[g].at = "make"

RunnerRests(g) ==
  \/ runner'[g].at = runner[g].at /\ runner'[g].current = runner[g].current
  \/ runner[g].at \in {"post"} \cup Told /\ runner'[g].at \in Told

LEMMA OwnedKept ==
  ASSUME Typed, Owned, UNCHANGED <<life, session>>,
         \A g \in Gens : AttemptAdvances(g) /\ RunnerRests(g)
                         /\ (botOf'[g] = botOf[g] \/ life[g] = "ended"),
         conn'.client = conn.client, conn'.gen = conn.gen,
         gateway' \in {gateway, NoGen}, exit' \in {exit, "closed"}, exit = "open" \/ exit' = exit,
         req'.at = "inFlight" => req.at = "inFlight" /\ req'.gen = req.gen
  PROVE  Owned'
<1> USE DEF AttemptAdvances, RunnerRests, Told
<1>1. \A g \in Gens : Owner(g)' <=> Owner(g) BY DEF Owner, Before
<1>2. NewUnused' BY DEF Owned, Order, NewUnused, Before
<1>3. AttemptFirst' /\ RunnerFollows' BY DEF Owned, Order, AttemptFirst, RunnerFollows, Before
<1>4. OneOwner' BY <1>1 DEF Owned, Ownership, OneOwner
<1>5. OwnerIsClient' BY <1>1 DEF Owned, Ownership, OwnerIsClient
<1>6. ClientIsOwner' BY Shapes DEF Owned, Ownership, ClientIsOwner, Before
<1>7. ClientIsCurrent' /\ NoClientYet'
  BY DEF Owned, Ownership, ClientIsCurrent, NoClientYet
<1>8. GatewayIsClient' /\ NoGatewayLeft'
  BY Shapes DEF Owned, Gateways, GatewayIsClient, NoGatewayLeft
<1>9. RequestIsOpen' BY DEF Owned, RequestIsOpen
<1>10. SessionIsClients' BY DEF Owned, SessionIsClients
<1> QED BY <1>2, <1>3, <1>4, <1>5, <1>6, <1>7, <1>8, <1>9, <1>10
        DEF Owned, Order, Ownership, Gateways

\* The same when the attempts, the runners and the clients do not change at all.
LEMMA OwnedUntouched ==
  ASSUME Typed, Owned, UNCHANGED <<life, botOf, session, attempt, runner>>,
         conn'.client = conn.client, conn'.gen = conn.gen,
         gateway' \in {gateway, NoGen}, exit' \in {exit, "closed"}, exit = "open" \/ exit' = exit,
         req'.at = "inFlight" => req.at = "inFlight" /\ req'.gen = req.gen
  PROVE  Owned'
  BY OwnedKept DEF AttemptAdvances, RunnerRests

\* A new attempt.
LEMMA OwnedConnecting ==
  ASSUME Typed, Owned, UIFree, NEW bot, NEW auto \in BOOLEAN, Connecting(bot, auto),
         conn.gen < MaxGen, conn.client = NoGen,
         UNCHANGED <<transport, uploads, exit>>, \A g \in Gens : RunnerRests(g)
  PROVE  Owned'
<1> USE DEF RunnerRests, Told
<1> DEFINE n == conn.gen + 1
<1>1. n \in Gens /\ exit = "open" BY Shapes DEF UIFree, Closed
<1>2. /\ conn'.gen = n /\ conn'.client = NoGen
      /\ attempt'[n].at \in {"save", "make"} /\ \A h \in Gens \ {n} : attempt'[h] = attempt[h]
  <2>1. conn' = [conn EXCEPT !.connecting = TRUE, !.gen = n,
                             !.applied = IF auto /\ @ = NoBot THEN bot ELSE @]
        /\ attempt' = [attempt EXCEPT ![n] = [at |-> IF auto THEN "make" ELSE "save",
                                              bot |-> bot, auto |-> auto]]
    BY DEF Connecting
  <2>2. conn'.gen = n /\ conn'.client = conn.client BY <2>1 DEF Typed, ConnTyped
  <2> QED BY <1>1, <2>1, <2>2, Shapes
<1>3. /\ life[n] = "none" /\ runner[n].at = "none" /\ runner'[n].at = "none"
      /\ attempt[n].at = "none"
  BY <1>1, Shapes DEF Owned, Order, NewUnused
<1>4. UNCHANGED <<life, botOf, session, gateway, req>> BY DEF transport, uploads
<1> HIDE DEF n
<1>5. \A g \in Gens : Owner(g)' <=> Owner(g)
  <2> SUFFICES ASSUME NEW g \in Gens PROVE Owner(g)' <=> Owner(g) OBVIOUS
  <2>1. CASE g = n BY <1>2, <1>3, <1>4, <2>1 DEF Owner, Active
  <2>2. CASE g # n BY <1>2, <1>4, <2>2 DEF Owner
  <2> QED BY <2>1, <2>2
<1>6. NewUnused' BY <1>2, <1>4, Shapes DEF n, Owned, Order, NewUnused
<1>7. AttemptFirst' BY <1>2, <1>3, <1>4 DEF Owned, Order, AttemptFirst, Before
<1>8. RunnerFollows' BY <1>3, <1>4 DEF Owned, Order, RunnerFollows
<1>9. OneOwner' BY <1>5 DEF Owned, Ownership, OneOwner
<1>10. OwnerIsClient' BY <1>1, <1>2, <1>5 DEF Owned, Ownership, OwnerIsClient
<1>11. ClientIsOwner' /\ ClientIsCurrent' /\ NoClientYet'
  BY <1>2 DEF ClientIsOwner, ClientIsCurrent, NoClientYet
<1>12. GatewayIsClient' /\ NoGatewayLeft'
  BY <1>1, <1>2, <1>4, Shapes DEF Owned, Gateways, GatewayIsClient, NoGatewayLeft
<1>13. RequestIsOpen' /\ SessionIsClients'
  BY <1>4 DEF Owned, RequestIsOpen, SessionIsClients
<1> QED BY <1>6, <1>7, <1>8, <1>9, <1>10, <1>11, <1>12, <1>13
        DEF Owned, Order, Ownership, Gateways

-----------------------------------------------------------------------------
(* The parts of the system.                                                *)

\* Run of a client: it stays owned, because its runner waits for it.
LEMMA OwnedTransport ==
  ASSUME Typed, Owned, NEW g \in Gens, TransportStep(g)
  PROVE  Owned'
<1>1. life[g] \in Active /\ UNCHANGED <<botOf, gateway, window>>
  BY DEF TransportStep, Transport, Login, LoginFails, Ready, Stop, RequestsDone, PoolClosed,
     Active, uploads
<1>2. UNCHANGED <<conn, attempt, runner, exit>> BY <1>1 DEF window
<1>3. PICK l \in Active \cup {"ended"} : life' = [life EXCEPT ![g] = l]
  BY DEF TransportStep, Transport, Login, LoginFails, Ready, Stop, RequestsDone, PoolClosed,
     Active, Becomes, Ends
<1>4. life'[g] = l /\ \A h \in Gens \ {g} : life'[h] = life[h] BY <1>3, Shapes
<1>5. runner[g].at = "run" /\ attempt[g].at = "none"
  <2>1. attempt[g].at \in {"none", "spawn"} \cup Before BY Shapes DEF AttemptType
  <2> QED BY <1>1, <2>1 DEF Owned, Order, RunnerFollows, AttemptFirst, Active
<1>6. \A h \in Gens : Owner(h)' <=> Owner(h)
  <2> SUFFICES ASSUME NEW h \in Gens PROVE Owner(h)' <=> Owner(h) OBVIOUS
  <2>1. CASE h = g BY <1>2, <1>5, <2>1 DEF Owner
  <2>2. CASE h # g BY <1>2, <1>4, <2>2 DEF Owner
  <2> QED BY <2>1, <2>2
<1>7. Order'
  <2>1. NewUnused' BY <1>2, <1>4, <1>5 DEF Owned, Order, NewUnused
  <2>2. AttemptFirst' BY <1>2, <1>4, <1>5 DEF Owned, Order, AttemptFirst, Before
  <2>3. RunnerFollows' BY <1>2, <1>4, <1>5 DEF Owned, Order, RunnerFollows
  <2> QED BY <2>1, <2>2, <2>3 DEF Order
<1>8. Ownership'
  BY <1>2, <1>6 DEF Owned, Ownership, OneOwner, OwnerIsClient, ClientIsOwner, ClientIsCurrent,
     NoClientYet
<1>9. Gateways' BY <1>1, <1>2 DEF Owned, Gateways, GatewayIsClient, NoGatewayLeft
\* No other client is logged in.
<1>10. \A h \in Gens \ {g} : life[h] \notin Active
  BY <1>1 DEF Owned, Ownership, OneOwner, Owner
<1>11. SessionIsClients' /\ RequestIsOpen'
  <2> USE DEF Owned, SessionIsClients, RequestIsOpen, uploads
  <2>1. CASE Login(g)
    <3>1. CASE session' = botOf[g] /\ life[g] = "login" /\ UNCHANGED <<botOf, req>>
      BY <1>4, <1>10, <3>1, Shapes DEF Active
    <3>2. CASE life'[g] = "ended" /\ life[g] = "login" /\ UNCHANGED <<session, botOf, req>>
      BY <1>4, <3>2, Shapes DEF Active
    <3> QED BY <2>1, <3>1, <3>2, Shapes DEF Login, Ends, Becomes
  <2>2. CASE LoginFails(g)
    <3>1. life[g] = "login" /\ life'[g] = "ended" /\ UNCHANGED <<botOf, req>>
      BY <2>2, Shapes DEF LoginFails, Ends, Becomes
    <3> QED BY <1>4, <1>10, <3>1, Shapes DEF Active
  <2>3. CASE Ready(g)
    <3>1. life[g] = "open" /\ life'[g] = "ready" /\ UNCHANGED <<session, botOf, req>>
      BY <2>3, Shapes DEF Ready, Becomes
    <3> QED BY <1>4, <3>1, Shapes
  <2>4. CASE Stop(g)
    <3>1. /\ life[g] \in {"open", "ready"} /\ life'[g] = "closing" /\ UNCHANGED <<session, botOf>>
          /\ req' \in {req, Cut(req)}
      BY <2>4, Shapes DEF Stop, Becomes
    <3>2. req'.at = req.at /\ req'.gen = req.gen
      BY <3>1 DEF Cut, Typed, UploadsTyped
    <3> QED BY <1>4, <3>1, <3>2, Shapes
  <2>5. CASE RequestsDone(g)
    <3>1. /\ life[g] = "closing" /\ life'[g] = "idle" /\ UNCHANGED <<session, botOf, req>>
          /\ ~InFlight(g)
      BY <2>5, Shapes DEF RequestsDone, Becomes
    <3> QED BY <1>4, <3>1, Shapes DEF InFlight
  <2>6. CASE PoolClosed(g)
    <3>1. life[g] = "idle" /\ life'[g] = "ended" /\ UNCHANGED <<session, botOf, req>>
      BY <2>6, Shapes DEF PoolClosed, Becomes
    <3> QED BY <1>4, <3>1, Shapes
  <2> QED BY <2>1, <2>2, <2>3, <2>4, <2>5, <2>6 DEF TransportStep, Transport
<1> QED BY <1>7, <1>8, <1>9, <1>11 DEF Owned

\* The upload goroutine: a request enters an open client only.
LEMMA OwnedUploads ==
  ASSUME Typed, Owned, UploadStep
  PROVE  Owned'
<1>1. UNCHANGED <<life, botOf, session, attempt, runner, conn, gateway, exit>>
  BY DEF UploadStep, Uploading, CaptureGateway, BeginRequest, EndRequest, EndQueue, transport,
     uploads, window
<1>2. CASE req'.at = "inFlight" => req.at = "inFlight" /\ req'.gen = req.gen
  BY <1>1, <1>2, OwnedUntouched
<1>3. CASE BeginRequest /\ req.at = "captured" /\ life[req.gen] \in {"open", "ready"}
  <2>1. req'.gen = req.gen BY <1>3 DEF BeginRequest, Typed, UploadsTyped
  <2>2. RequestIsOpen' BY <1>1, <1>3, <2>1 DEF RequestIsOpen
  <2>3. Order' BY <1>1 DEF Owned, Order, NewUnused, AttemptFirst, RunnerFollows
  <2>4. Ownership'
    BY <1>1 DEF Owned, Ownership, OneOwner, Owner, OwnerIsClient, ClientIsOwner,
       ClientIsCurrent, NoClientYet
  <2>5. Gateways' /\ SessionIsClients'
    BY <1>1 DEF Owned, Gateways, GatewayIsClient, NoGatewayLeft, SessionIsClients
  <2> QED BY <2>2, <2>3, <2>4, <2>5 DEF Owned
<1>4. req \in [at : {"idle", "captured", "inFlight"}, gen : Gens \cup {NoGen}, cut : BOOLEAN]
  BY DEF Typed, UploadsTyped
<1>5. CASE CaptureGateway
  <2>1. req'.at = "captured" BY <1>5 DEF CaptureGateway, NoRequest
  <2> QED BY <1>2, <2>1
<1>6. CASE BeginRequest /\ ~(life[req.gen] \in {"open", "ready"})
  <2>1. req'.at = "idle" BY <1>6 DEF BeginRequest, NoRequest
  <2> QED BY <1>2, <2>1
<1>7. CASE EndRequest
  <2>1. req'.at = "idle" BY <1>7 DEF EndRequest, NoRequest
  <2> QED BY <1>2, <2>1
<1>8. CASE EndQueue BY <1>2, <1>8 DEF EndQueue
<1>9. BeginRequest => req.at = "captured" BY DEF BeginRequest
<1> QED BY <1>3, <1>5, <1>6, <1>7, <1>8, <1>9 DEF UploadStep, Uploading

\* The interface thread.
LEMMA OwnedEnsure ==
  ASSUME Typed, Owned, UIFree, Ensure, UNCHANGED <<transport, uploads, runner, exit>>
  PROVE  Owned'
<1>1. CASE MayEnsure /\ Connecting(Saved, TRUE)
  <2>1. Connecting(Saved, TRUE) /\ conn.gen < MaxGen /\ conn.client = NoGen
    BY <1>1 DEF MayEnsure
  <2>2. \A g \in Gens : RunnerRests(g) BY DEF RunnerRests
  <2> QED BY <2>1, <2>2, OwnedConnecting
<1>2. CASE FieldsRefused \/ ~MayEnsure
  <2>1. UNCHANGED <<conn, attempt>> BY <1>2 DEF Ensure, FieldsRefused
  <2> QED BY <2>1, OwnedUntouched DEF transport, uploads
<1> QED BY <1>1, <1>2 DEF Ensure

LEMMA OwnedUser ==
  ASSUME Typed, Owned, \/ ScheduleEnsures \/ PressInvalid \/ CutOff \/ StartQueue
                       \/ \E bot \in Bots : Connect(bot) \/ Reconnect(bot)
  PROVE  Owned'
<1>1. CASE ScheduleEnsures BY <1>1, OwnedEnsure DEF ScheduleEnsures
<1>2. CASE CutOff BY <1>2, OwnedUntouched DEF CutOff
<1>3. CASE StartQueue BY <1>3, OwnedUntouched DEF StartQueue, transport, window
<1>4. ASSUME NEW bot \in Bots, Connect(bot) PROVE Owned'
  <2>1. /\ UIFree /\ Connecting(bot, FALSE) /\ conn.gen < MaxGen /\ conn.client = NoGen
        /\ UNCHANGED <<transport, uploads, exit, runner>>
    BY <1>4 DEF Connect
  <2>2. \A g \in Gens : RunnerRests(g) BY <2>1 DEF RunnerRests
  <2> QED BY <2>1, <2>2, OwnedConnecting
<1>5. ASSUME NEW bot \in Bots, Reconnect(bot) PROVE Owned'
  <2>1. conn'.client = conn.client /\ conn'.gen = conn.gen
    BY <1>5 DEF Reconnect, Typed, ConnTyped
  <2> QED BY <1>5, <2>1, OwnedUntouched DEF Reconnect, transport, uploads
<1>6. CASE PressInvalid BY <1>6, OwnedUntouched DEF PressInvalid, transport, uploads
<1> QED BY <1>1, <1>2, <1>3, <1>4, <1>5, <1>6

LEMMA OwnedCallback ==
  ASSUME Typed, Owned, StoppedAreTold, Callback
  PROVE  Owned'
<1>1. queue # <<>> /\ UIFree /\ UNCHANGED <<transport, uploads, exit>>
  BY DEF Callback, RunEnsure, RunFailed, RunReady, RunState, RunStopped, Take
<1>2. CASE RunEnsure BY <1>1, <1>2, OwnedEnsure DEF RunEnsure
<1>3. CASE RunFailed BY <1>1, <1>3, OwnedUntouched DEF RunFailed, transport, uploads
<1>4. CASE RunReady
  <2>1. conn'.client = conn.client /\ conn'.gen = conn.gen
    BY <1>4 DEF RunReady, Typed, ConnTyped
  <2> QED BY <1>1, <1>4, <2>1, OwnedUntouched DEF RunReady, transport, uploads
<1>5. CASE RunState BY <1>1, <1>5, OwnedUntouched DEF RunState, transport, uploads
<1>6. CASE RunStopped
  <2> DEFINE g == Head1.gen
  <2>1. g \in Gens /\ Head1.kind = "stopped"
    BY <1>1, <1>6, TakeTyped DEF RunStopped, Take, Callbacks
  <2>2. runner' = [runner EXCEPT ![g] = [NoRunner EXCEPT !.at = "done"]] BY <1>6 DEF RunStopped
  <2>3. runner[g].at \in Told
    <3>1. 1 \in 1..Len(queue) BY <1>1 DEF Typed, QueueTyped
    <3> QED BY <2>1, <3>1 DEF StoppedAreTold, Head1
  <2>4. runner'[g].at = "done" /\ \A h \in Gens \ {g} : runner'[h] = runner[h]
    BY <2>1, <2>2, Shapes DEF NoRunner
  <2>5. \A h \in Gens : RunnerRests(h) BY <2>3, <2>4 DEF RunnerRests, Told
  <2>6. CASE UNCHANGED attempt /\ conn' \in {conn, [conn EXCEPT !.connecting = FALSE]}
    <3>1. conn'.client = conn.client /\ conn'.gen = conn.gen BY <2>6 DEF Typed, ConnTyped
    <3>2. \A h \in Gens : AttemptAdvances(h) BY <2>6 DEF AttemptAdvances
    <3> QED BY <1>1, <2>5, <2>6, <3>1, <3>2, OwnedKept DEF transport, uploads
  <2>7. CASE /\ conn.gen = g /\ conn.client = NoGen /\ g < MaxGen
             /\ Connecting(runner[g].again, FALSE)
    <3>1. conn.gen < MaxGen /\ conn.client = NoGen BY <2>7
    <3> QED BY <1>1, <2>5, <2>7, <3>1, OwnedConnecting
  <2> QED BY <1>6, <2>6, <2>7 DEF RunStopped
<1> QED BY <1>2, <1>3, <1>4, <1>5, <1>6 DEF Callback

\* shutdown: the window lets go of its client.
LEMMA OwnedShutdown ==
  ASSUME Typed, Owned, Shutdown
  PROVE  Owned'
<1>1. CASE Close BY <1>1, OwnedUntouched DEF Close, UIFree, Closed, ExitTo, transport, uploads
<1>2. CASE CloseClient
  <2>1. /\ UNCHANGED <<life, botOf, session, gateway, attempt, runner>>
        /\ exit' = "detached" /\ exit = "closed"
    BY <1>2 DEF CloseClient, ExitTo
  <2>2. conn'.gen = conn.gen + 1 /\ conn'.client = NoGen
    BY <1>2 DEF CloseClient, Typed, ConnTyped
  <2>3. req'.at = req.at /\ req'.gen = req.gen
    BY <1>2 DEF CloseClient, Cut, Typed, UploadsTyped
  <2>4. Order' BY <2>1, <2>2, Shapes DEF Owned, Order, NewUnused, AttemptFirst, RunnerFollows
  <2>5. Ownership'
    BY <2>1, <2>2 DEF Owned, Ownership, OneOwner, Owner, OwnerIsClient, ClientIsOwner,
       ClientIsCurrent, NoClientYet
  <2>6. Gateways' BY <2>1 DEF Gateways, GatewayIsClient, NoGatewayLeft
  <2>7. RequestIsOpen' /\ SessionIsClients'
    BY <2>1, <2>3 DEF Owned, RequestIsOpen, SessionIsClients
  <2> QED BY <2>4, <2>5, <2>6, <2>7 DEF Owned
<1>3. CASE CloseGateway
  <2>1. /\ UNCHANGED <<life, botOf, session, conn, attempt, runner>>
        /\ exit' = "gone" /\ gateway' = NoGen
    BY <1>3 DEF CloseGateway, ExitTo
  <2>2. req'.at = req.at /\ req'.gen = req.gen
    BY <1>3 DEF CloseGateway, Cut, Typed, UploadsTyped
  <2>3. Order' BY <2>1 DEF Owned, Order, NewUnused, AttemptFirst, RunnerFollows
  <2>4. Ownership'
    BY <2>1 DEF Owned, Ownership, OneOwner, Owner, OwnerIsClient, ClientIsOwner,
       ClientIsCurrent, NoClientYet
  <2>5. Gateways' BY <2>1 DEF Gateways, GatewayIsClient, NoGatewayLeft
  <2>6. RequestIsOpen' /\ SessionIsClients'
    BY <2>1, <2>2 DEF Owned, RequestIsOpen, SessionIsClients
  <2> QED BY <2>3, <2>4, <2>5, <2>6 DEF Owned
<1> QED BY <1>1, <1>2, <1>3 DEF Shutdown

\* connectAsync: publishing a client is the one step that owns.
LEMMA OwnedPublish ==
  ASSUME Typed, Owned, NEW g \in Gens, Publish(g), conn.gen = g, ~Closed
  PROVE  Owned'
<1>1. /\ conn' = [conn EXCEPT !.client = g] /\ life' = [life EXCEPT ![g] = "made"]
      /\ botOf' = [botOf EXCEPT ![g] = attempt[g].bot] /\ gateway' = g
      /\ attempt' = [attempt EXCEPT ![g].at = "spawn"]
      /\ UNCHANGED <<session, req, runner, exit>> /\ attempt[g].at = "make" /\ exit = "open"
  BY DEF Publish, AttemptAt, AttemptTo, Becomes, Closed
<1>2. /\ conn'.client = g /\ conn'.gen = g
      /\ life'[g] = "made" /\ \A h \in Gens \ {g} : life'[h] = life[h] /\ botOf'[h] = botOf[h]
      /\ attempt'[g].at = "spawn" /\ \A h \in Gens \ {g} : attempt'[h] = attempt[h]
  BY <1>1, Shapes DEF Typed, ConnTyped, AttemptType
<1>3. conn.client = NoGen /\ life[g] = "none" /\ runner[g].at = "none"
  BY <1>1 DEF Owned, Order, AttemptFirst, Before, Ownership, NoClientYet
\* Nobody was an owner before.
<1>4. \A h \in Gens : ~Owner(h)
  BY <1>1, <1>3, Shapes DEF Owned, Ownership, OwnerIsClient
<1>5. \A h \in Gens : Owner(h)' => h = g
  <2> SUFFICES ASSUME NEW h \in Gens \ {g} PROVE ~Owner(h)' OBVIOUS
  <2> QED BY <1>1, <1>2, <1>4 DEF Owner
<1>6. NewUnused' BY <1>1, <1>2, Shapes DEF Owned, Order, NewUnused
<1>7. AttemptFirst' BY <1>1, <1>2, <1>3 DEF Owned, Order, AttemptFirst, Before
<1>8. RunnerFollows' BY <1>1, <1>2, <1>3 DEF Owned, Order, RunnerFollows, Active
<1>9. OneOwner' /\ OwnerIsClient' BY <1>2, <1>5 DEF OneOwner, OwnerIsClient
<1>10. ClientIsOwner' /\ ClientIsCurrent' /\ NoClientYet'
  BY <1>2 DEF ClientIsOwner, ClientIsCurrent, NoClientYet
<1>11. Gateways' BY <1>1, <1>2, Shapes DEF Gateways, GatewayIsClient, NoGatewayLeft
<1>12. RequestIsOpen' BY <1>1, <1>2, <1>3, Shapes DEF Owned, RequestIsOpen
<1>13. SessionIsClients' BY <1>1, <1>2 DEF Owned, SessionIsClients
<1> QED BY <1>6, <1>7, <1>8, <1>9, <1>10, <1>11, <1>12, <1>13 DEF Owned, Order, Ownership

LEMMA OwnedSpawn ==
  ASSUME Typed, Owned, NEW g \in Gens, Spawn(g)
  PROVE  Owned'
<1>1. /\ attempt[g].at = "spawn" /\ attempt' = [attempt EXCEPT ![g] = NoAttempt]
      /\ runner' = [runner EXCEPT ![g].at = IF Closed THEN "none" ELSE "run"]
      /\ UNCHANGED <<life, botOf, session, gateway, req, conn, exit>>
  BY DEF Spawn, AttemptAt, EndAttempt, transport, uploads
<1>2. /\ attempt'[g].at = "none" /\ \A h \in Gens \ {g} : attempt'[h] = attempt[h]
      /\ runner'[g].at = (IF Closed THEN "none" ELSE "run")
      /\ \A h \in Gens \ {g} : runner'[h] = runner[h]
  BY <1>1, Shapes DEF NoAttempt, RunnerType
<1>3. life[g] = "made" /\ runner[g].at = "none" BY <1>1 DEF Owned, Order, AttemptFirst
<1>4. \A h \in Gens : Owner(h)' <=> Owner(h)
  <2> SUFFICES ASSUME NEW h \in Gens PROVE Owner(h)' <=> Owner(h) OBVIOUS
  <2>1. CASE h = g BY <1>1, <1>3, <2>1 DEF Owner
  <2>2. CASE h # g BY <1>1, <1>2, <2>2 DEF Owner
  <2> QED BY <2>1, <2>2
<1>5. NewUnused' BY <1>1, <1>2, <1>3 DEF Owned, Order, NewUnused
<1>6. AttemptFirst' BY <1>1, <1>2 DEF Owned, Order, AttemptFirst, Before
<1>7. RunnerFollows' BY <1>1, <1>2, <1>3 DEF Owned, Order, RunnerFollows, Active
<1>8. OneOwner' /\ OwnerIsClient' BY <1>1, <1>4 DEF Owned, Ownership, OneOwner, OwnerIsClient
<1>9. ClientIsOwner' /\ ClientIsCurrent' /\ NoClientYet'
  BY <1>1, <1>2, Shapes
     DEF Owned, Ownership, ClientIsOwner, ClientIsCurrent, NoClientYet, Closed
<1>10. Gateways'
  BY <1>1, <1>2, <1>3, Shapes DEF Owned, Gateways, GatewayIsClient, NoGatewayLeft
<1>11. RequestIsOpen' /\ SessionIsClients'
  BY <1>1 DEF Owned, RequestIsOpen, SessionIsClients
<1> QED BY <1>5, <1>6, <1>7, <1>8, <1>9, <1>10, <1>11 DEF Owned, Order, Ownership

LEMMA OwnedAttempt ==
  ASSUME Typed, Owned, NEW g \in Gens, ConnectAsync(g)
  PROVE  Owned'
<1>1. CASE Spawn(g) BY <1>1, OwnedSpawn
<1>2. CASE Publish(g) /\ conn.gen = g /\ ~Closed BY <1>2, OwnedPublish
<1>3. CASE ~Spawn(g) /\ ~(Publish(g) /\ conn.gen = g /\ ~Closed)
  <2>1. /\ UNCHANGED <<life, botOf, session, gateway, req, runner, exit>>
        /\ attempt[g].at \in Before
        /\ \/ attempt' = [attempt EXCEPT ![g] = NoAttempt]
           \/ attempt' = [attempt EXCEPT ![g].at = "fail"]
           \/ attempt' = [attempt EXCEPT ![g].at = "report"]
           \/ attempt[g].at = "save" /\ attempt' = [attempt EXCEPT ![g].at = "make"]
    BY <1>3 DEF ConnectAsync, SaveConfig, MakeFails, Publish, FailAttempt, ReportFailure,
       AttemptAt, AttemptTo, EndAttempt, Before, transport, uploads
  <2>2. conn'.client = conn.client /\ conn'.gen = conn.gen
    BY <1>3 DEF ConnectAsync, SaveConfig, MakeFails, Publish, FailAttempt, ReportFailure,
       Typed, ConnTyped
  <2>3. \A h \in Gens : AttemptAdvances(h)
    <3>1. PICK a \in AttemptType : attempt' = [attempt EXCEPT ![g] = a]
                                   /\ (\/ a.at \in {"fail", "report", "none"}
                                       \/ attempt[g].at = "save" /\ a.at = "make")
      <4>1. attempt[g] \in AttemptType BY Shapes
      <4>2. NoAttempt \in AttemptType /\ NoAttempt.at = "none" BY DEF NoAttempt, AttemptType
      <4>3. \A at \in Before : /\ [attempt[g] EXCEPT !.at = at] \in AttemptType
                              /\ [attempt[g] EXCEPT !.at = at].at = at
        BY <4>1 DEF AttemptType
      <4> QED BY <2>1, <4>2, <4>3 DEF Before
    <3>2. attempt'[g] = a /\ \A h \in Gens \ {g} : attempt'[h] = attempt[h] BY <3>1, Shapes
    <3> QED BY <2>1, <3>1, <3>2 DEF AttemptAdvances
  <2>4. \A h \in Gens : RunnerRests(h) BY <2>1 DEF RunnerRests
  <2> QED BY <2>1, <2>2, <2>3, <2>4, OwnedKept
<1> QED BY <1>1, <1>2, <1>3

\* runClient: the clean-up ends the ownership when it detaches the client.
LEMMA OwnedStartRun ==
  ASSUME Typed, Owned, NEW g \in Gens, StartRun(g)
  PROVE  Owned'
<1>1. /\ runner[g].at = "run" /\ life[g] = "made" /\ life' = [life EXCEPT ![g] = "login"]
      /\ UNCHANGED <<botOf, session, gateway, req, conn, attempt, runner, exit>>
  BY DEF StartRun, Becomes, uploads, window
<1>2. life'[g] = "login" /\ \A h \in Gens \ {g} : life'[h] = life[h] BY <1>1, Shapes
<1>3. \A h \in Gens : Owner(h)' <=> Owner(h)
  <2> SUFFICES ASSUME NEW h \in Gens PROVE Owner(h)' <=> Owner(h) OBVIOUS
  <2>1. CASE h = g BY <1>1, <2>1 DEF Owner
  <2>2. CASE h # g BY <1>1, <1>2, <2>2 DEF Owner
  <2> QED BY <2>1, <2>2
<1>4. Order' BY <1>1, <1>2 DEF Owned, Order, NewUnused, AttemptFirst, RunnerFollows, Active
<1>5. Ownership'
  BY <1>1, <1>3 DEF Owned, Ownership, OneOwner, OwnerIsClient, ClientIsOwner, ClientIsCurrent,
     NoClientYet
<1>6. Gateways' BY <1>1 DEF Owned, Gateways, GatewayIsClient, NoGatewayLeft
<1>7. RequestIsOpen' /\ SessionIsClients'
  BY <1>1, <1>2, Shapes DEF Owned, RequestIsOpen, SessionIsClients
<1> QED BY <1>4, <1>5, <1>6, <1>7 DEF Owned

LEMMA OwnedRemoveSession ==
  ASSUME Typed, Owned, NEW g \in Gens, RemoveSession(g)
  PROVE  Owned'
<1>1. /\ runner[g].at = "run" /\ life[g] = "ended"
      /\ runner' = [runner EXCEPT ![g].at = "detach"]
      /\ UNCHANGED <<life, botOf, gateway, req, conn, attempt, exit>>
  BY DEF RemoveSession, uploads
<1>2. runner'[g].at = "detach" /\ \A h \in Gens \ {g} : runner'[h] = runner[h]
  BY <1>1, Shapes DEF RunnerType
<1>3. \A h \in Gens : Owner(h)' <=> Owner(h)
  <2> SUFFICES ASSUME NEW h \in Gens PROVE Owner(h)' <=> Owner(h) OBVIOUS
  <2>1. CASE h = g BY <1>1, <1>2, <2>1 DEF Owner
  <2>2. CASE h # g BY <1>1, <1>2, <2>2 DEF Owner
  <2> QED BY <2>1, <2>2
<1>4. NewUnused' /\ AttemptFirst' /\ RunnerFollows'
  BY <1>1, <1>2 DEF Owned, Order, NewUnused, AttemptFirst, RunnerFollows, Before, Active
<1>5. OneOwner' /\ OwnerIsClient' BY <1>1, <1>3 DEF Owned, Ownership, OneOwner, OwnerIsClient
<1>6. ClientIsOwner' /\ ClientIsCurrent' /\ NoClientYet'
  BY <1>1, <1>2, Shapes DEF Owned, Ownership, ClientIsOwner, ClientIsCurrent, NoClientYet
<1>7. Gateways' BY <1>1, <1>2, Shapes DEF Owned, Gateways, GatewayIsClient, NoGatewayLeft
<1>8. RequestIsOpen' BY <1>1 DEF Owned, RequestIsOpen
\* No other client is logged in with the file.
<1>9. \A h \in Gens : life[h] \notin {"open", "ready"}
  BY <1>1 DEF Owned, Ownership, OneOwner, Owner, Active
<1>10. SessionIsClients' BY <1>1, <1>9 DEF SessionIsClients
<1> QED BY <1>4, <1>5, <1>6, <1>7, <1>8, <1>10 DEF Owned, Order, Ownership

LEMMA OwnedDetach ==
  ASSUME Typed, Owned, NEW g \in Gens, Detach(g)
  PROVE  Owned'
<1> DEFINE current == conn.client = g /\ conn.gen = g
<1>1. /\ runner[g].at = "detach" /\ UNCHANGED <<life, botOf, session, gateway, req, attempt, exit>>
      /\ conn' = IF current
                 THEN [conn EXCEPT !.client = NoGen, !.connecting = TRUE, !.reconnect = FALSE,
                                   !.pending = NoBot]
                 ELSE conn
      /\ runner' = [runner EXCEPT ![g] =
                      [NoRunner EXCEPT !.at = "clear", !.current = current,
                         !.again = IF current /\ conn.reconnect THEN conn.pending ELSE NoBot]]
  BY DEF Detach, uploads
<1>2. life[g] = "ended" /\ Owner(g) BY <1>1 DEF Owned, Order, RunnerFollows, Owner
<1>3. exit = "open" => current
  BY <1>2, Shapes DEF Owned, Ownership, OwnerIsClient, ClientIsCurrent
<1>4. conn'.gen = conn.gen /\ conn'.client = (IF current THEN NoGen ELSE conn.client)
  BY <1>1 DEF Typed, ConnTyped
<1>5. /\ runner'[g].at = "clear" /\ runner'[g].current = current
      /\ \A h \in Gens \ {g} : runner'[h] = runner[h]
  BY <1>1, Shapes DEF NoRunner
<1> HIDE DEF current
<1>6. \A h \in Gens : ~Owner(h)'
  <2>1. ~Owner(g)' BY <1>1, <1>2, <1>5 DEF Owner, Active, Owned, Order, AttemptFirst
  <2>2. ASSUME NEW h \in Gens \ {g} PROVE ~Owner(h)'
    <3>1. ~Owner(h) BY <1>2 DEF Owned, Ownership, OneOwner
    <3> QED BY <1>1, <1>5, <3>1 DEF Owner
  <2> QED BY <2>1, <2>2
<1>7. NewUnused' /\ AttemptFirst' /\ RunnerFollows'
  BY <1>1, <1>2, <1>4, <1>5
     DEF Owned, Order, NewUnused, AttemptFirst, RunnerFollows, Before, Active
<1>8. OneOwner' /\ OwnerIsClient' BY <1>6 DEF OneOwner, OwnerIsClient
<1>9. ClientIsOwner' /\ ClientIsCurrent' /\ NoClientYet'
  BY <1>1, <1>3, <1>4 DEF Owned, Ownership, ClientIsOwner, ClientIsCurrent, NoClientYet
<1>10. Gateways'
  <2>1. NoGatewayLeft' BY <1>1 DEF Owned, Gateways, NoGatewayLeft
  <2>2. GatewayIsClient'
    <3> SUFFICES ASSUME exit = "open", gateway # NoGen
                 PROVE  runner'[gateway].at = "clear" /\ runner'[gateway].current
      BY <1>1 DEF GatewayIsClient
    <3>1. current BY <1>3
    <3>2. CASE gateway = g BY <1>5, <3>1, <3>2
    <3>3. CASE gateway # g
      BY <1>5, <3>1, <3>3, Shapes DEF Owned, Gateways, GatewayIsClient, current
    <3> QED BY <3>2, <3>3
  <2> QED BY <2>1, <2>2 DEF Gateways
<1>11. RequestIsOpen' /\ SessionIsClients'
  BY <1>1 DEF Owned, RequestIsOpen, SessionIsClients
<1> QED BY <1>7, <1>8, <1>9, <1>10, <1>11 DEF Owned, Order, Ownership

LEMMA OwnedClearGateway ==
  ASSUME Typed, Owned, NEW g \in Gens, ClearGateway(g)
  PROVE  Owned'
<1>1. /\ runner[g].at = "clear" /\ runner' = [runner EXCEPT ![g].at = "post"]
      /\ gateway' = IF runner[g].current THEN NoGen ELSE gateway
      /\ UNCHANGED <<life, botOf, session, req, conn, attempt, exit>>
  BY DEF ClearGateway, transport
<1>2. /\ runner'[g].at = "post" /\ runner'[g].current = runner[g].current
      /\ \A h \in Gens \ {g} : runner'[h] = runner[h]
  BY <1>1, Shapes DEF RunnerType
<1>3. life[g] = "ended" /\ attempt[g].at # "spawn"
  BY <1>1 DEF Owned, Order, RunnerFollows, AttemptFirst
<1>4. \A h \in Gens : Owner(h)' <=> Owner(h)
  <2> SUFFICES ASSUME NEW h \in Gens PROVE Owner(h)' <=> Owner(h) OBVIOUS
  <2>1. CASE h = g BY <1>1, <1>2, <2>1 DEF Owner
  <2>2. CASE h # g BY <1>1, <1>2, <2>2 DEF Owner
  <2> QED BY <2>1, <2>2
<1>5. NewUnused' /\ AttemptFirst' /\ RunnerFollows'
  BY <1>1, <1>2, <1>3 DEF Owned, Order, NewUnused, AttemptFirst, RunnerFollows, Before, Active
<1>6. OneOwner' /\ OwnerIsClient' BY <1>1, <1>4 DEF Owned, Ownership, OneOwner, OwnerIsClient
<1>7. ClientIsOwner' /\ ClientIsCurrent' /\ NoClientYet'
  BY <1>1, <1>2, Shapes DEF Owned, Ownership, ClientIsOwner, ClientIsCurrent, NoClientYet
<1>8. Gateways'
  <2>1. NoGatewayLeft' BY <1>1 DEF Owned, Gateways, NoGatewayLeft
  <2>2. exit = "open" => conn.client # g
    BY <1>1, <1>3, Shapes DEF Owned, Ownership, ClientIsOwner
  <2>3. GatewayIsClient'
    BY <1>1, <1>2, <2>2, Shapes DEF Owned, Gateways, GatewayIsClient
  <2> QED BY <2>1, <2>3 DEF Gateways
<1>9. RequestIsOpen' /\ SessionIsClients'
  BY <1>1 DEF Owned, RequestIsOpen, SessionIsClients
<1> QED BY <1>5, <1>6, <1>7, <1>8, <1>9 DEF Owned, Order, Ownership

LEMMA OwnedClient ==
  ASSUME Typed, Owned, NEW g \in Gens,
         RunClient(g) \/ WaitReady(g) \/ PostReady(g) \/ LinkChanges(g)
  PROVE  Owned'
<1>1. CASE PostStopped(g)
  <2>1. /\ runner[g].at = "post" /\ UNCHANGED <<life, session, gateway, req, attempt, conn, exit>>
        /\ runner' = [runner EXCEPT ![g].at = IF Closed THEN "done" ELSE "posted",
                                    ![g].retry = Retryable(g), ![g].fatal = Fatal(g)]
        /\ botOf' = [botOf EXCEPT ![g] = NoBot]
    BY <1>1 DEF PostStopped, uploads
  <2>2. runner'[g].at \in Told /\ \A h \in Gens \ {g} : runner'[h] = runner[h]
    BY <2>1, Shapes DEF RunnerType, Told
  <2>3. \A h \in Gens : RunnerRests(h) BY <2>1, <2>2 DEF RunnerRests
  <2>4. \A h \in Gens : AttemptAdvances(h) BY <2>1 DEF AttemptAdvances
  <2>5. \A h \in Gens : botOf'[h] = botOf[h] \/ life[h] = "ended"
    BY <2>1, Shapes DEF Owned, Order, RunnerFollows
  <2> QED BY <2>1, <2>3, <2>4, <2>5, OwnedKept
<1>2. CASE WaitReady(g) \/ PostReady(g) \/ LinkChanges(g)
  BY <1>2, OwnedUntouched DEF WaitReady, PostReady, LinkChanges, transport, uploads
<1> QED BY <1>1, <1>2, OwnedStartRun, OwnedRemoveSession, OwnedDetach, OwnedClearGateway
        DEF RunClient

-----------------------------------------------------------------------------
(* The callbacks that tell of the end of a client.                         *)

\* The runner of a client whose end was told stays where it is.
RunnersTold == \A g \in Gens : runner[g].at \in Told => runner'[g].at \in Told

QueueMoves ==
  \/ queue' \in {queue, <<>>} \/ (queue # <<>> /\ queue' = Tail(queue))
  \/ \E c \in Callbacks : /\ queue' = Append(queue, c)
                          /\ c.kind = "stopped" => runner'[c.gen].at \in Told

LEMMA ToldKept ==
  ASSUME Typed, StoppedAreTold, RunnersTold, QueueMoves
  PROVE  StoppedAreTold'
<1>1. queue \in Seq(Callbacks) /\ Len(queue) \in Nat BY DEF Typed, QueueTyped
<1>2. \A i \in 1..Len(queue) : queue[i].kind = "stopped" => runner'[queue[i].gen].at \in Told
  <2> SUFFICES ASSUME NEW i \in 1..Len(queue), queue[i].kind = "stopped"
               PROVE  runner'[queue[i].gen].at \in Told
    OBVIOUS
  <2>1. queue[i] \in Callbacks BY <1>1
  <2>2. queue[i].gen \in Gens BY <2>1 DEF Callbacks
  <2> QED BY <2>2 DEF StoppedAreTold, RunnersTold
<1>3. CASE queue' \in {queue, <<>>} BY <1>2, <1>3 DEF StoppedAreTold
<1>4. CASE queue # <<>> /\ queue' = Tail(queue)
  <2>1. Len(queue') = Len(queue) - 1 /\ \A i \in 1..Len(queue') : queue'[i] = queue[i + 1]
    BY <1>1, <1>4
  <2> QED BY <1>1, <1>2, <2>1 DEF StoppedAreTold
<1>5. ASSUME NEW c \in Callbacks, queue' = Append(queue, c),
             c.kind = "stopped" => runner'[c.gen].at \in Told
      PROVE  StoppedAreTold'
  <2>1. Len(queue') = Len(queue) + 1 /\ queue'[Len(queue) + 1] = c
        /\ \A i \in 1..Len(queue) : queue'[i] = queue[i]
    BY <1>1, <1>5
  <2> QED BY <1>1, <1>2, <1>5, <2>1 DEF StoppedAreTold
<1> QED BY <1>3, <1>4, <1>5 DEF QueueMoves

LEMMA PostMoves ==
  ASSUME NEW kind, NEW g, [kind |-> kind, gen |-> g] \in Callbacks, Post(kind, g),
         kind = "stopped" /\ ~Closed => runner'[g].at \in Told
  PROVE  QueueMoves
<1>1. CASE Closed BY <1>1 DEF Post, QueueMoves
<1>2. CASE ~Closed BY <1>2 DEF Post, QueueMoves
<1> QED BY <1>1, <1>2

LEMMA ToldNext ==
  ASSUME Typed, Owned, StoppedAreTold, [Next]_vars
  PROVE  StoppedAreTold'
<1>1. CASE Callback
  <2>1. queue # <<>> /\ queue' = Tail(queue)
    BY <1>1 DEF Callback, RunEnsure, RunFailed, RunReady, RunState, RunStopped, Take
  <2>2. \/ UNCHANGED runner
        \/ runner' = [runner EXCEPT ![Head1.gen] = [NoRunner EXCEPT !.at = "done"]]
    BY <1>1 DEF Callback, RunEnsure, RunFailed, RunReady, RunState, RunStopped
  <2>3. RunnersTold BY <2>2, Shapes DEF RunnersTold, NoRunner, Told
  <2> QED BY <2>1, <2>3, ToldKept DEF QueueMoves
<1>2. CASE TimerDelivers
  <2>1. [kind |-> "ensure", gen |-> NoGen] \in Callbacks BY DEF Callbacks
  <2>2. QueueMoves BY <1>2, <2>1, PostMoves DEF TimerDelivers
  <2> QED BY <1>2, <2>2, ToldKept DEF TimerDelivers, RunnersTold
<1>3. ASSUME NEW g \in Gens, ReportFailure(g) \/ PostReady(g) \/ LinkChanges(g)
      PROVE  StoppedAreTold'
  <2>1. PICK kind \in {"failed", "ready", "down", "up"} : Post(kind, g)
    BY <1>3 DEF ReportFailure, PostReady, LinkChanges
  <2>2. [kind |-> kind, gen |-> g] \in Callbacks BY DEF Callbacks, Kinds
  <2>3. QueueMoves BY <2>1, <2>2, PostMoves
  <2> QED BY <1>3, <2>3, ToldKept DEF ReportFailure, PostReady, LinkChanges, RunnersTold
<1>4. ASSUME NEW g \in Gens, PostStopped(g) PROVE StoppedAreTold'
  <2>1. runner[g].at = "post" /\ Post("stopped", g)
        /\ runner' = [runner EXCEPT ![g].at = IF Closed THEN "done" ELSE "posted",
                                    ![g].retry = Retryable(g), ![g].fatal = Fatal(g)]
    BY <1>4 DEF PostStopped
  <2>2. runner'[g].at \in Told /\ \A h \in Gens \ {g} : runner'[h] = runner[h]
    BY <2>1, Shapes DEF RunnerType, Told
  <2>3. [kind |-> "stopped", gen |-> g] \in Callbacks BY DEF Callbacks, Kinds
  <2>4. QueueMoves BY <2>1, <2>2, <2>3, PostMoves
  <2>5. RunnersTold BY <2>2 DEF RunnersTold
  <2> QED BY <2>4, <2>5, ToldKept
<1>5. ASSUME NEW g \in Gens, RemoveSession(g) \/ Detach(g) \/ ClearGateway(g) \/ Spawn(g)
      PROVE  StoppedAreTold'
  <2>1. runner[g].at \notin Told
    BY <1>5 DEF RemoveSession, Detach, ClearGateway, Spawn, AttemptAt, Told, Owned, Order,
       AttemptFirst
  <2>2. \A h \in Gens \ {g} : runner'[h] = runner[h]
    BY <1>5, Shapes DEF RemoveSession, Detach, ClearGateway, Spawn
  <2>3. RunnersTold BY <2>1, <2>2 DEF RunnersTold
  <2>4. queue' = queue BY <1>5 DEF RemoveSession, Detach, ClearGateway, Spawn
  <2> QED BY <2>3, <2>4, ToldKept DEF QueueMoves
<1>6. CASE Shutdown
  <2>1. UNCHANGED runner /\ queue' \in {queue, <<>>}
    BY <1>6 DEF Shutdown, Close, CloseClient, CloseGateway
  <2> QED BY <2>1, ToldKept DEF QueueMoves, RunnersTold
<1>7. CASE UNCHANGED <<queue, runner>>
  BY <1>7, ToldKept DEF QueueMoves, RunnersTold
<1>8. ScheduleEnsures \/ PressInvalid \/ CutOff \/ StartQueue
      \/ (\E bot \in Bots : Connect(bot) \/ Reconnect(bot))
      \/ TimerFires \/ UploadStep \/ UNCHANGED vars
      => UNCHANGED <<queue, runner>>
  BY DEF ScheduleEnsures, PressInvalid, CutOff, StartQueue, Connect, Reconnect, TimerFires, UploadStep, window,
     vars
<1>9. ASSUME NEW g \in Gens,
             SaveConfig(g) \/ MakeFails(g) \/ Publish(g) \/ FailAttempt(g) \/ StartRun(g)
             \/ WaitReady(g) \/ TransportStep(g)
      PROVE  UNCHANGED <<queue, runner>>
  BY <1>9 DEF SaveConfig, MakeFails, Publish, FailAttempt, StartRun, WaitReady, TransportStep,
     window
<1> QED BY <1>1, <1>2, <1>3, <1>4, <1>5, <1>6, <1>7, <1>8, <1>9
        DEF Next, Over, Interface, Worker, ConnectAsync, RunClient

-----------------------------------------------------------------------------
IInv == Typed /\ Owned /\ StoppedAreTold

LEMMA InitOwned == Init => IInv
<1> SUFFICES ASSUME Init PROVE IInv OBVIOUS
<1>1. Typed BY InitTyped
<1>2. \A g \in Gens : life[g] = "none" /\ attempt[g].at = "none" /\ runner[g].at = "none"
  BY DEF Init, NoAttempt, NoRunner
<1>3. conn.client = NoGen /\ gateway = NoGen /\ req.at = "idle" /\ exit = "open"
  BY DEF Init, NoRequest
<1>4. Order BY <1>2 DEF Order, NewUnused, AttemptFirst, RunnerFollows, Before, Active
<1>5. Ownership
  BY <1>2, <1>3 DEF Ownership, OneOwner, Owner, Active, OwnerIsClient, ClientIsOwner,
     ClientIsCurrent, NoClientYet
<1>6. Gateways /\ RequestIsOpen /\ SessionIsClients
  BY <1>2, <1>3 DEF Gateways, GatewayIsClient, NoGatewayLeft, RequestIsOpen, SessionIsClients
<1>7. StoppedAreTold
  <2>1. \A i \in 1..Len(queue) : queue[i].kind = "ensure" BY DEF Init
  <2> QED BY <2>1 DEF StoppedAreTold
<1> QED BY <1>1, <1>4, <1>5, <1>6, <1>7 DEF IInv, Owned

LEMMA NextOwned == IInv /\ [Next]_vars => IInv'
<1> SUFFICES ASSUME IInv, [Next]_vars PROVE IInv' OBVIOUS
<1> USE DEF IInv
<1>1. Typed' BY NextTyped
<1>2. StoppedAreTold' BY ToldNext
<1>3. Owned'
  <2>1. CASE UNCHANGED vars
    BY <2>1, OwnedUntouched DEF vars, window, transport, uploads
  <2>2. CASE Interface BY <2>2, OwnedUser, OwnedCallback, OwnedShutdown DEF Interface
  <2>3. CASE TimerFires \/ TimerDelivers
    BY <2>3, OwnedUntouched DEF TimerFires, TimerDelivers, transport, uploads
  <2>4. CASE UploadStep BY <2>4, OwnedUploads
  <2>5. ASSUME NEW g \in Gens, Worker(g) \/ TransportStep(g) \/ LinkChanges(g) PROVE Owned'
    BY <2>5, OwnedTransport, OwnedAttempt, OwnedClient DEF Worker
  <2> QED BY <2>1, <2>2, <2>3, <2>4, <2>5 DEF Next, Over
<1> QED BY <1>1, <1>2, <1>3

\* The inductive invariant: the order of attempts, clients and clean-up, and who owns what.
THEOREM ConnectionOwned == Spec => []IInv
<1>1. Init => IInv BY InitOwned
<1>2. IInv /\ [Next]_vars => IInv' BY NextOwned
<1> QED BY <1>1, <1>2, PTL DEF Spec

\* Never two clients inside Run with the one session file.
THEOREM OneClientAtATime == Spec => []OneClient
<1>1. IInv => OneClient BY DEF IInv, Owned, Ownership, OneOwner, Owner, OneClient
<1> QED BY <1>1, ConnectionOwned, PTL

\* The session file of a connection that is logged in is that bot's.
THEOREM SessionBelongs == Spec => []SessionIsClients
<1>1. IInv => SessionIsClients BY DEF IInv, Owned
<1> QED BY <1>1, ConnectionOwned, PTL

\* When Run of a client has returned, no request of the uploads is in its pool.
THEOREM RequestsEndFirst == Spec => []NoRequestOutlives
<1>1. IInv => NoRequestOutlives BY DEF IInv, Owned, RequestIsOpen, NoRequestOutlives
<1> QED BY <1>1, ConnectionOwned, PTL

\* The uploads are not left with a client that is gone.
THEOREM GatewayStaysUsable == Spec => []GatewayUsable
<1>1. ASSUME IInv PROVE GatewayUsable
  <2> USE <1>1 DEF IInv, Owned, Gateways
  <2>1. exit = "gone" => gateway = NoGen BY DEF NoGatewayLeft
  <2>2. ASSUME exit = "open", gateway # NoGen, life[gateway] = "ended"
        PROVE  runner[gateway].at = "run" \/ Cleaning(gateway)
    <3>1. CASE gateway = conn.client
      <4>1. gateway \in Gens /\ attempt[gateway].at # "spawn"
        BY <2>2, Shapes DEF Order, AttemptFirst
      <4> QED BY <2>2, <3>1, <4>1 DEF Ownership, ClientIsOwner, Cleaning
    <3>2. CASE runner[gateway].at = "clear" BY <3>2 DEF Cleaning
    <3> QED BY <2>2, <3>1, <3>2 DEF GatewayIsClient
  <2> QED BY <2>1, <2>2 DEF GatewayUsable, Closed
<1> QED BY <1>1, ConnectionOwned, PTL
=============================================================================
