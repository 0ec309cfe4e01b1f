--------------------------- MODULE TelegramClient ---------------------------
(***************************************************************************)
(* The life of one-shot Telegram clients (internal/telegram/client.go): a  *)
(* client is made, Run logs in with the shared encrypted session, opens    *)
(* the gate for API requests and the upload pool, and closes both when the *)
(* connection ends.  A client is named by the generation of the attempt    *)
(* that made it.  gotd, the network and the key store answer as they like. *)
(***************************************************************************)
EXTENDS Naturals

CONSTANTS
  Bots,      \* the configurations a user can enter, each of its own bot
  NoBot,     \* nothing entered, or no session stored
  Unreadable,\* a session file that cannot be decrypted
  MaxGen     \* bound: connection attempts

Gens == 1..MaxGen
NoGen == 0

ASSUME ClientConstants ==
  /\ MaxGen \in Nat \ {0}
  /\ NoBot \notin Bots /\ Unreadable \notin Bots /\ NoBot # Unreadable

VARIABLES
  life,     \* stage of each client
  botOf,    \* the configuration it was made with
  dead,     \* clients whose context is cancelled
  why,      \* how Run ended
  session,  \* whose session the file holds
  gateway,  \* the client the controller uses for uploads
  running,  \* the upload queue is running
  req       \* the upload goroutine's request

transport == <<life, botOf, dead, why, session>>
uploads == <<gateway, running, req>>

NoRequest == [at |-> "idle", gen |-> NoGen, cut |-> FALSE]
InFlight(g) == req.at = "inFlight" /\ req.gen = g

\* A request is cancelled: its client stops, or the queue is cancelled.
Cut(r) == [r EXCEPT !.cut = @ \/ r.at = "inFlight"]
Becomes(g, l) == life' = [life EXCEPT ![g] = l]
Ends(g, reason) == Becomes(g, "ended") /\ why' = [why EXCEPT ![g] = reason]

\* Stages between Run's first and last line.
Active == {"login", "open", "ready", "closing", "idle"}

-----------------------------------------------------------------------------
(* Run.                                                                    *)

\* Mutant of Login: the session is not compared with the bot of the token.
LoginUnchecked(g) ==
  /\ life[g] = "login" /\ g \notin dead
  /\ session' = IF session \in Bots THEN session ELSE botOf[g]
  /\ Becomes(g, "open")
  /\ UNCHANGED <<botOf, dead, why, uploads>>

\* Auth().Status loads the session; an unreadable one is put aside.  A session
\* of another bot ends the client with ErrWrongBotSession.
Login(g) ==
  /\ life[g] = "login" /\ g \notin dead
  /\ \/ /\ session \in {NoBot, Unreadable, botOf[g]}
        /\ session' = botOf[g]
        /\ Becomes(g, "open")
        /\ UNCHANGED why
     \/ /\ session \in Bots \ {botOf[g]}
        /\ Ends(g, "wrongBot")
        /\ UNCHANGED session
  /\ UNCHANGED <<botOf, dead, uploads>>

\* The network, Telegram or the key store fails, or the context is cancelled.
\* A login that failed on the way may have put the unreadable file aside.
LoginFails(g) ==
  /\ life[g] = "login"
  /\ \E reason \in IF g \in dead THEN {"cancelled"} ELSE {"transient", "fatal"} : Ends(g, reason)
  /\ session' \in IF session = Unreadable THEN {NoBot, Unreadable} ELSE {session}
  /\ UNCHANGED <<botOf, dead, uploads>>

\* gaps.Run has caught up with the updates.
Ready(g) ==
  /\ life[g] = "open"
  /\ Becomes(g, "ready")
  /\ UNCHANGED <<botOf, dead, why, session, uploads>>

\* Mutant of Stop: the gate closes, and the requests behind it go on.
StopWithoutCancel(g) ==
  /\ life[g] \in {"open", "ready"}
  /\ \E reason \in IF g \in dead THEN {"cancelled"} ELSE {"clean", "transient", "fatal"} :
       why' = [why EXCEPT ![g] = reason]
  /\ Becomes(g, "closing")
  /\ UNCHANGED <<botOf, dead, session, uploads>>

\* The callback of Run returns and stopRequestLifecycle closes the gate and
\* cancels the requests.  gotd can end a client without an error
\* although nobody cancelled it ("clean").
Stop(g) ==
  /\ life[g] \in {"open", "ready"}
  /\ \E reason \in IF g \in dead THEN {"cancelled"} ELSE {"clean", "transient", "fatal"} :
       why' = [why EXCEPT ![g] = reason]
  /\ Becomes(g, "closing")
  /\ req' = IF InFlight(g) THEN Cut(req) ELSE req
  /\ UNCHANGED <<botOf, dead, session, gateway, running>>

\* requestWG.Wait returns.
RequestsDone(g) ==
  /\ life[g] = "closing" /\ ~InFlight(g)
  /\ Becomes(g, "idle")
  /\ UNCHANGED <<botOf, dead, why, session, uploads>>

\* uploadPool.Close, and Run returns.
PoolClosed(g) ==
  /\ life[g] = "idle"
  /\ Becomes(g, "ended")
  /\ UNCHANGED <<botOf, dead, why, session, uploads>>

Transport(g) ==
  Login(g) \/ LoginFails(g) \/ Ready(g) \/ Stop(g) \/ RequestsDone(g) \/ PoolClosed(g)

-----------------------------------------------------------------------------
(* A request of the upload goroutine.                                      *)

\* currentGateway.
CaptureGateway ==
  /\ running /\ req.at = "idle" /\ gateway # NoGen
  /\ req' = [NoRequest EXCEPT !.at = "captured", !.gen = gateway]
  /\ UNCHANGED <<transport, gateway, running>>

\* Mutant of BeginRequest: only the API of the client is looked at.
BeginUngated ==
  /\ req.at = "captured"
  /\ req' = IF life[req.gen] \in {"open", "ready", "closing", "idle"}
            THEN [req EXCEPT !.at = "inFlight"] ELSE NoRequest
  /\ UNCHANGED <<transport, gateway, running>>

\* beginRequest: counted under requestMu, or ErrNotConnected.
BeginRequest ==
  /\ req.at = "captured"
  /\ req' = IF life[req.gen] \in {"open", "ready"}
            THEN [req EXCEPT !.at = "inFlight"] ELSE NoRequest
  /\ UNCHANGED <<transport, gateway, running>>

\* The request returns, by itself or because its context is cancelled.
EndRequest ==
  /\ req.at = "inFlight"
  /\ req' = NoRequest
  /\ UNCHANGED <<transport, gateway, running>>

\* The queue is empty, paused or cancelled.
EndQueue ==
  /\ running /\ req.at = "idle"
  /\ running' = FALSE
  /\ UNCHANGED <<transport, gateway, req>>

Uploading == CaptureGateway \/ BeginRequest \/ EndRequest \/ EndQueue
=============================================================================
