---------------------------- MODULE TelemetryLink ----------------------------
(***************************************************************************)
(* web/src/link.ts: the one WebSocket a browser keeps up to the engine,    *)
(* with the session probe of web/src/api.ts.  The browser runs one         *)
(* callback at a time, so each callback - of a socket, a timer, a promise, *)
(* a window event - is one action.                                         *)
(*                                                                         *)
(* A socket is named by the generation it was opened under: that number is *)
(* all its callbacks know of whether they still matter.  Sockets, network  *)
(* and engine are the environment, modelled from how link.ts uses them.    *)
(* How long a wait lasts is abstracted away: a timer that is set may fire. *)
(***************************************************************************)
EXTENDS Naturals

CONSTANTS MaxTrouble,   (* bound: what may go wrong with network and engine  *)
          MaxNudges     (* bound: starts, stops and wakes                    *)

ASSUME BudgetAssumption == MaxTrouble \in Nat /\ MaxNudges \in Nat

VARIABLES
  running, generation, socket,    \* the fields; socket = 0 for null
  retryTimer, silenceTimer,       \* whether each timer is set
  probes,                         \* generations whose checkSession() is unanswered
  opened,                         \* sockets whose own `opened` is true
  connection, snapshot, stale,    \* LinkState; snapshot: the socket it came by, 0 for null
  retryAt, attempt,               \* LinkState; retryAt: whether it is not null
  net,                            \* where each socket really is
  signedIn,                       \* the engine still knows this browser's session
  trouble, nudges                 \* what is left of the bounds

linkVars  == <<running, generation, socket, retryTimer, silenceTimer, probes, opened>>
stateVars == <<connection, snapshot, stale, retryAt, attempt>>
vars == <<linkVars, stateVars, net, signedIn, trouble, nudges>>

Connections == {"connecting", "live", "lost", "unauthorized"}

(* "never": a generation no socket was opened under.  "dead": open as far  *)
(* as the browser can tell, though nothing will come by it any more.       *)
(* "failed": its error was delivered, its close is still to come.          *)
Phases == {"never", "connecting", "open", "dead", "closing", "failed", "closed"}

TypeOK ==
  /\ running \in BOOLEAN /\ retryTimer \in BOOLEAN /\ silenceTimer \in BOOLEAN
  /\ generation \in Nat
  /\ socket \in 0..generation /\ snapshot \in 0..generation
  /\ probes \subseteq 1..generation /\ opened \subseteq 1..generation
  /\ connection \in Connections
  /\ stale \in BOOLEAN /\ retryAt \in BOOLEAN /\ attempt \in Nat
  /\ net \in [1..generation -> Phases]
  /\ signedIn \in BOOLEAN
  /\ trouble \in 0..MaxTrouble /\ nudges \in 0..MaxNudges

Init ==
  /\ running = FALSE /\ generation = 0 /\ socket = 0
  /\ retryTimer = FALSE /\ silenceTimer = FALSE
  /\ probes = {} /\ opened = {}
  /\ connection = "connecting" /\ snapshot = 0 /\ stale = FALSE
  /\ retryAt = FALSE /\ attempt = 0
  /\ net = [g \in 1..0 |-> "never"]
  /\ signedIn = TRUE
  /\ trouble = MaxTrouble /\ nudges = MaxNudges

-----------------------------------------------------------------------------
(* Helpers.                                                                *)

Remembering == snapshot # 0

(* readyState OPEN or CONNECTING: what wake() leaves alone. *)
InUse(g) == g # 0 /\ net[g] \in {"connecting", "open", "dead"}

Troubled(needed) == needed /\ trouble > 0 /\ trouble' = trouble - 1
Nudged == nudges > 0 /\ nudges' = nudges - 1

(* The sockets once the next generation has begun, in phase p, and the     *)
(* socket held until now has been let go of with socket?.close() or not.   *)
Hung(n, g) == [n EXCEPT ![g] = IF InUse(g) THEN "closing" ELSE @]
LetGo      == IF socket = 0 THEN net ELSE Hung(net, socket)
NextNet(n, p) == [g \in 1..generation + 1 |-> IF g <= generation THEN n[g] ELSE p]

(* connect: close what is held, and open a socket under a new generation.  *)
Connect ==
  /\ generation' = generation + 1
  /\ net' = NextNet(LetGo, "connecting")
  /\ socket' = generation + 1
  /\ silenceTimer' = FALSE
  /\ connection' = "connecting" /\ stale' = Remembering /\ retryAt' = FALSE
  /\ UNCHANGED <<probes, opened, snapshot>>

ScheduleRetry ==
  /\ retryTimer' = TRUE /\ retryAt' = TRUE
  /\ attempt' = attempt + 1

-----------------------------------------------------------------------------
(* The outside world: start, stop, wake.                                   *)

Start ==
  /\ Nudged /\ ~running
  /\ running' = TRUE
  /\ Connect
  /\ UNCHANGED <<retryTimer, attempt, signedIn, trouble>>

(* Mutant: the socket is left open behind a console that has stopped.      *)
Stop_Leaks ==
  /\ Nudged
  /\ running' = FALSE
  /\ generation' = generation + 1
  /\ net' = NextNet(net, "never")
  /\ socket' = 0
  /\ retryTimer' = FALSE /\ silenceTimer' = FALSE
  /\ UNCHANGED <<probes, opened, stateVars, signedIn, trouble>>

Stop ==
  /\ Nudged
  /\ running' = FALSE
  /\ generation' = generation + 1
  /\ net' = NextNet(LetGo, "never")
  /\ socket' = 0
  /\ retryTimer' = FALSE /\ silenceTimer' = FALSE
  /\ UNCHANGED <<probes, opened, stateVars, signedIn, trouble>>

(* The laptop woke, the network came back, the Operator looked at the tab. *)
Wake ==
  /\ Nudged /\ running
  /\ connection # "unauthorized"
  /\ ~InUse(socket)
  /\ retryTimer' = FALSE
  /\ attempt' = 0
  /\ Connect
  /\ UNCHANGED <<running, signedIn, trouble>>

-----------------------------------------------------------------------------
(* The socket's callbacks.  One of a generation that is past does nothing. *)

(* Mutant: the handshake itself passes for news.                           *)
Accepted_AsNews(g) ==
  /\ net[g] = "connecting" /\ signedIn
  /\ net' = [net EXCEPT ![g] = "open"]
  /\ IF g = generation
       THEN /\ opened' = opened \cup {g}
            /\ connection' = "live" /\ stale' = FALSE
            /\ attempt' = 0 /\ retryAt' = FALSE
            /\ silenceTimer' = TRUE
       ELSE UNCHANGED <<opened, connection, stale, attempt, retryAt, silenceTimer>>
  /\ UNCHANGED <<running, generation, socket, retryTimer, probes, snapshot, signedIn,
                 trouble, nudges>>

(* Mutant: only a snapshot starts the watch for silence.                   *)
Accepted_Unwatched(g) ==
  /\ net[g] = "connecting" /\ signedIn
  /\ net' = [net EXCEPT ![g] = "open"]
  /\ IF g = generation
       THEN /\ opened' = opened \cup {g}
            /\ connection' = "live" /\ stale' = Remembering
            /\ attempt' = 0 /\ retryAt' = FALSE
       ELSE UNCHANGED <<opened, connection, stale, attempt, retryAt>>
  /\ UNCHANGED <<running, generation, socket, retryTimer, silenceTimer, probes, snapshot,
                 signedIn, trouble, nudges>>

(* onopen: the handshake is not the news. *)
Accepted(g) ==
  /\ net[g] = "connecting" /\ signedIn
  /\ net' = [net EXCEPT ![g] = "open"]
  /\ IF g = generation
       THEN /\ opened' = opened \cup {g}
            /\ connection' = "live" /\ stale' = Remembering
            /\ attempt' = 0 /\ retryAt' = FALSE
            /\ silenceTimer' = TRUE
       ELSE UNCHANGED <<opened, connection, stale, attempt, retryAt, silenceTimer>>
  /\ UNCHANGED <<running, generation, socket, retryTimer, probes, snapshot, signedIn,
                 trouble, nudges>>

(* onmessage: a snapshot, or something that does not parse as one. *)
Pushed(g, parses) ==
  /\ net[g] = "open"
  /\ IF parses THEN UNCHANGED trouble ELSE Troubled(TRUE)
  /\ silenceTimer' = (silenceTimer \/ g = generation)
  /\ IF g = generation /\ parses
       THEN connection' = "live" /\ snapshot' = g /\ stale' = FALSE
       ELSE UNCHANGED <<connection, snapshot, stale>>
  /\ UNCHANGED <<running, generation, socket, retryTimer, probes, opened, retryAt,
                 attempt, net, signedIn, nudges>>

(* Mutant: the question is asked under the generation just retired, so     *)
(* nobody listens to the answer.                                           *)
Lost_Unheard(everOpened) ==
  IF running
    THEN /\ connection' = "lost" /\ stale' = Remembering
         /\ IF everOpened
              THEN ScheduleRetry /\ UNCHANGED probes
              ELSE probes' = probes \cup {generation} /\ UNCHANGED <<retryTimer, retryAt, attempt>>
    ELSE UNCHANGED <<connection, stale, probes, retryTimer, retryAt, attempt>>

(* lost: retry what was once open; ask about what never was. *)
Lost(everOpened) ==
  IF running
    THEN /\ connection' = "lost" /\ stale' = Remembering
         /\ IF everOpened
              THEN ScheduleRetry /\ UNCHANGED probes
              ELSE probes' = probes \cup {generation'} /\ UNCHANGED <<retryTimer, retryAt, attempt>>
    ELSE UNCHANGED <<connection, stale, probes, retryTimer, retryAt, attempt>>

(* Mutant: a closed socket is not retired, so its second close counts too. *)
OnClose_Unretired(g, phase) ==
  /\ generation' = generation
  /\ net' = [net EXCEPT ![g] = phase]
  /\ IF g = generation
       THEN socket' = 0 /\ silenceTimer' = FALSE /\ Lost(g \in opened)
       ELSE UNCHANGED <<socket, silenceTimer, retryTimer, probes, connection, stale, retryAt, attempt>>
  /\ UNCHANGED <<running, opened, snapshot>>

(* onclose, the socket now being in the phase given. *)
OnClose(g, phase) ==
  /\ IF g = generation
       THEN /\ generation' = generation + 1
            /\ net' = NextNet([net EXCEPT ![g] = phase], "never")
            /\ socket' = 0
            /\ silenceTimer' = FALSE
            /\ Lost(g \in opened)
       ELSE /\ net' = [net EXCEPT ![g] = phase]
            /\ UNCHANGED <<generation, socket, silenceTimer, retryTimer, probes,
                           connection, stale, retryAt, attempt>>
  /\ UNCHANGED <<running, opened, snapshot>>

(* The upgrade is refused, for want of a session.  browserSocket delivers  *)
(* an error as a close, and the close follows.                             *)
Refused(g) ==
  /\ net[g] = "connecting" /\ ~signedIn
  /\ OnClose(g, "failed")
  /\ UNCHANGED <<signedIn, trouble, nudges>>

(* A handshake or a connection fails. *)
Broken(g) ==
  /\ net[g] \in {"connecting", "open", "closing"}
  /\ IF net[g] = "closing" THEN UNCHANGED trouble ELSE Troubled(TRUE)
  /\ OnClose(g, "failed")
  /\ UNCHANGED <<signedIn, nudges>>

(* The close itself, the engine's doing if the socket was open. *)
Closed(g) ==
  /\ net[g] \in {"failed", "closing", "dead", "open"}
  /\ IF net[g] = "open" THEN Troubled(TRUE) ELSE UNCHANGED trouble
  /\ OnClose(g, "closed")
  /\ UNCHANGED <<signedIn, nudges>>

-----------------------------------------------------------------------------
(* Timers and the probe.                                                   *)

RetryFires ==
  /\ retryTimer
  /\ retryTimer' = FALSE
  /\ IF running
       THEN Connect
       ELSE UNCHANGED <<generation, socket, silenceTimer, probes, opened, connection,
                        snapshot, stale, retryAt, net>>
  /\ UNCHANGED <<running, attempt, signedIn, trouble, nudges>>

(* watchForSilence: nothing was heard for SILENCE_LIMIT_MS. *)
SilenceFires ==
  /\ silenceTimer
  /\ silenceTimer' = FALSE
  /\ IF running
       THEN /\ generation' = generation + 1
            /\ net' = NextNet(LetGo, "never")
            /\ socket' = 0
            /\ connection' = "lost" /\ stale' = Remembering
            /\ ScheduleRetry
       ELSE UNCHANGED <<generation, net, socket, connection, stale, retryTimer, retryAt, attempt>>
  /\ UNCHANGED <<running, probes, opened, snapshot, signedIn, nudges>>

(* It outlasts two pulses of the engine, so it fires only on a connection  *)
(* that has died - or on one that trouble has kept silent that long.       *)
Heard == socket # 0 /\ net[socket] = "open"
SilenceNoticed == ~Heard /\ SilenceFires /\ UNCHANGED trouble
SilenceMistaken == Heard /\ Troubled(TRUE) /\ SilenceFires

(* Mutants: an engine that cannot be reached is taken for one that has     *)
(* forgotten us; a session that is good is left at that.                   *)
ProbeAnswers_Hasty(g, result) ==
  /\ probes' = probes \ {g}
  /\ IF ~running \/ g # generation
       THEN UNCHANGED <<connection, retryAt, retryTimer, attempt>>
       ELSE IF result # "ok"
         THEN connection' = "unauthorized" /\ retryAt' = FALSE /\ UNCHANGED <<retryTimer, attempt>>
         ELSE ScheduleRetry /\ UNCHANGED connection
ProbeAnswers_Content(g, result) ==
  /\ probes' = probes \ {g}
  /\ IF ~running \/ g # generation \/ result = "ok"
       THEN UNCHANGED <<connection, retryAt, retryTimer, attempt>>
       ELSE IF result = "unauthorized"
         THEN connection' = "unauthorized" /\ retryAt' = FALSE /\ UNCHANGED <<retryTimer, attempt>>
         ELSE ScheduleRetry /\ UNCHANGED connection

(* What lost() does with checkSession's answer. *)
ProbeAnswers(g, result) ==
  /\ probes' = probes \ {g}
  /\ IF ~running \/ g # generation
       THEN UNCHANGED <<connection, retryAt, retryTimer, attempt>>
       ELSE IF result = "unauthorized"
         THEN connection' = "unauthorized" /\ retryAt' = FALSE /\ UNCHANGED <<retryTimer, attempt>>
         ELSE ScheduleRetry /\ UNCHANGED connection

(* checkSession: what the engine answers, or that it does not. *)
Probed(g) ==
  /\ g \in probes
  /\ \/ ProbeAnswers(g, IF signedIn THEN "ok" ELSE "unauthorized") /\ UNCHANGED trouble
     \/ ProbeAnswers(g, "unreachable") /\ Troubled(TRUE)
  /\ UNCHANGED <<running, generation, socket, silenceTimer, opened, snapshot, stale, net,
                 signedIn, nudges>>

-----------------------------------------------------------------------------
(* Network and engine (external).                                          *)

(* A connection dies without a word: sleep, or an access point gone.       *)
Dies(g) ==
  /\ net[g] = "open" /\ Troubled(TRUE)
  /\ net' = [net EXCEPT ![g] = "dead"]
  /\ UNCHANGED <<linkVars, stateVars, signedIn, nudges>>

(* The browser finds a dead socket closed, and never fires its event. *)
Forgotten(g) ==
  /\ net[g] = "dead"
  /\ net' = [net EXCEPT ![g] = "closed"]
  /\ UNCHANGED <<linkVars, stateVars, signedIn, trouble, nudges>>

(* The session ends: by its age, which open sockets survive, or because    *)
(* the engine restarted, which they do not.                                *)
SignedOut ==
  /\ signedIn /\ Troubled(TRUE)
  /\ signedIn' = FALSE
  /\ \/ UNCHANGED net
     \/ net' = [g \in 1..generation |-> IF net[g] = "open" THEN "dead" ELSE net[g]]
  /\ UNCHANGED <<linkVars, stateVars, nudges>>

-----------------------------------------------------------------------------
Sockets == 1..generation

User     == Start \/ Stop \/ Wake
Timers   == RetryFires \/ SilenceNoticed \/ SilenceMistaken
Callbacks(g) ==
  \/ Accepted(g) \/ Pushed(g, TRUE) \/ Pushed(g, FALSE)
  \/ Refused(g) \/ Broken(g) \/ Closed(g) \/ Probed(g)
Network(g) == Dies(g) \/ Forgotten(g)

Next ==
  \/ User \/ Timers \/ SignedOut
  \/ \E g \in Sockets : Callbacks(g) \/ Network(g)

Spec == Init /\ [][Next]_vars

(* Timers fire, handshakes and probes are answered (the browser bounds     *)
(* both), and the engine speaks on a connection that is up: at once, and   *)
(* with every pulse.  Trouble is never assumed to come.                    *)
FairSpec ==
  /\ Spec
  /\ WF_vars(RetryFires)
  /\ WF_vars(SilenceNoticed)
  /\ WF_vars(\E g \in Sockets : Accepted(g) \/ Refused(g))
  /\ WF_vars(\E g \in Sockets : Probed(g))
  /\ WF_vars(\E g \in Sockets : g = generation /\ Pushed(g, TRUE))

-----------------------------------------------------------------------------
(* Safety.                                                                 *)

(* LinkState.stale: what a running link shows undimmed came by the socket  *)
(* it now holds, and that socket has told it of no end.                    *)
NoMemoryAsNews ==
  running /\ Remembering /\ ~stale =>
    connection = "live" /\ socket = snapshot /\ socket = generation

(* Every socket but the one held has been closed, or is over by itself: no *)
(* reconnection, sleep or stop leaves the engine feeding one nobody hears. *)
NoSocketLeaks == \A g \in Sockets : InUse(g) => g = socket /\ running

(* A running link that has not been sent to the login page is waiting for  *)
(* exactly one thing - its socket, its session probe or its retry - so it  *)
(* is neither stranded nor connecting twice; and it is telling the         *)
(* Operator which (retryAt).                                               *)
Awaited == {w \in {"socket", "probe", "retry"} :
              \/ w = "socket" /\ socket # 0
              \/ w = "probe"  /\ generation \in probes
              \/ w = "retry"  /\ retryTimer}
OneThingAwaited ==
  running => /\ (connection # "unauthorized" => \E w \in Awaited : Awaited = {w})
             /\ (connection = "unauthorized" => Awaited = {})
             /\ retryAt = retryTimer

(* Only an engine that has forgotten this browser sends it to log in. *)
LoginOnlyWhenForgotten == connection = "unauthorized" => ~signedIn

-----------------------------------------------------------------------------
(* What these rest on.                                                     *)

(* A link that is not running is waiting for nothing; one that is has its  *)
(* current generation's socket or, that being over, no socket under its    *)
(* current generation; and silence is watched for on a socket only.        *)
HoldsItsOwn ==
  /\ ~running => socket = 0 /\ ~retryTimer
  /\ socket # 0 => socket = generation
  /\ socket = 0 /\ generation # 0 => net[generation] = "never"
  /\ silenceTimer => socket # 0

LinkInductive ==
  /\ TypeOK
  /\ HoldsItsOwn
  /\ NoMemoryAsNews
  /\ NoSocketLeaks
  /\ OneThingAwaited
  /\ LoginOnlyWhenForgotten

-----------------------------------------------------------------------------
(* Liveness.                                                               *)

(* A running link comes to show the present, or to the login page.         *)
Recovers ==
  running ~> \/ ~running \/ connection = "unauthorized"
             \/ connection = "live" /\ Remembering /\ ~stale

(* A connection that died without a word does not pass for live for ever.  *)
DeadIsNoticed ==
  connection = "live" /\ ~Heard ~> connection # "live" \/ Heard \/ ~running

(* A browser the engine has forgotten, once its connection is gone, comes  *)
(* to be sent to the login page.                                           *)
ForgottenIsTold ==
  running /\ ~signedIn /\ ~Heard ~> connection = "unauthorized" \/ ~running
=============================================================================
