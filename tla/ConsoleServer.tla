---------------------------- MODULE ConsoleServer ----------------------------
(***************************************************************************)
(* engine/console.py: the telemetry side of the Operator Console's server. *)
(* Every open socket is sent a whole-state snapshot when it attaches, when *)
(* the engine changes, and with every pulse.                               *)
(*                                                                         *)
(* One event loop runs handlers, broadcasts and the pulse, so an action is *)
(* what one of them does between two awaits.  Global Config is read in a   *)
(* thread; the live call is looked at when the loop has the result.        *)
(*                                                                         *)
(* What the engine and the config file hold is abstracted to how often     *)
(* each has changed.  A socket is used once; a browser that comes back     *)
(* comes back with another.                                                *)
(***************************************************************************)
EXTENDS Naturals, Sequences

CONSTANTS Sockets,
          MaxChanges, MaxWrites,  (* bounds: engine changes, config writes  *)
          MaxTrouble,             (* bound: stalls, departures and the stop *)
          Unreadable,             (* versions of the config that take_snapshot rejects *)
          Malformed               (* those it raises something else for     *)

ASSUME BoundsAssumption == {MaxChanges, MaxWrites, MaxTrouble} \subseteq Nat
ASSUME ConfigAssumption ==
  /\ Unreadable \subseteq Nat /\ Malformed \subseteq Nat
  /\ Unreadable \cap Malformed = {}

VARIABLES
  call, config,       \* engine changes announced; writes of Global Config
  sockets,            \* _sockets
  handler, read,      \* _handle_telemetry: where each is, and the config it read
  casts,              \* _broadcast tasks, in the order they ask for the lock
  pulse,              \* _pulse
  closing,            \* sockets a _close_quietly task is closing
  serving, toClose,   \* stop(): how far it is, and which sockets it has yet to close
  line,               \* each socket's connection
  got,                \* the last snapshot each was sent while attached
  trouble

serverVars == <<sockets, handler, read, casts, pulse, closing, serving, toClose>>
vars == <<call, config, serverVars, line, got, trouble>>

Snapshots == [config : 0..MaxWrites, call : 0..MaxChanges]
Nothing   == [config |-> 0, call |-> 0]

Cast(by) == [by |-> by, step |-> "waiting", snapshot |-> Nothing, targets |-> {}]
Casts == [by : {"change", "pulse"}, step : {"waiting", "reading", "read", "sending"},
          snapshot : Snapshots, targets : SUBSET Sockets]

TypeOK ==
  /\ call \in 0..MaxChanges /\ config \in 0..MaxWrites
  /\ sockets \subseteq Sockets
  /\ handler \in [Sockets -> {"none", "reading", "read", "open", "closing", "gone"}]
  /\ read \in [Sockets -> 0..MaxWrites]
  /\ casts \in Seq(Casts)
  /\ pulse \in {"sleeping", "casting", "dead", "off"}
  /\ closing \subseteq Sockets /\ toClose \subseteq Sockets
  /\ serving \in {"up", "stopping", "cleaning", "down"}
  /\ line \in [Sockets -> {"fresh", "up", "stalled", "closed"}]
  /\ got \in [Sockets -> Snapshots]
  /\ trouble \in 0..MaxTrouble

Init ==
  /\ call = 0 /\ config = 0
  /\ sockets = {}
  /\ handler = [s \in Sockets |-> "none"] /\ read = [s \in Sockets |-> 0]
  /\ casts = <<>>
  /\ pulse = "sleeping"
  /\ closing = {} /\ toClose = {}
  /\ serving = "up"
  /\ line = [s \in Sockets |-> "fresh"]
  /\ got = [s \in Sockets |-> Nothing]
  /\ trouble = MaxTrouble

-----------------------------------------------------------------------------
(* What is watched, and who watches (external).                            *)

(* Mutant: a broadcast under way is taken to cover the change as well.     *)
EngineChanges_Coalesced ==
  /\ call < MaxChanges
  /\ call' = call + 1
  /\ casts' = IF serving = "up" /\ casts = <<>> THEN Append(casts, Cast("change")) ELSE casts
  /\ UNCHANGED <<config, sockets, handler, read, pulse, closing, serving, toClose, line, got,
                 trouble>>

(* Mutant: a stopped server is still subscribed. *)
EngineChanges_Subscribed ==
  /\ call < MaxChanges
  /\ call' = call + 1
  /\ casts' = Append(casts, Cast("change"))
  /\ UNCHANGED <<config, sockets, handler, read, pulse, closing, serving, toClose, line, got,
                 trouble>>

(* _on_engine_change: one broadcast each; stop() unsubscribes.  Handing it *)
(* to the loop and spawning it are one step, as neither changes the order. *)
EngineChanges ==
  /\ call < MaxChanges
  /\ call' = call + 1
  /\ casts' = IF serving = "up" THEN Append(casts, Cast("change")) ELSE casts
  /\ UNCHANGED <<config, sockets, handler, read, pulse, closing, serving, toClose, line, got,
                 trouble>>

(* An Operator rewrites Global Config; nobody tells the server. *)
ConfigWritten ==
  /\ config < MaxWrites
  /\ config' = config + 1
  /\ UNCHANGED <<call, serverVars, line, got, trouble>>

Stalls(s) ==
  /\ line[s] = "up" /\ trouble > 0
  /\ trouble' = trouble - 1
  /\ line' = [line EXCEPT ![s] = "stalled"]
  /\ UNCHANGED <<call, config, serverVars, got>>

Resumes(s) ==
  /\ line[s] = "stalled"
  /\ line' = [line EXCEPT ![s] = "up"]
  /\ UNCHANGED <<call, config, serverVars, got, trouble>>

(* The browser closes, or the heartbeat finds nobody there. *)
Leaves(s) ==
  /\ line[s] \in {"up", "stalled"} /\ trouble > 0
  /\ trouble' = trouble - 1
  /\ line' = [line EXCEPT ![s] = "closed"]
  /\ UNCHANGED <<call, config, serverVars, got>>

-----------------------------------------------------------------------------
(* _handle_telemetry, for a browser with a session.                        *)

(* The port is open until stop() has closed what it found. *)
Attach(s) ==
  /\ line[s] = "fresh" /\ serving \in {"up", "stopping"}
  /\ line' = [line EXCEPT ![s] = "up"]
  /\ sockets' = sockets \cup {s}
  /\ handler' = [handler EXCEPT ![s] = "reading"]
  /\ UNCHANGED <<call, config, read, casts, pulse, closing, serving, toClose, got, trouble>>

HandlerReads(s) ==
  /\ handler[s] = "reading"
  /\ read' = [read EXCEPT ![s] = config]
  /\ handler' = [handler EXCEPT ![s] = "read"]
  /\ UNCHANGED <<call, config, sockets, casts, pulse, closing, serving, toClose, line, got,
                 trouble>>

Detach(s) ==
  /\ sockets' = sockets \ {s}
  /\ handler' = [handler EXCEPT ![s] = "gone"]
  /\ got' = [got EXCEPT ![s] = Nothing]

(* The snapshot on connect, or a close if there is none to send; building  *)
(* or sending it may also raise, which ends the handler.                   *)
FirstSnapshot(s) ==
  /\ handler[s] = "read"
  /\ \/ /\ read[s] \in Unreadable
        /\ handler' = [handler EXCEPT ![s] = "closing"]
        /\ line' = [line EXCEPT ![s] = "closed"]
        /\ UNCHANGED <<sockets, got>>
     \/ /\ read[s] \notin Unreadable /\ (read[s] \in Malformed \/ line[s] = "closed")
        /\ line' = [line EXCEPT ![s] = "closed"]
        /\ Detach(s)
     \/ /\ read[s] \notin Unreadable \cup Malformed /\ line[s] # "closed"
        /\ handler' = [handler EXCEPT ![s] = "open"]
        /\ got' = [got EXCEPT ![s] = [config |-> read[s], call |-> call]]
        /\ UNCHANGED <<sockets, line>>
  /\ read' = [read EXCEPT ![s] = 0]
  /\ UNCHANGED <<call, config, casts, pulse, closing, serving, toClose, trouble>>

(* The receive loop notices the close, or the handler's own is done. *)
HandlerEnds(s) ==
  /\ handler[s] \in {"open", "closing"} /\ line[s] = "closed"
  /\ Detach(s)
  /\ UNCHANGED <<call, config, read, casts, pulse, closing, serving, toClose, line, trouble>>

-----------------------------------------------------------------------------
(* Broadcasts.                                                             *)

(* The lock goes to those who asked in the order they asked. *)
Holds(i) == i = 1

Advance(i, c) == casts' = [casts EXCEPT ![i] = c] /\ UNCHANGED pulse

Without(q, i) == [j \in 1..Len(q) - 1 |-> q[IF j < i THEN j ELSE j + 1]]

(* A broadcast is over; an exception ends the pulse with it. *)
Ends(i, raised) ==
  /\ casts' = Without(casts, i)
  /\ pulse' = IF casts[i].by # "pulse" THEN pulse
              ELSE IF raised THEN "dead" ELSE "sleeping"

BeginCast(i) ==
  /\ casts[i].step = "waiting" /\ Holds(i)
  /\ IF sockets = {} THEN Ends(i, FALSE) ELSE Advance(i, [casts[i] EXCEPT !.step = "reading"])
  /\ UNCHANGED <<call, config, sockets, handler, read, closing, serving, toClose, line, got,
                 trouble>>

CastReads(i) ==
  /\ casts[i].step = "reading"
  /\ Advance(i, [casts[i] EXCEPT !.step = "read", !.snapshot.config = config])
  /\ UNCHANGED <<call, config, sockets, handler, read, closing, serving, toClose, line, got,
                 trouble>>

(* _snapshot returns, and the sends are started. *)
CastBuilds(i) ==
  /\ casts[i].step = "read"
  /\ IF casts[i].snapshot.config \in Unreadable \cup Malformed
       THEN Ends(i, casts[i].snapshot.config \in Malformed)
       ELSE Advance(i, [casts[i] EXCEPT !.step = "sending", !.snapshot.call = call,
                                        !.targets = sockets])
  /\ UNCHANGED <<call, config, sockets, handler, read, closing, serving, toClose, line, got,
                 trouble>>

SentTo(i, s) ==
  /\ casts[i].step = "sending" /\ s \in casts[i].targets
  /\ Advance(i, [casts[i] EXCEPT !.targets = @ \ {s}])

Sends(i, s) ==
  /\ SentTo(i, s) /\ line[s] = "up"
  /\ got' = [got EXCEPT ![s] = casts[i].snapshot]
  /\ UNCHANGED <<call, config, sockets, handler, read, closing, serving, toClose, line, trouble>>

(* Mutant: a socket that failed is forgotten but left open.                *)
SendFails_Quietly(i, s) ==
  /\ SentTo(i, s) /\ line[s] # "up"
  /\ sockets' = sockets \ {s}
  /\ UNCHANGED <<call, config, handler, read, closing, serving, toClose, line, got, trouble>>

(* It was closed, or its deadline passed: dropped here, closed elsewhere. *)
SendFails(i, s) ==
  /\ SentTo(i, s) /\ line[s] # "up"
  /\ sockets' = sockets \ {s}
  /\ closing' = closing \cup {s}
  /\ UNCHANGED <<call, config, handler, read, serving, toClose, line, got, trouble>>

CastEnds(i) ==
  /\ casts[i].step = "sending" /\ casts[i].targets = {}
  /\ Ends(i, FALSE)
  /\ UNCHANGED <<call, config, sockets, handler, read, closing, serving, toClose, line, got,
                 trouble>>

CloseQuietly(s) ==
  /\ s \in closing
  /\ closing' = closing \ {s}
  /\ line' = [line EXCEPT ![s] = "closed"]
  /\ UNCHANGED <<call, config, sockets, handler, read, casts, pulse, serving, toClose, got,
                 trouble>>

(* Mutant: the pulse gives up once it finds nobody watching. *)
PulseFires_Once ==
  /\ pulse = "sleeping"
  /\ IF sockets = {} THEN pulse' = "off" /\ UNCHANGED casts
                     ELSE pulse' = "casting" /\ casts' = Append(casts, Cast("pulse"))
  /\ UNCHANGED <<call, config, sockets, handler, read, closing, serving, toClose, line, got,
                 trouble>>

(* _keep_alive: skipped while nobody is watching. *)
PulseFires ==
  /\ pulse = "sleeping" /\ sockets # {}
  /\ pulse' = "casting"
  /\ casts' = Append(casts, Cast("pulse"))
  /\ UNCHANGED <<call, config, sockets, handler, read, closing, serving, toClose, line, got,
                 trouble>>

-----------------------------------------------------------------------------
(* stop().                                                                 *)

(* The pulse is cancelled, with the broadcast it is waiting for. *)
StopBegins ==
  /\ serving = "up" /\ trouble > 0
  /\ trouble' = trouble - 1
  /\ serving' = "stopping"
  /\ pulse' = "off"
  /\ IF pulse = "casting"
       THEN \E i \in DOMAIN casts : casts[i].by = "pulse" /\ casts' = Without(casts, i)
       ELSE UNCHANGED casts
  /\ toClose' = sockets
  /\ UNCHANGED <<call, config, sockets, handler, read, closing, line, got>>

StopCloses(s) ==
  /\ s \in toClose
  /\ toClose' = toClose \ {s}
  /\ line' = [line EXCEPT ![s] = "closed"]
  /\ UNCHANGED <<call, config, sockets, handler, read, casts, pulse, closing, serving, got,
                 trouble>>

(* What is left of the tasks is cancelled, and the sites stop listening. *)
StopClears ==
  /\ serving = "stopping" /\ toClose = {}
  /\ serving' = "cleaning"
  /\ sockets' = {} /\ casts' = <<>> /\ closing' = {}
  /\ UNCHANGED <<call, config, handler, read, pulse, toClose, line, got, trouble>>

(* runner.cleanup(): whoever attached meanwhile is closed now. *)
StopEnds ==
  /\ serving = "cleaning"
  /\ serving' = "down"
  /\ line' = [s \in Sockets |-> IF line[s] = "fresh" THEN "fresh" ELSE "closed"]
  /\ handler' = [s \in Sockets |-> IF handler[s] = "none" THEN "none" ELSE "gone"]
  /\ UNCHANGED <<call, config, sockets, read, casts, pulse, closing, toClose, got, trouble>>

-----------------------------------------------------------------------------
Handlers(s) == HandlerReads(s) \/ FirstSnapshot(s) \/ HandlerEnds(s)
Casting(i) ==
  \/ BeginCast(i) \/ CastReads(i) \/ CastBuilds(i) \/ CastEnds(i)
  \/ \E s \in Sockets : Sends(i, s) \/ SendFails(i, s)
Stopping == StopClears \/ StopEnds \/ \E s \in Sockets : StopCloses(s)
World == EngineChanges \/ ConfigWritten \/ StopBegins

Next ==
  \/ World \/ Stopping \/ PulseFires
  \/ \E i \in DOMAIN casts : Casting(i)
  \/ \E s \in Sockets :
       Attach(s) \/ Handlers(s) \/ CloseQuietly(s) \/ Stalls(s) \/ Resumes(s) \/ Leaves(s)

Spec == Init /\ [][Next]_vars

(* The loop runs what is ready, threads return, deadlines pass and closes  *)
(* time out.  Nothing is assumed of browsers, engine or Operators.  What   *)
(* Errands joins happens finitely often, so no part of it waits for ever.  *)
Errands == Stopping \/ \E s \in Sockets : Handlers(s) \/ CloseQuietly(s)
FairSpec ==
  /\ Spec
  /\ WF_vars(PulseFires)
  /\ WF_vars(\E i \in DOMAIN casts : Casting(i))
  /\ WF_vars(Errands)

-----------------------------------------------------------------------------
(* Properties.                                                             *)

Now == [config |-> config, call |-> call]
Watching(s) == s \in sockets /\ handler[s] = "open"

(* While Global Config has always been readable, a browser that was last   *)
(* shown an earlier state of the call - because it changed since, or       *)
(* because an older broadcast overtook the snapshot it was given on        *)
(* connecting - has a broadcast on its way that will show it the present,  *)
(* without waiting for the pulse.                                          *)
Coming(c, s) == \/ c.step # "sending"
                \/ s \in c.targets /\ c.snapshot.call = call
NobodyLeftBehind ==
  serving = "up" /\ 0..config \cap (Unreadable \cup Malformed) = {} =>
    \A s \in Sockets :
      Watching(s) /\ got[s].call # call => \E i \in DOMAIN casts : Coming(casts[i], s)

(* A browser the server has given up on is being closed, so that it finds  *)
(* out and reconnects instead of watching a picture nobody renews.         *)
GivenUpIsClosing ==
  serving \in {"up", "stopping"} =>
    \A s \in Sockets : line[s] \in {"up", "stalled"} => s \in sockets \cup closing

(* A server that has stopped is wired to nothing: no broadcast of a later  *)
(* change, no pulse, no socket, even one that attached while it stopped.   *)
StoppedIsGone ==
  serving = "down" =>
    /\ casts = <<>> /\ pulse = "off" /\ sockets = {} /\ closing = {}
    /\ \A s \in Sockets : line[s] \in {"fresh", "closed"}

-----------------------------------------------------------------------------
(* What these rest on.                                                     *)

(* The pulse has a broadcast of its own, and only one, while it is casting. *)
OnePulse ==
  /\ pulse = "casting" <=> \E i \in DOMAIN casts : casts[i].by = "pulse"
  /\ \A i, j \in DOMAIN casts : casts[i].by = "pulse" /\ casts[j].by = "pulse" => i = j

(* Only the broadcast with the lock is past waiting for it; what it has    *)
(* read is no newer than the file; and if what it is sending is older than *)
(* the call is now, another will follow.                                   *)
CastsInTurn ==
  /\ \A i \in DOMAIN casts : i # 1 => casts[i].step = "waiting"
  /\ \A i \in DOMAIN casts : casts[i].snapshot.config <= config
  /\ serving = "up" =>
       \A i \in DOMAIN casts : casts[i].step = "sending" /\ casts[i].snapshot.call # call =>
         \E j \in DOMAIN casts : casts[j].step # "sending"

(* A socket is registered by its running handler alone, and no config was  *)
(* read before it was written.                                             *)
HandlersRegister ==
  \A s \in Sockets :
    /\ s \in sockets => handler[s] \in {"reading", "read", "open", "closing"}
    /\ line[s] = "fresh" => handler[s] = "none"
    /\ read[s] <= config

(* The order stop() does things in. *)
StopsInOrder ==
  /\ serving # "up" => pulse = "off"
  /\ serving # "stopping" => toClose = {}
  /\ serving \in {"cleaning", "down"} => sockets = {} /\ casts = <<>> /\ closing = {}
  /\ serving = "down" => \A s \in Sockets : handler[s] \in {"none", "gone"}

ServerInductive ==
  /\ TypeOK
  /\ OnePulse /\ CastsInTurn /\ HandlersRegister /\ StopsInOrder
  /\ NobodyLeftBehind /\ GivenUpIsClosing /\ StoppedIsGone

-----------------------------------------------------------------------------
(* Liveness, and what a comment claims.                                    *)

(* Every browser comes to be shown the config and the call as they are,    *)
(* however many of the others have stopped taking data, unless it is       *)
(* dropped or the config cannot be read.                                   *)
Converges ==
  \A s \in Sockets :
    s \in sockets ~> \/ got[s] = Now \/ s \notin sockets
                     \/ config \in Unreadable \cup Malformed \/ serving # "up"

(* _snapshot: "a malformed mode.json shouldn't take the socket - or the    *)
(* engine - down with it".  The pulse should outlive any config.           *)
PulseOutlivesConfig == pulse # "dead"
=============================================================================
