----------------------------- MODULE CallEngine -----------------------------
(***************************************************************************)
(* engine/call_engine.py with the parts it drives: the Call Session        *)
(* (engine/call_session.py), the observer that carries the worker thread's *)
(* progress to the event loop (engine/call_observer.py), the CallIO        *)
(* adapter that carries the thread's commands to ARI                       *)
(* (engine/ari_call_io.py), and shutdown (engine/__main__.py).  The game   *)
(* itself is GameFlow.  Asterisk and the callers are the environment.      *)
(*                                                                         *)
(* Processes: the callers and Asterisk; the ARI reader task; one call task *)
(* per accepted call; that call's worker thread; one afterglow timer per   *)
(* ended call; the main task, which stops the engine.  All but the threads *)
(* run on one event loop, so a step between two awaits is one action.      *)
(*                                                                         *)
(* News of a channel reaches the engine by two routes that are not ordered *)
(* with each other: events, FIFO on the WebSocket (wire), and the answers  *)
(* to REST requests (io).                                                  *)
(***************************************************************************)
EXTENDS GameFlow, Sequences, FiniteSets

CONSTANTS Calls,          (* channels; each is at most one Call Session        *)
          NoCall,         (* Python's None, where a session is expected        *)
          Configs,        (* Config Snapshots pickup may find: [mode, limit]   *)
          AfterglowOn,    (* afterglow_s > 0                                   *)
          Perils          (* the failures that may happen, out of AllPerils    *)

AllPerils ==
  {"config",   \* mode.json missing, malformed or naming no Mode
   "thread",   \* the worker thread raises: no riddle, no TTS, no log file
   "rest",     \* an ARI request fails though the channel is there
   "store",    \* SQLite refuses the row
   "socket",   \* the event WebSocket drops
   "stop"}     \* the engine is asked to stop

ASSUME NoCallAssumption  == NoCall \notin Calls
ASSUME ConfigsAssumption == Configs \subseteq [mode : Modes, limit : Int]
ASSUME PerilsAssumption  == Perils \subseteq AllPerils
ASSUME AfterglowAssumption == AfterglowOn \in BOOLEAN

VARIABLES
  chan,     \* Asterisk: where each channel is
  wire,     \* Asterisk -> engine: events on the WebSocket
  socket,   \* whether the WebSocket is open
  reader,   \* the extra channel whose hangup the reader awaits, or NoCall
  active,   \* CallEngine.active_session
  session,  \* the CallSession of each call
  task,     \* what each call's task (_handle_call) awaits
  io,       \* the request a call has outstanding, or what came back from it
  flow,     \* the worker thread of each call
  ready,    \* the loop's queue of callbacks scheduled by worker threads
  glow,     \* calls whose afterglow timer is running
  latest,   \* CallEngine._call_task: the newest call's task
  awaited,  \* the call task aclose() is waiting for
  phase,    \* the engine: running, draining (aclose waits), closed
  jsonl,    \* core.logger: outcomes written to sessions.jsonl, per call
  store     \* engine.call_store: the rows of the history

asteriskVars == <<chan, wire, socket>>
recordVars   == <<jsonl, store>>
stopVars     == <<awaited, phase>>
vars == <<chan, wire, socket, reader, active, session, task, io, flow, ready,
          glow, latest, awaited, phase, jsonl, store>>

-----------------------------------------------------------------------------
(* Values.                                                                 *)

ChannelStates == {"unborn", "stasis", "dialplan", "down"}
Events  == [type : {"StasisStart", "ChannelGone"}, call : Calls]

LiveStates     == {"answering", "in_mode"}
TerminalStates == {"handed_off", "exiled", "hung_up", "dropped"}
Outcomes       == FlowOutcomes \cup {"dropped"}

Sessions ==
  [state   : {"none"} \cup LiveStates \cup TerminalStates,
   mode    : {"none"} \cup Modes,
   gone    : BOOLEAN,      \* caller_gone
   attempt : Int,          \* current_attempt, 0 for None
   depth   : Int,          \* node.depth, -1 for no node
   puzzle  : BOOLEAN,      \* puzzle_id is set
   outcome : Outcomes,
   attempts: Int,
   detail  : BOOLEAN]      \* detail carries the puzzle_id

NewSession ==
  [state |-> "none", mode |-> "none", gone |-> FALSE, attempt |-> 0,
   depth |-> -1, puzzle |-> FALSE, outcome |-> "none", attempts |-> 0,
   detail |-> FALSE]

TaskStates == {"none", "snapshot", "answer", "mode", "hangup", "persist", "done"}

(* What came back from a request or a read: the thread, or the call task   *)
(* while it has no thread, may run on.                                     *)
Replies  == {"ok", "failed"} \cup Answers
IOStates == {"idle",                 \* nothing outstanding
             "queued",               \* the thread's command waits for the loop
             "reading", "deaf",      \* read_digits; deaf: its queue will stay empty
             "returned", "raised"}   \* the thread is finished
            \cup Replies

Callbacks == [kind : {"progress", "command", "result"},
              call : Calls, at : Locations, tally : Int]

Rows == [call : Calls, mode : Modes, outcome : Outcomes, attempts : Int]

IsOver(s) == s.state \in TerminalStates
Live(c)   == session[c].state \in LiveStates
Over(c)   == IsOver(session[c])

TypeOK ==
  /\ chan \in [Calls -> ChannelStates]
  /\ wire \in Seq(Events)
  /\ socket \in BOOLEAN
  /\ reader \in Calls \cup {NoCall}
  /\ active \in Calls \cup {NoCall}
  /\ session \in [Calls -> Sessions]
  /\ task \in [Calls -> TaskStates]
  /\ io \in [Calls -> IOStates]
  /\ flow \in [Calls -> Flow]
  /\ ready \in Seq(Callbacks)
  /\ glow \in SUBSET Calls
  /\ latest \in Calls \cup {NoCall}
  /\ awaited \in Calls \cup {NoCall}
  /\ phase \in {"running", "draining", "closed"}
  /\ jsonl \in [Calls -> Seq({"succeed", "exile"})]
  /\ store \in SUBSET Rows

Init ==
  /\ chan = [c \in Calls |-> "unborn"]
  /\ wire = <<>>
  /\ socket = TRUE
  /\ reader = NoCall
  /\ active = NoCall
  /\ session = [c \in Calls |-> NewSession]
  /\ task = [c \in Calls |-> "none"]
  /\ io = [c \in Calls |-> "idle"]
  /\ flow = [c \in Calls |-> NewFlow("tweeted", 0)]   \* until the thread starts
  /\ ready = <<>>
  /\ glow = {}
  /\ latest = NoCall
  /\ awaited = NoCall
  /\ phase = "running"
  /\ jsonl = [c \in Calls |-> <<>>]
  /\ store = {}

-----------------------------------------------------------------------------
(* CallSession's own operations.                                           *)

(* _attempts_finished: rooms walked, or attempts before the current one.   *)
AttemptsFinished(s) ==
  CASE s.depth >= 0               -> s.depth
    [] s.depth < 0 /\ s.attempt > 0 -> s.attempt - 1
    [] OTHER                      -> 0

(* Mutant: a win rendered as a hangup.                                     *)
StateByOutcome_WinLost(outcome) == IF outcome = "exile" THEN "exiled" ELSE "hung_up"

(* complete: the terminal state follows from the handler's outcome; only   *)
(* the puzzle handler's results name the puzzle.                           *)
StateByOutcome(outcome) ==
  CASE outcome = "succeed" -> "handed_off"
    [] outcome = "exile"   -> "exiled"
    [] OTHER               -> "hung_up"

Complete(s, outcome, attempts) ==
  [s EXCEPT !.state = StateByOutcome(outcome), !.outcome = outcome,
            !.attempts = attempts,
            !.detail = s.mode = "puzzle" /\ outcome \in {"succeed", "exile"}]

(* abandon: the handler returned nothing, so the ending is synthesised.    *)
Abandon(s) ==
  [s EXCEPT !.state    = IF s.gone THEN "hung_up" ELSE "dropped",
            !.outcome  = IF s.gone THEN "hangup" ELSE "dropped",
            !.attempts = AttemptsFinished(s),
            !.detail   = s.puzzle]

IsPersistable(s) == s.outcome # "none" /\ s.mode # "none"

ToRecord(c, s) ==
  [call |-> c, mode |-> s.mode, outcome |-> s.outcome, attempts |-> s.attempts]

-----------------------------------------------------------------------------
(* Asterisk (external).                                                    *)

(* What is on the WebSocket once events es are emitted after w.            *)
Emitted(w, es) == IF socket THEN w \o es ELSE w

(* ChannelHangupRequest and StasisEnd: one event, the first of them; what  *)
(* the second adds is in RunCommand.                                       *)
GoneEvent(c) == [type |-> "ChannelGone", call |-> c]

(* Ending channel c, seen from the engine: StasisEnd if it was in Stasis.  *)
Departure(c) == IF chan[c] = "stasis" THEN <<GoneEvent(c)>> ELSE <<>>

(* DELETE reaches any channel there is; everything else wants it in Stasis.*)
Accepts(c, at) ==
  IF at = "bye" THEN chan[c] \in {"stasis", "dialplan"} ELSE chan[c] = "stasis"

ChannelAfter(c, at) ==
  CASE at = "bye"      -> [chan EXCEPT ![c] = "down"]
    [] at = "continue" -> [chan EXCEPT ![c] = "dialplan"]
    [] OTHER           -> chan

(* A request about c executed by Asterisk, and the status it answers with: *)
(* an error if the channel is not there, or if the request itself fails -  *)
(* before or after Asterisk acted on it.                                   *)
Executed(c, at) ==
  /\ Accepts(c, at)
  /\ chan' = ChannelAfter(c, at)
  /\ wire' = Emitted(wire, IF at \in {"bye", "continue"} THEN Departure(c) ELSE <<>>)

Request(c, at) ==
  \/ Executed(c, at) /\ io' = [io EXCEPT ![c] = "ok"]
  \/ "rest" \in Perils /\ Executed(c, at) /\ io' = [io EXCEPT ![c] = "failed"]
  \/ /\ ~Accepts(c, at) \/ "rest" \in Perils
     /\ io' = [io EXCEPT ![c] = "failed"]
     /\ UNCHANGED <<chan, wire>>

(* The handset is lifted: the dialplan runs Stasis(), which finds the      *)
(* application only while its WebSocket is open.                           *)
Dial(c) ==
  /\ chan[c] = "unborn" /\ socket /\ phase # "closed"
  /\ chan' = [chan EXCEPT ![c] = "stasis"]
  /\ wire' = Append(wire, [type |-> "StasisStart", call |-> c])
  /\ UNCHANGED <<socket, reader, active, session, task, io, flow, ready, glow,
                 latest, stopVars, recordVars>>

(* The handset goes down while the channel is the engine's.                *)
HangUp(c) ==
  /\ chan[c] = "stasis" /\ phase # "closed"
  /\ chan' = [chan EXCEPT ![c] = "down"]
  /\ wire' = Emitted(wire, Departure(c))
  /\ UNCHANGED <<socket, reader, active, session, task, io, flow, ready, glow,
                 latest, stopVars, recordVars>>

(* The WebSocket drops; what the client had already buffered is still read.*)
SocketDrops ==
  /\ "socket" \in Perils /\ socket /\ phase # "closed"
  /\ socket' = FALSE
  /\ \E n \in 0..Len(wire) : wire' = SubSeq(wire, 1, n)
  /\ UNCHANGED <<chan, reader, active, session, task, io, flow, ready, glow,
                 latest, stopVars, recordVars>>

-----------------------------------------------------------------------------
(* The ARI reader task.  It awaits each handler before reading on, so the  *)
(* hangup of an extra channel holds up every event behind it.              *)

(* _reader: the WebSocket is back after its backoff. *)
Reconnect ==
  /\ ~socket /\ wire = <<>> /\ reader = NoCall /\ phase # "closed"
  /\ socket' = TRUE
  /\ UNCHANGED <<chan, wire, reader, active, session, task, io, flow, ready,
                 glow, latest, stopVars, recordVars>>

NextEvent(type, c) ==
  /\ phase # "closed" /\ reader = NoCall /\ wire # <<>>
  /\ Head(wire) = [type |-> type, call |-> c]

(* The slot is taken by a call that is not over; the afterglow is no bar. *)
Busy == active # NoCall /\ ~Over(active)

(* Mutant: a pickup that does not look whether the slot is taken.          *)
AcceptCall_Always(c) ==
  /\ NextEvent("StasisStart", c)
  /\ wire' = Tail(wire)
  /\ session' = [session EXCEPT ![c] = [NewSession EXCEPT !.state = "answering"]]
  /\ active' = c
  /\ latest' = c
  /\ task' = [task EXCEPT ![c] = "snapshot"]
  /\ UNCHANGED <<chan, socket, reader, io, flow, ready, glow, stopVars, recordVars>>

(* _on_stasis_start with the slot free: claim it and spawn the call task,  *)
(* which runs up to its first await, the Config Snapshot.                  *)
AcceptCall(c) ==
  /\ NextEvent("StasisStart", c)
  /\ ~Busy
  /\ wire' = Tail(wire)
  /\ session' = [session EXCEPT ![c] = [NewSession EXCEPT !.state = "answering"]]
  /\ active' = c
  /\ latest' = c
  /\ task' = [task EXCEPT ![c] = "snapshot"]
  /\ UNCHANGED <<chan, socket, reader, io, flow, ready, glow, stopVars, recordVars>>

(* Mutant: the extra channel is ignored instead of hung up.                *)
RefuseCall_Ignored(c) ==
  /\ NextEvent("StasisStart", c)
  /\ Busy
  /\ reader' = c
  /\ wire' = Tail(wire)
  /\ UNCHANGED <<chan, socket, active, session, task, io, flow, ready, glow,
                 latest, stopVars, recordVars>>

(* _on_stasis_start with a call live: hang up the extra channel, and wait. *)
RefuseCall(c) ==
  /\ NextEvent("StasisStart", c)
  /\ Busy
  /\ reader' = c
  /\ \/ /\ chan[c] = "stasis"
        /\ chan' = [chan EXCEPT ![c] = "down"]
        /\ wire' = Emitted(Tail(wire), Departure(c))
     \/ /\ chan[c] # "stasis" \/ "rest" \in Perils
        /\ wire' = Tail(wire)
        /\ UNCHANGED chan
  /\ UNCHANGED <<socket, active, session, task, io, flow, ready, glow, latest,
                 stopVars, recordVars>>

(* The hangup of the extra channel is answered, well or badly. *)
RefusalAnswered ==
  /\ phase # "closed" /\ reader # NoCall
  /\ reader' = NoCall
  /\ UNCHANGED <<chan, wire, socket, active, session, task, io, flow, ready,
                 glow, latest, stopVars, recordVars>>

(* Mutants: the guard against a call that is over is missing; the call is  *)
(* ended, and its slot freed, without waiting for its thread.              *)
ChannelGone_Late(c) ==
  /\ NextEvent("ChannelGone", c)
  /\ wire' = Tail(wire)
  /\ session' = IF active = c THEN [session EXCEPT ![c].gone = TRUE] ELSE session
  /\ UNCHANGED <<chan, socket, reader, active, task, io, flow, ready, glow,
                 latest, stopVars, recordVars>>

ChannelGone_Ends(c) ==
  /\ NextEvent("ChannelGone", c)
  /\ wire' = Tail(wire)
  /\ session' = IF active = c /\ ~Over(c)
                  THEN [session EXCEPT ![c] = Abandon([@ EXCEPT !.gone = TRUE])]
                  ELSE session
  /\ UNCHANGED <<chan, socket, reader, active, task, io, flow, ready, glow,
                 latest, stopVars, recordVars>>

(* _on_channel_gone, for StasisEnd and ChannelHangupRequest. *)
ChannelGone(c) ==
  /\ NextEvent("ChannelGone", c)
  /\ wire' = Tail(wire)
  /\ session' = IF active = c /\ ~Over(c)
                  THEN [session EXCEPT ![c].gone = TRUE]
                  ELSE session
  /\ UNCHANGED <<chan, socket, reader, active, task, io, flow, ready, glow,
                 latest, stopVars, recordVars>>

Reader ==
  \/ \E c \in Calls : AcceptCall(c) \/ RefuseCall(c) \/ ChannelGone(c)
  \/ RefusalAnswered

-----------------------------------------------------------------------------
(* The call task: _handle_call, one action per await it resumes from.      *)

Resumes(c, at) == task[c] = at /\ phase # "closed"

(* Mutant: the afterglow is never scheduled.                               *)
AnnounceEnd_NoTimer(c) ==
  /\ task' = [task EXCEPT ![c] = "done"]
  /\ UNCHANGED <<active, glow>>

(* _announce_end_and_linger, with _clear when there is no afterglow.       *)
AnnounceEnd(c) ==
  /\ task' = [task EXCEPT ![c] = "done"]
  /\ IF AfterglowOn
       THEN glow' = glow \cup {c} /\ UNCHANGED active
       ELSE active' = (IF active = c THEN NoCall ELSE active) /\ UNCHANGED glow

(* except Exception: settle the ending, then await _safe_hangup. *)
Fail(c) ==
  /\ session' = [session EXCEPT ![c] = Abandon(@)]
  /\ task' = [task EXCEPT ![c] = "hangup"]
  /\ Request(c, "bye")

(* take_snapshot has run in its thread.  On to answering. *)
SnapshotTaken(c) ==
  /\ Resumes(c, "snapshot")
  /\ \E cfg \in Configs :
       /\ session' = [session EXCEPT ![c].mode = cfg.mode]
       /\ flow' = [flow EXCEPT ![c] = NewFlow(cfg.mode, cfg.limit)]
  /\ task' = [task EXCEPT ![c] = "answer"]
  /\ Request(c, "answer")
  /\ UNCHANGED <<socket, reader, active, ready, glow, latest, stopVars, recordVars>>

SnapshotFails(c) ==
  /\ "config" \in Perils
  /\ Resumes(c, "snapshot")
  /\ Fail(c)
  /\ UNCHANGED <<socket, reader, active, flow, ready, glow, latest, stopVars, recordVars>>

(* The answer to `answer`: enter_mode and start the worker thread. *)
Answered(c) ==
  /\ Resumes(c, "answer") /\ io[c] = "ok"
  /\ session' = [session EXCEPT ![c].state = "in_mode"]
  /\ task' = [task EXCEPT ![c] = "mode"]
  /\ UNCHANGED <<asteriskVars, reader, active, io, flow, ready, glow, latest,
                 stopVars, recordVars>>

AnswerFails(c) ==
  /\ Resumes(c, "answer") /\ io[c] = "failed"
  /\ Fail(c)
  /\ UNCHANGED <<socket, reader, active, flow, ready, glow, latest, stopVars, recordVars>>

(* The worker thread's outcome reaches the loop: complete or abandon. *)
NextCallback(kind, c) ==
  phase # "closed" /\ ready # <<>> /\ Head(ready).kind = kind /\ Head(ready).call = c

ModeReturned(c) ==
  /\ NextCallback("result", c) /\ io[c] = "returned"
  /\ ready' = Tail(ready)
  /\ session' = [session EXCEPT ![c] = Complete(@, flow[c].outcome, flow[c].tally)]
  /\ task' = [task EXCEPT ![c] = "persist"]
  /\ io' = [io EXCEPT ![c] = "idle"]
  /\ UNCHANGED <<asteriskVars, reader, active, flow, glow, latest, stopVars, recordVars>>

ModeRaised(c) ==
  /\ NextCallback("result", c) /\ io[c] = "raised"
  /\ ready' = Tail(ready)
  /\ Fail(c)
  /\ UNCHANGED <<socket, reader, active, flow, glow, latest, stopVars, recordVars>>

(* Mutant: only the handler's own endings are persisted.                   *)
TornDown_Unrecorded(c) ==
  /\ Resumes(c, "hangup")
  /\ io' = [io EXCEPT ![c] = "idle"]
  /\ AnnounceEnd(c)
  /\ UNCHANGED <<asteriskVars, reader, session, flow, ready, latest, stopVars, recordVars>>

(* _safe_hangup is answered, whatever the answer; into the finally. *)
TornDown(c) ==
  /\ Resumes(c, "hangup")
  /\ io' = [io EXCEPT ![c] = "idle"]
  /\ IF IsPersistable(session[c])
       THEN task' = [task EXCEPT ![c] = "persist"] /\ UNCHANGED <<active, glow>>
       ELSE AnnounceEnd(c)
  /\ UNCHANGED <<asteriskVars, reader, session, flow, ready, latest, stopVars, recordVars>>

(* store.add is done, or failed and was swallowed. *)
Persisted(c) ==
  /\ Resumes(c, "persist")
  /\ \/ store' = store \cup {ToRecord(c, session[c])}
     \/ "store" \in Perils /\ UNCHANGED store
  /\ AnnounceEnd(c)
  /\ UNCHANGED <<asteriskVars, reader, session, io, flow, ready, latest, stopVars, jsonl>>

CallTask(c) ==
  \/ SnapshotTaken(c) \/ SnapshotFails(c) \/ Answered(c) \/ AnswerFails(c)
  \/ ModeReturned(c) \/ ModeRaised(c) \/ TornDown(c) \/ Persisted(c)

(* Mutant: _clear without its identity check.                              *)
AfterglowEnds_Blind(c) ==
  /\ c \in glow /\ phase # "closed"
  /\ glow' = glow \ {c}
  /\ active' = NoCall
  /\ UNCHANGED <<asteriskVars, reader, session, task, io, flow, ready, latest,
                 stopVars, recordVars>>

(* _afterglow has slept: _clear, unless a new caller took the place. *)
AfterglowEnds(c) ==
  /\ c \in glow /\ phase # "closed"
  /\ glow' = glow \ {c}
  /\ active' = IF active = c THEN NoCall ELSE active
  /\ UNCHANGED <<asteriskVars, reader, session, task, io, flow, ready, latest,
                 stopVars, recordVars>>

-----------------------------------------------------------------------------
(* The worker thread (_run_mode, EngineCallObserver._apply, ARICallIO).    *)

Callback(kind, c, f) == [kind |-> kind, call |-> c, at |-> f.at, tally |-> f.tally]

Progress(c, f) == IF Announces(f) THEN <<Callback("progress", c, f)>> ELSE <<>>

Runnable(c) == task[c] = "mode" /\ io[c] \in Replies /\ phase # "closed"

(* On to the next command, or to the end; what it has to say to the        *)
(* Operator is handed to the loop ahead of the command.                    *)
ThreadAdvances(c) ==
  /\ Runnable(c) /\ io[c] # "failed"
  /\ \E g \in After(flow[c], io[c]) :
       /\ flow' = [flow EXCEPT ![c] = g]
       /\ jsonl' = IF Logs(flow[c], g)
                     THEN [jsonl EXCEPT ![c] = Append(@, g.outcome)]
                     ELSE jsonl
       /\ IF g.at = "end"
            THEN /\ ready' = Append(ready, Callback("result", c, g))
                 /\ io' = [io EXCEPT ![c] = "returned"]
            ELSE /\ ready' = ready \o Progress(c, g) \o <<Callback("command", c, g)>>
                 /\ io' = [io EXCEPT ![c] = "queued"]
  /\ UNCHANGED <<asteriskVars, reader, active, session, task, glow, latest,
                 stopVars, store>>

(* Mutant: a failed command is swallowed and the flow's result returned.   *)
ThreadRaises_Swallowed(c) ==
  /\ Runnable(c) /\ io[c] = "failed"
  /\ io' = [io EXCEPT ![c] = "returned"]
  /\ ready' = Append(ready, Callback("result", c, flow[c]))
  /\ UNCHANGED <<asteriskVars, reader, active, session, task, flow, glow, latest,
                 stopVars, recordVars>>

(* A command's exception surfaces in the thread and ends it. *)
ThreadRaises(c) ==
  /\ Runnable(c) /\ io[c] = "failed"
  /\ io' = [io EXCEPT ![c] = "raised"]
  /\ ready' = Append(ready, Callback("result", c, flow[c]))
  /\ UNCHANGED <<asteriskVars, reader, active, session, task, flow, glow, latest,
                 stopVars, recordVars>>

(* The thread raises between two commands, on its own account. *)
ThreadBreaks(c) ==
  /\ "thread" \in Perils
  /\ Runnable(c) /\ io[c] # "failed"
  /\ io' = [io EXCEPT ![c] = "raised"]
  /\ \/ /\ NoRiddle(flow[c])
        /\ ready' = Append(ready, Callback("result", c, flow[c]))
        /\ UNCHANGED flow
     \/ \E g \in After(flow[c], io[c]) :
          /\ Brittle(flow[c], g)
          /\ flow' = [flow EXCEPT ![c] = [g EXCEPT !.outcome = flow[c].outcome]]
          /\ ready' = ready \o Progress(c, g) \o <<Callback("result", c, g)>>
  /\ UNCHANGED <<asteriskVars, reader, active, session, task, glow, latest,
                 stopVars, recordVars>>

Worker(c) == ThreadAdvances(c) \/ ThreadRaises(c) \/ ThreadBreaks(c)

-----------------------------------------------------------------------------
(* The event loop, running what the threads scheduled.                     *)

(* EngineCallObserver._on_loop: the write lands only while the call that   *)
(* produced it is the one being shown, and is not over.                    *)
Observed(s, cb) ==
  CASE cb.at = "prompt" -> [s EXCEPT !.puzzle = TRUE]
    [] cb.at = "read"   -> [s EXCEPT !.attempt = cb.tally]
    [] OTHER            -> [s EXCEPT !.depth = cb.tally]

RunProgress(c) ==
  /\ NextCallback("progress", c)
  /\ ready' = Tail(ready)
  /\ session' = IF active = c /\ ~Over(c)
                  THEN [session EXCEPT ![c] = Observed(@, Head(ready))]
                  ELSE session
  /\ UNCHANGED <<asteriskVars, reader, active, task, io, flow, glow, latest,
                 stopVars, recordVars>>

(* A command's coroutine starts: ask Asterisk, or begin reading digits.    *)
(* StasisEnd drops the channel's DTMF queue, and a read that starts after  *)
(* it waits on one nothing will ever be put in; ChannelHangupRequest does  *)
(* not, and one that starts between the two may find what was keyed before.*)
RunCommand(c) ==
  /\ NextCallback("command", c)
  /\ ready' = Tail(ready)
  /\ IF Head(ready).at \in Reads
       THEN /\ \/ io' = [io EXCEPT ![c] = "reading"]
               \/ session[c].gone /\ io' = [io EXCEPT ![c] = "deaf"]
            /\ UNCHANGED <<chan, wire>>
       ELSE Request(c, Head(ready).at)
  /\ UNCHANGED <<socket, reader, active, session, task, flow, glow, latest,
                 stopVars, recordVars>>

(* read_digits returns what was keyed, now or ahead of time. *)
Keyed(c) ==
  /\ io[c] = "reading" /\ phase # "closed"
  /\ \E heard \in {"right", "wrong"} : io' = [io EXCEPT ![c] = heard]
  /\ UNCHANGED <<asteriskVars, reader, active, session, task, flow, ready, glow,
                 latest, stopVars, recordVars>>

(* read_digits times out with nothing. *)
ReadTimesOut(c) ==
  /\ io[c] \in {"reading", "deaf"} /\ phase # "closed"
  /\ io' = [io EXCEPT ![c] = "silence"]
  /\ UNCHANGED <<asteriskVars, reader, active, session, task, flow, ready, glow,
                 latest, stopVars, recordVars>>

Loop(c) == RunProgress(c) \/ RunCommand(c) \/ ReadTimesOut(c)

-----------------------------------------------------------------------------
(* Shutdown (__main__._run's finally, CallEngine.aclose).                  *)

(* aclose with a call task to wait for: wait_for_idle takes hold of the    *)
(* newest one.  The handlers stay registered while it waits.               *)
Stop ==
  /\ "stop" \in Perils /\ phase = "running"
  /\ latest # NoCall /\ task[latest] # "done"
  /\ phase' = "draining"
  /\ awaited' = latest
  /\ UNCHANGED <<asteriskVars, reader, active, session, task, io, flow, ready,
                 glow, latest, recordVars>>

(* Cancel the newest afterglow and close ARI; the loop goes down next,     *)
(* with whatever is still on it.                                           *)
Close ==
  /\ phase' = "closed"
  /\ glow' = glow \ {latest}
  /\ UNCHANGED <<asteriskVars, reader, active, session, task, io, flow, ready,
                 latest, awaited, recordVars>>

(* With no task to wait for, wait_for_idle does not yield. *)
StopIdle ==
  /\ "stop" \in Perils /\ phase = "running"
  /\ latest # NoCall => task[latest] = "done"
  /\ Close

Drained ==
  /\ phase = "draining"
  /\ task[awaited] = "done"
  /\ Close

-----------------------------------------------------------------------------
Environment ==
  \/ \E c \in Calls : Dial(c) \/ HangUp(c) \/ Keyed(c)
  \/ SocketDrops
  \/ Stop \/ StopIdle

Engine ==
  \/ Reader
  \/ Reconnect
  \/ \E c \in Calls : CallTask(c) \/ Worker(c) \/ Loop(c) \/ AfterglowEnds(c)
  \/ Drained

Next == Environment \/ Engine

Spec == Init /\ [][Next]_vars

(* The loop runs what is runnable, threads are scheduled, requests are     *)
(* answered (aiohttp bounds them, play gives up after its timeout), reads  *)
(* time out and sleeps end.  Nothing is assumed of the callers, of the     *)
(* perils or of the operator stopping the engine.                          *)
Fairness ==
  /\ WF_vars(Reader)
  /\ WF_vars(Reconnect)
  /\ WF_vars(Drained)
  /\ \A c \in Calls :
       /\ WF_vars(CallTask(c))
       /\ WF_vars(Worker(c))
       /\ WF_vars(Loop(c))
       /\ WF_vars(AfterglowEnds(c))

FairSpec == Spec /\ Fairness

-----------------------------------------------------------------------------
(* Safety.                                                                 *)

(* There is one booth: at most one call is live, and a live call is the    *)
(* one the engine holds - no afterglow timer, refusal or second pickup     *)
(* ever takes the slot from under it (_on_stasis_start, _clear).           *)
OneCaller == \A c \in Calls : Live(c) => active = c

(* A call's worker thread is finished, and nothing of it is left on the    *)
(* loop, before the call is over: so nothing it says can reach another     *)
(* caller's panel, with or without _on_loop's identity check.              *)
ThreadJoined ==
  \A c \in Calls :
    /\ io[c] \in IOStates \ {"idle", "ok", "failed"} => Live(c)
    /\ \A i \in DOMAIN ready : ready[i].call = c => Live(c) /\ active = c

(* A finished call with a Mode is in the history exactly as the Operator   *)
(* saw it end, once; nothing else ever is (_persist, is_persistable).      *)
HistoryAgrees ==
  /\ \A r \in store : r = ToRecord(r.call, session[r.call]) /\ Over(r.call)
  /\ \A c \in Calls :
       task[c] = "done" /\ session[c].mode # "none" /\ "store" \notin Perils
         => ToRecord(c, session[c]) \in store

(* A call shown Handed Off really left for the success dialplan.           *)
WinIsBridged == \A c \in Calls : session[c].state = "handed_off" => chan[c] = "dialplan"

(* ... and, ARI failures aside, a finished call that left for the dialplan *)
(* is a win, on the Console and in the history.                            *)
BridgedIsWin ==
  "rest" \notin Perils =>
    \A c \in Calls :
      chan[c] = "dialplan" /\ task[c] \in {"persist", "done"}
        => session[c].state = "handed_off"

(* The game log has one line for a call played to its end, saying what     *)
(* the session says, and never a second.                                   *)
LoggedOnce ==
  \A c \in Calls :
    /\ Len(jsonl[c]) <= 1
    /\ session[c].state \in {"handed_off", "exiled"} => jsonl[c] = <<session[c].outcome>>

(* What the history counts is a game the rules allow: a win or an Exile in *)
(* code entry within the limit, Exile exactly at it; Exile from the maze   *)
(* exactly at the Walk Bound; and nobody credited past either.             *)
CountsWithinRules ==
  \A c \in Calls :
    LET limit == IF session[c].mode = "roguelike" THEN WalkBound ELSE flow[c].limit
    IN  Over(c) /\ session[c].mode # "none" =>
          /\ session[c].attempts \in 0..limit
          /\ session[c].outcome = "exile" => session[c].attempts = limit
          /\ session[c].outcome = "succeed" /\ session[c].mode # "roguelike"
               => session[c].attempts > 0

(* No wakeup is lost between the call task, its thread and the loop: what  *)
(* a call waits for has come back, or is on its way - a read that ends, a  *)
(* command the loop is still to run, a result it is still to hand over     *)
(* (run_coroutine_threadsafe, asyncio.to_thread).                          *)
Scheduled(kind, c) == \E i \in DOMAIN ready : ready[i].kind = kind /\ ready[i].call = c

InHand(c) ==
  /\ task[c] \in {"answer", "hangup"} => io[c] \in {"ok", "failed"}
  /\ task[c] = "mode" =>
       \/ io[c] \in Replies \cup {"reading", "deaf"}
       \/ io[c] = "queued" /\ Scheduled("command", c)
       \/ io[c] \in {"returned", "raised"} /\ Scheduled("result", c)

NobodyWaitsInVain == \A c \in Calls : InHand(c)

(* A call shown after its end is on its way off the Console: its task has  *)
(* yet to announce the end, or the timer that clears it is running.        *)
ShownIsLeaving ==
  \A c \in Calls :
    active = c /\ Over(c) => task[c] \in {"hangup", "persist"} \/ c \in glow \/ phase = "closed"

(* Nobody is left on a silent line: a channel in Stasis is in a game, or   *)
(* is still to be heard of while the WebSocket stays up - and is let go of *)
(* before its call is torn down - as long as Asterisk does what it is      *)
(* asked (_on_stasis_start, run_flow).                                     *)
Attended ==
  "rest" \notin Perils =>
    \A c \in Calls : chan[c] = "stasis" =>
      \/ task[c] \in {"snapshot", "answer", "mode"}
      \/ /\ task[c] = "none"
         /\ "socket" \notin Perils =>
              \E i \in DOMAIN wire : wire[i] = [type |-> "StasisStart", call |-> c]

(* A call only ever comes nearer to its end: its task by await, its game   *)
(* by answers, Refused Keys and commands, each command by its answer.      *)
(* Nothing repeats a turn, whoever wedges a key (#55) or fails a request.  *)
AwaitsLeft(c) ==
  CASE task[c] = "none"     -> 6
    [] task[c] = "snapshot" -> 5
    [] task[c] = "answer"   -> 4
    [] task[c] = "mode"     -> 3
    [] task[c] = "hangup"   -> 2
    [] task[c] = "persist"  -> 1
    [] task[c] = "done"     -> 0

AnswersLeft(c) ==
  CASE io[c] = "queued"                          -> 3
    [] io[c] \in {"reading", "deaf"}             -> 2
    [] io[c] \in Replies                         -> 1
    [] io[c] \in {"idle", "returned", "raised"}  -> 0

Advances(c) ==
  \/ AwaitsLeft(c)' < AwaitsLeft(c)
  \/ task'[c] = task[c] /\ Nearer(flow'[c], flow[c])
  \/ task'[c] = task[c] /\ flow'[c] = flow[c] /\ AnswersLeft(c)' < AnswersLeft(c)

Stays(c) == task'[c] = task[c] /\ flow'[c] = flow[c] /\ io'[c] = io[c]

CallsAdvance == [][\A c \in Calls : Advances(c) \/ Stays(c)]_vars

(* A call that has ended stays ended, the way it ended: no late event,     *)
(* observation or task step rewrites it.                                   *)
Settled == [][\A c \in Calls : Over(c) => session'[c] = session[c]]_session

-----------------------------------------------------------------------------
(* Liveness.                                                               *)

(* Every call the engine picks up comes to its end and is let go, however  *)
(* the caller behaves: the booth is never held for ever.                   *)
CallsEnd == \A c \in Calls : Live(c) ~> (task[c] = "done" \/ phase = "closed")

(* A finished call does not stay on the Console.                           *)
BoothReadsIdle ==
  \A c \in Calls : (active = c /\ Over(c)) ~> (active # c \/ phase = "closed")

(* Nobody who lifts the handset is left on a silent line: the call is      *)
(* played or refused, and the channel let go.                              *)
NobodyLeftHanging == \A c \in Calls : chan[c] = "stasis" ~> chan[c] # "stasis"
=============================================================================
