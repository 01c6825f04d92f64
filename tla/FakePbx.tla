------------------------------ MODULE FakePbx ------------------------------
(***************************************************************************)
(* engine/fake_pbx.py and engine/fake_audio.py: the stand-in for Asterisk, *)
(* the harness that places scripted calls on the real engine, and the      *)
(* audio of those calls; with _run of engine/__main__.py around them.      *)
(*                                                                         *)
(* Everything runs on one event loop, and an action is what a coroutine    *)
(* does between two awaits.  The engine is as Booth has it: a call that is *)
(* accepted is live, is over, and is recorded; its thread plays GameFlow.  *)
(***************************************************************************)
EXTENDS GameFlow, Sequences

CONSTANTS Scenarios,        (* the harness's scenarios, in order                 *)
          Cycles,           (* --fake-cycles                                     *)
          AttemptLimit,     (* DEFAULT_ATTEMPT_LIMIT                             *)
          Listeners, Tee    (* consumers of the audio; the one that records it   *)

Scenario(mode, dtmf, expect) == [mode |-> mode, dtmf |-> dtmf, expect |-> expect]

(* A scripted entry is the Code, or it is not; "1" is a key every room has. *)
DefaultScenarios ==
  << Scenario("tweeted", <<"right">>, {"succeed"}),
     Scenario("tweeted", <<"wrong", "right">>, {"succeed"}),
     Scenario("tweeted", <<"wrong", "wrong", "wrong">>, {"exile"}),
     Scenario("tweeted", <<>>, {"hangup"}),
     Scenario("puzzle", <<"right">>, {"succeed"}),
     Scenario("puzzle", <<"wrong", "wrong", "wrong">>, {"exile"}),
     Scenario("puzzle", <<>>, {"hangup"}),
     Scenario("roguelike", [i \in 1..2 * WalkBound |-> "right"], {"succeed", "exile"}),
     Scenario("roguelike", <<>>, {"hangup"}) >>

ASSUME FakeAssumption ==
  /\ Scenarios \in Seq([mode : Modes, dtmf : Seq(Answers), expect : SUBSET FlowOutcomes])
  /\ Scenarios # <<>> /\ Cycles \in Nat \ {0} /\ AttemptLimit \in Nat \ {0}
  /\ Tee \in Listeners

VARIABLES
  main,         \* _run and the harness in it: what it awaits
  unwinding,    \* an exception is on its way out through the finally
  interrupt,    \* the first Ctrl-C
  turn, cycle,  \* the scenario whose turn it is, and the cycle
  placed,       \* _placed
  report,       \* what _report said of the scenario before
  config,       \* the scenario mode.json was written for
  script,       \* _dtmf
  call,         \* the engine's task for the latest call
  flow, dialled,\* its thread, and the entry that is being dialled
  ending, row,  \* how it ended, and its row in the call store
  sinks, live,  \* _audio_sinks; live_channel, or 0
  audio, running\* the call that _audio was started for, or 0; all that still stream

harness == <<main, unwinding, interrupt, turn, cycle, placed, report, config>>
engine  == <<call, flow, dialled, ending, row>>
sound   == <<sinks, live, audio, running>>
vars    == <<harness, script, engine, sound>>

(* The thread's own endings, and the one the engine makes up for it. *)
Endings == FlowOutcomes \cup {"dropped"}

Awaits == {"waiting", "quieting", "looking", "resting"}

TypeOK ==
  /\ main \in Awaits \cup {"placing", "draining", "stopped"}
  /\ unwinding \in BOOLEAN
  /\ interrupt \in {"none", "pending", "heeded", "lost"}
  /\ turn \in 1..Len(Scenarios) /\ cycle \in 1..Cycles
  /\ placed \in 0..Cycles * Len(Scenarios)
  /\ report \in {"none", "expected", "unexpected", "missing"}
  /\ config \in 0..Len(Scenarios)
  /\ script \in Seq(Answers)
  /\ call \in {"none", "ringing", "playing", "over", "recorded", "unrecorded"}
  /\ flow \in Flow /\ dialled \in Answers
  /\ ending \in Endings /\ row \in Endings
  /\ sinks \subseteq Listeners
  /\ live \in 0..placed /\ audio \in 0..placed /\ running \subseteq 1..placed

Init ==
  /\ main = "placing" /\ unwinding = FALSE /\ interrupt = "none"
  /\ turn = 1 /\ cycle = 1 /\ placed = 0 /\ report = "none" /\ config = 0
  /\ script = <<>>
  /\ call = "none" /\ flow = NewFlow("tweeted", AttemptLimit)
  /\ dialled = "silence" /\ ending = "none" /\ row = "none"
  /\ sinks \in {{}, {Tee}} /\ live = 0 /\ audio = 0 /\ running = {}

-----------------------------------------------------------------------------
(* The audio.                                                              *)

StartStream(channel) ==
  IF audio = 0
    THEN audio' = channel /\ running' = running \cup {channel}
    ELSE UNCHANGED <<audio, running>>

StartAudio(channel) ==
  /\ live' = channel
  /\ IF sinks # {} THEN StartStream(channel) ELSE UNCHANGED <<audio, running>>
  /\ UNCHANGED sinks

(* The cancelled task sends no further frame. *)
StopAudio ==
  /\ live' = 0 /\ audio' = 0 /\ running' = running \ {audio}
  /\ UNCHANGED sinks

(* Mutant: only start_audio looks who is listening. *)
Subscribes_NextCall(l) ==
  /\ main # "stopped" /\ l \notin sinks
  /\ sinks' = sinks \cup {l}
  /\ UNCHANGED <<harness, script, engine, live, audio, running>>

Subscribes(l) ==
  /\ main # "stopped" /\ l \notin sinks
  /\ sinks' = sinks \cup {l}
  /\ IF live # 0 THEN StartStream(live) ELSE UNCHANGED <<audio, running>>
  /\ UNCHANGED <<harness, script, engine, live>>

(* Nobody unsubscribes the recording. *)
Unsubscribes(l) ==
  /\ main # "stopped" /\ l \in sinks \ {Tee}
  /\ sinks' = sinks \ {l}
  /\ UNCHANGED <<harness, script, engine, live, audio, running>>

-----------------------------------------------------------------------------
(* The harness.                                                            *)

Accepts == call \notin {"ringing", "playing"}

(* Mutant: what the caller before did not dial is dialled first. *)
Script_Appended(dtmf) == script \o dtmf

(* script: the next caller's, and nothing of the one before. *)
Script(dtmf) == dtmf

(* Nothing is awaited from the config to wait_for_idle: the engine claims  *)
(* the slot as the event is delivered.                                     *)
Places ==
  /\ main = "placing"
  /\ config' = turn
  /\ script' = Script(Scenarios[turn].dtmf)
  /\ placed' = placed + 1
  /\ IF Accepts THEN call' = "ringing" /\ row' = "none" ELSE UNCHANGED <<call, row>>
  /\ StartAudio(placed + 1)
  /\ main' = "waiting"
  /\ UNCHANGED <<unwinding, interrupt, turn, cycle, report, flow, dialled, ending>>

(* write_config raises. *)
PlaceFails ==
  /\ main = "placing"
  /\ main' = "draining" /\ unwinding' = TRUE
  /\ UNCHANGED <<interrupt, turn, cycle, placed, report, config, script, engine, sound>>

(* Mutant: a call is in flight until it has its row. *)
Idle_Stored == call \in {"none", "recorded"}

(* wait_for_idle: the engine's task is done, with a row or without. *)
Idle == call \in {"none", "recorded", "unrecorded"}

(* wait_for_idle ends, or Ctrl-C ends the waiting; a stream is waited for. *)
Wakes ==
  /\ main = "waiting" /\ (Idle \/ interrupt = "pending")
  /\ unwinding' = (interrupt = "pending")
  /\ interrupt' = IF interrupt = "pending" THEN "heeded" ELSE interrupt
  /\ main' = CASE audio # 0 -> "quieting"
               [] audio = 0 /\ interrupt = "pending" -> "draining"
               [] audio = 0 /\ interrupt # "pending" -> "looking"
  /\ StopAudio
  /\ UNCHANGED <<turn, cycle, placed, report, config, script, engine>>

(* SyntheticAudioStream.stop suppresses the CancelledError of its task, and *)
(* a Ctrl-C that comes while it waits looks just the same.                 *)
Quiets ==
  /\ main = "quieting"
  /\ interrupt' = IF interrupt = "pending" THEN "lost" ELSE interrupt
  /\ main' = IF unwinding THEN "draining" ELSE "looking"
  /\ UNCHANGED <<unwinding, turn, cycle, placed, report, config, script, engine, sound>>

(* store.get, and _report. *)
LooksUp ==
  /\ main = "looking" /\ interrupt # "pending"
  /\ report' = CASE row = "none" -> "missing"
                 [] row # "none" /\ row \in Scenarios[turn].expect -> "expected"
                 [] row # "none" /\ row \notin Scenarios[turn].expect -> "unexpected"
  /\ main' = "resting"
  /\ UNCHANGED <<unwinding, interrupt, turn, cycle, placed, config, script, engine, sound>>

LookupFails ==
  /\ main = "looking" /\ interrupt # "pending"
  /\ main' = "draining" /\ unwinding' = TRUE
  /\ UNCHANGED <<interrupt, turn, cycle, placed, report, config, script, engine, sound>>

(* On to the next scenario, the next cycle, or the end of the run. *)
Rests ==
  /\ main = "resting" /\ interrupt # "pending"
  /\ \/ turn < Len(Scenarios) /\ turn' = turn + 1 /\ UNCHANGED cycle /\ main' = "placing"
     \/ turn = Len(Scenarios) /\ cycle < Cycles /\ turn' = 1 /\ cycle' = cycle + 1
          /\ main' = "placing"
     \/ turn = Len(Scenarios) /\ cycle = Cycles /\ UNCHANGED <<turn, cycle>>
          /\ main' = "draining"
  /\ UNCHANGED <<unwinding, interrupt, placed, report, config, script, engine, sound>>

(* asyncio.run turns Ctrl-C into a cancellation of whatever main awaits. A *)
(* second one, or one during the shutdown, only cuts the program short.    *)
CtrlC ==
  /\ main \in Awaits /\ interrupt = "none" /\ ~unwinding
  /\ interrupt' = "pending"
  /\ UNCHANGED <<main, unwinding, turn, cycle, placed, report, config, script, engine, sound>>

(* Cancelled between two calls. *)
Unwinds ==
  /\ main \in {"looking", "resting"} /\ interrupt = "pending"
  /\ main' = "draining" /\ unwinding' = TRUE /\ interrupt' = "heeded"
  /\ UNCHANGED <<turn, cycle, placed, report, config, script, engine, sound>>

(* Mutant: the engine is closed at once. *)
Drains_AtOnce ==
  /\ main = "draining"
  /\ main' = "stopped"
  /\ StopAudio
  /\ UNCHANGED <<unwinding, interrupt, turn, cycle, placed, report, config, script, engine>>

(* aclose: wait_for_idle, then FakePBX.close. *)
Drains ==
  /\ main = "draining" /\ Idle
  /\ main' = "stopped"
  /\ StopAudio
  /\ UNCHANGED <<unwinding, interrupt, turn, cycle, placed, report, config, script, engine>>

-----------------------------------------------------------------------------
(* The engine and its thread.                                              *)

(* The snapshot, of what mode.json holds by now, and the answer. *)
PicksUp ==
  /\ call = "ringing"
  /\ call' = "playing"
  /\ flow' = NewFlow(Scenarios[config].mode, AttemptLimit)
  /\ UNCHANGED <<harness, script, dialled, ending, row, sound>>

(* take_snapshot raises: the call is dropped, and with no Mode there is    *)
(* nothing to write of it.                                                 *)
SnapshotFails ==
  /\ call = "ringing"
  /\ call' = "unrecorded" /\ ending' = "dropped"
  /\ UNCHANGED <<harness, script, flow, dialled, row, sound>>

(* read_digits takes its entry as it is called, and dials it; with none    *)
(* left the caller sits in silence.                                        *)
Dials(g) ==
  /\ script' = IF g.at \in Reads /\ script # <<>> THEN Tail(script) ELSE script
  /\ dialled' = IF g.at \in Reads /\ script # <<>> THEN Head(script) ELSE "silence"

(* A command returns and the thread issues the next: the fake fails none.  *)
Plays ==
  /\ call = "playing" /\ flow.at # "end"
  /\ \E g \in After(flow, dialled) : flow' = g /\ Dials(g)
  /\ UNCHANGED <<harness, call, ending, row, sound>>

(* Speech or the game log can still fail, and then the engine drops the    *)
(* call with the rest of its script undialled.                             *)
Raises ==
  /\ call = "playing" /\ flow.at # "end"
  /\ \E g \in After(flow, dialled) : Brittle(flow, g)
  /\ call' = "over" /\ ending' = "dropped"
  /\ UNCHANGED <<harness, script, flow, dialled, row, sound>>

Ends ==
  /\ call = "playing" /\ flow.at = "end"
  /\ call' = "over" /\ ending' = flow.outcome
  /\ UNCHANGED <<harness, script, flow, dialled, row, sound>>

(* _persist, which survives a store that does not take the row. *)
Persists ==
  /\ call = "over"
  /\ \/ call' = "recorded" /\ row' = ending
     \/ call' = "unrecorded" /\ UNCHANGED row
  /\ UNCHANGED <<harness, script, flow, dialled, ending, sound>>

Harness == \/ Places \/ PlaceFails \/ Wakes \/ Quiets \/ LooksUp \/ LookupFails
           \/ Rests \/ Unwinds \/ Drains
Engine  == PicksUp \/ SnapshotFails \/ Plays \/ Raises \/ Ends \/ Persists

Next == \/ Harness \/ CtrlC \/ Engine
        \/ \E l \in Listeners : Subscribes(l) \/ Unsubscribes(l)

Spec == Init /\ [][Next]_vars

(* The loop runs what is ready, threads are scheduled, and the fake's      *)
(* pauses end.                                                             *)
FairSpec == Spec /\ WF_vars(Harness) /\ WF_vars(Engine)

-----------------------------------------------------------------------------
(* FakePBXHarness: every scenario is judged by its own config and dials    *)
(* its own script, whatever the one before left undialled: it ends as it   *)
(* expects unless the engine drops it, is never refused, and its record is *)
(* missing only if its snapshot failed or the store did not take it.       *)
AsScripted ==
  /\ report = "unexpected" => row = "dropped" \/ main # "resting"
  /\ report = "missing" /\ main = "resting" => call = "unrecorded"
  /\ call \in {"ringing", "playing"} => config = turn
  /\ call = "over" => ending \in Scenarios[turn].expect \cup {"dropped"}

(* fake_pbx.py, the media path: one stream at a time, of the live call;    *)
(* nobody who listens during a call, from its start or attached mid-call,  *)
(* is left without it; and it does not outlive the wait for its call.      *)
OneSound ==
  /\ running = IF audio # 0 THEN {audio} ELSE {}
  /\ audio # 0 => audio = live
  /\ live # 0 => live = placed /\ main = "waiting"
  /\ live # 0 /\ sinks # {} => audio = live

(* _run's finally, wherever Ctrl-C or an error hit: when the program stops *)
(* the last call has come to its end, the engine has offered it to the     *)
(* store as it ended (unless it had no Mode), and nothing streams into a   *)
(* recording that is closed.                                               *)
StopsClean ==
  main = "stopped" =>
    /\ running = {} /\ live = 0
    /\ placed > 0 => call \in {"recorded", "unrecorded"}
    /\ call = "recorded" => row = ending
    /\ ending # "dropped" => flow.at = "end" \/ placed = 0

(* "one pass of the matrix, then exit": a run of so many cycles ends.      *)
RunEnds == <>(main = "stopped")
=============================================================================
