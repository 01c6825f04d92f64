--------------------------- MODULE FakePbx_proofs ---------------------------
(***************************************************************************)
(* FakePbx for any scenarios, any number of cycles and any listeners: the  *)
(* sound is the live call's, a stop is clean, and no scenario is refused   *)
(* or left without a record that its call was written to.                  *)
(*                                                                         *)
(* That a call ends as its scenario expects is proved of scenarios that    *)
(* expect what the rules of their game make of their script, and the ones  *)
(* of the file are shown to.                                               *)
(***************************************************************************)
EXTENDS FakePbx, GameFlow_proofs, SequenceTheorems

(* What the harness knows of the call by where it stands: between calls,   *)
(* and wherever it is not on its way out, the last one is done with.       *)
HarnessWaits ==
  /\ main \in {"placing", "looking", "resting"} => Idle
  /\ main = "quieting" /\ ~unwinding => Idle
  /\ main = "placing" => live = 0
  /\ main \in {"placing", "waiting", "looking", "resting"} => ~unwinding
  /\ main = "quieting" => live = 0
  /\ main \in {"waiting", "quieting", "looking", "resting"} => placed > 0
  /\ main = "stopped" => Idle /\ live = 0
  /\ placed > 0 => call # "none"
  /\ call \in {"ringing", "playing", "over"} => config = turn
  /\ report = "missing" /\ main = "resting" => call = "unrecorded"

(* A call that is over has an ending, its own or the engine's.             *)
CallEnds ==
  /\ call = "playing" => Played(flow)
  /\ call \in {"over", "recorded", "unrecorded"} =>
       /\ ending # "none"
       /\ ending # "dropped" => flow.at = "end"
  /\ call = "recorded" => row = ending
  /\ call = "none" => ending = "none" /\ placed = 0

(* The types the proof needs: of the thread and the counters.              *)
Typed ==
  /\ main \in Awaits \cup {"placing", "draining", "stopped"}
  /\ unwinding \in BOOLEAN
  /\ turn \in 1..Len(Scenarios) /\ cycle \in 1..Cycles /\ config \in 0..Len(Scenarios)
  /\ placed \in Nat /\ live \in Nat /\ audio \in Nat
  /\ call \in {"none", "ringing", "playing", "over", "recorded", "unrecorded"}
  /\ flow \in Flow
  /\ config = 0 => call = "none"

Inductive == Typed /\ HarnessWaits /\ CallEnds /\ OneSound

(* The i-th entry a read gets out of a script: silence when it has run out.*)
Heard(q, i) == IF i \in DOMAIN q THEN q[i] ELSE "silence"

Only(q, n, answer) == \A i \in 1..n : Heard(q, i) = answer

(* What a scenario may expect of its script, by the rules of its game: of  *)
(* the first answer that is not wrong, or of as many wrong ones as the     *)
(* limit; in the maze, where no scenario keys a Refused Key, of the keys   *)
(* up to the Walk Bound, behind each of which the leaf may be.             *)
CodeEntryJudged(s) ==
  \A k \in 1..AttemptLimit : Only(s.dtmf, k - 1, "wrong") =>
    /\ Heard(s.dtmf, k) = "right" => "succeed" \in s.expect
    /\ Heard(s.dtmf, k) = "silence" => "hangup" \in s.expect
    /\ Heard(s.dtmf, k) = "wrong" /\ k = AttemptLimit => "exile" \in s.expect

MazeJudged(s) ==
  /\ \A k \in 1..WalkBound : Only(s.dtmf, k - 1, "right") =>
       /\ Heard(s.dtmf, k) \in {"right", "silence"}
       /\ Heard(s.dtmf, k) = "right" => "succeed" \in s.expect
       /\ Heard(s.dtmf, k) = "silence" => "hangup" \in s.expect
  /\ Only(s.dtmf, WalkBound, "right") => "exile" \in s.expect

WellJudged(s) == IF s.mode = "roguelike" THEN MazeJudged(s) ELSE CodeEntryJudged(s)

AllWellJudged == \A i \in 1..Len(Scenarios) : WellJudged(Scenarios[i])

(* What is left of a script once its first n entries have been dialled.    *)
Undialled(q, n) == \A i \in Nat \ {0} : Heard(script, i) = Heard(q, n + i)

(* The thread plays scenario s: it has been dialled as far as it has read, *)
(* and is decided only as the scenario expects.                            *)
OnScript(s) ==
  /\ flow.mode = s.mode /\ flow.limit = AttemptLimit
  /\ flow.at \in {"start", "prompt"} => Undialled(s.dtmf, 0)
  /\ flow.at = "read" =>
       /\ Only(s.dtmf, flow.tally - 1, "wrong") /\ dialled = Heard(s.dtmf, flow.tally)
       /\ Undialled(s.dtmf, flow.tally)
  /\ flow.at = "wrong" => Only(s.dtmf, flow.tally, "wrong") /\ Undialled(s.dtmf, flow.tally)
  /\ flow.at = "room" => Only(s.dtmf, flow.tally, "right") /\ Undialled(s.dtmf, flow.tally)
  /\ flow.at = "choose" =>
       /\ Only(s.dtmf, flow.tally, "right") /\ dialled = Heard(s.dtmf, flow.tally + 1)
       /\ Undialled(s.dtmf, flow.tally + 1)
  /\ flow.at \in {"leaf", "code"} => "succeed" \in s.expect
  /\ flow.at = "lost" => "exile" \in s.expect
  /\ flow.outcome # "none" => flow.outcome \in s.expect

(* The harness, the store and the engine are about the same scenario.      *)
Judged ==
  /\ script \in Seq(Answers)
  /\ main \in Awaits => config = turn
  /\ call # "recorded" => row = "none"
  /\ call = "ringing" => script = Scenarios[config].dtmf
  /\ call = "playing" => OnScript(Scenarios[config])
  /\ call \in {"over", "recorded"} => ending \in Scenarios[config].expect \cup {"dropped"}
  /\ report = "unexpected" /\ main = "resting" => row = "dropped"

-----------------------------------------------------------------------------

LEMMA ScenarioHas ==
  ASSUME NEW i \in 1..Len(Scenarios)
  PROVE  /\ Scenarios[i].mode \in Modes /\ Scenarios[i].dtmf \in Seq(Answers)
         /\ \A n : Heard(Scenarios[i].dtmf, n) \in Answers
         /\ AttemptLimit \in Int
<1> DEFINE S == [mode : Modes, dtmf : Seq(Answers), expect : SUBSET FlowOutcomes]
<1>1. Scenarios \in Seq(S) /\ AttemptLimit \in Int
  BY FakeAssumption
<1>2. Scenarios[i] \in S
  <2> HIDE DEF S
  <2> QED
    BY <1>1, ElementOfSeq
<1>3. Scenarios[i].dtmf \in Seq(Answers) /\ Scenarios[i].mode \in Modes
  BY <1>2
<1>4. \A n : Heard(Scenarios[i].dtmf, n) \in Answers
  <2>1. \A n \in DOMAIN Scenarios[i].dtmf : Scenarios[i].dtmf[n] \in Answers
    BY <1>3
  <2> QED
    BY <2>1 DEF Heard, Answers
<1> QED
  BY <1>1, <1>3, <1>4

LEMMA AtLeastOne == Len(Scenarios) \in Nat \ {0} /\ Cycles \in Nat \ {0}
<1> DEFINE S == [mode : Modes, dtmf : Seq(Answers), expect : SUBSET FlowOutcomes]
<1>1. Scenarios \in Seq(S) /\ Scenarios # <<>>
  BY FakeAssumption
<1> HIDE DEF S
<1> QED
  BY <1>1, EmptySeq, FakeAssumption

LEMMA Initially == Init => Inductive
<1> SUFFICES ASSUME Init PROVE Inductive
  OBVIOUS
<1>1. flow \in Flow
  <2>1. "tweeted" \in Modes /\ AttemptLimit \in Int
    BY AtLeastOne, ScenarioHas DEF Modes
  <2> QED
    BY <2>1, NewFlowPlays DEF Init
<1>2. 1 \in 1..Len(Scenarios) /\ Len(Scenarios) \in Nat /\ 1 \in 1..Cycles
  BY AtLeastOne
<1>3. Typed
  <2>1. /\ main = "placing" /\ unwinding = FALSE /\ turn = 1 /\ cycle = 1 /\ config = 0
        /\ placed = 0 /\ live = 0 /\ audio = 0 /\ call = "none"
    BY DEF Init
  <2>2. unwinding \in BOOLEAN
    BY <2>1
  <2>3. config \in 0..Len(Scenarios)
    BY <1>2, <2>1
  <2> QED
    BY <1>1, <1>2, <2>1, <2>2, <2>3 DEF Typed
<1>4. HarnessWaits /\ CallEnds /\ OneSound
  BY DEF Init, HarnessWaits, CallEnds, OneSound, Idle
<1> QED
  BY <1>3, <1>4 DEF Inductive

(* The engine's own steps: what the harness awaits is there when it looks. *)
LEMMA EngineStep ==
  ASSUME Inductive, Engine
  PROVE  Inductive'
<1> USE DEF Inductive
<1>1. UNCHANGED <<harness, sound>>
  BY DEF Engine, PicksUp, SnapshotFails, Plays, Raises, Ends, Persists
<1>2. OneSound'
  BY <1>1 DEF OneSound, harness, sound
<1>3. CASE PicksUp
  <2>1. call = "ringing" /\ call' = "playing" /\ UNCHANGED <<ending, row>>
        /\ flow' = NewFlow(Scenarios[config].mode, AttemptLimit)
    BY <1>3 DEF PicksUp
  <2>2. config \in 1..Len(Scenarios)
    BY <2>1 DEF Typed, HarnessWaits
  <2>3. flow' \in Flow /\ Played(flow')
    BY <2>1, <2>2, ScenarioHas, NewFlowPlays
  <2> QED
    BY <1>1, <1>2, <2>1, <2>3 DEF Typed, HarnessWaits, CallEnds, Idle, harness, sound
<1>4. CASE Plays
  <2>1. PICK g \in After(flow, dialled) : flow' = g
    BY <1>4 DEF Plays
  <2>2. call = "playing" /\ UNCHANGED <<call, ending, row>>
    BY <1>4 DEF Plays
  <2>3. flow' \in Flow /\ Played(flow')
    BY <2>1, <2>2, AfterType, AfterPlays DEF Typed, CallEnds
  <2> QED
    BY <1>1, <1>2, <2>2, <2>3 DEF Typed, HarnessWaits, CallEnds, Idle, harness, sound
<1>5. CASE Raises
  <2>1. call = "playing" /\ call' = "over" /\ ending' = "dropped" /\ UNCHANGED <<flow, row>>
    BY <1>5 DEF Raises
  <2> QED
    BY <1>1, <1>2, <2>1 DEF Typed, HarnessWaits, CallEnds, Idle, harness, sound
<1>6. CASE Ends
  <2>1. /\ call = "playing" /\ call' = "over" /\ ending' = flow.outcome
        /\ flow.at = "end" /\ UNCHANGED <<flow, row>>
    BY <1>6 DEF Ends
  <2>2. flow.outcome # "none"
    BY <2>1 DEF CallEnds, Played, Decided
  <2> QED
    BY <1>1, <1>2, <2>1, <2>2 DEF Typed, HarnessWaits, CallEnds, Idle, harness, sound
<1>7. CASE Persists
  <2>1. /\ call = "over" /\ UNCHANGED <<flow, ending>>
        /\ \/ call' = "recorded" /\ row' = ending
           \/ call' = "unrecorded"
    BY <1>7 DEF Persists
  <2> QED
    BY <1>1, <1>2, <2>1 DEF Typed, HarnessWaits, CallEnds, Idle, harness, sound
<1>8. CASE SnapshotFails
  <2>1. /\ call = "ringing" /\ call' = "unrecorded" /\ ending' = "dropped"
        /\ UNCHANGED <<flow, row>>
    BY <1>8 DEF SnapshotFails
  <2> QED
    BY <1>1, <1>2, <2>1 DEF Typed, HarnessWaits, CallEnds, Idle, harness, sound
<1> QED
  BY <1>3, <1>4, <1>5, <1>6, <1>7, <1>8 DEF Engine

(* The listeners.                                                          *)
LEMMA ListenersStep ==
  ASSUME Inductive, NEW l \in Listeners, Subscribes(l) \/ Unsubscribes(l)
  PROVE  Inductive'
<1> USE DEF Inductive
<1>1. /\ UNCHANGED <<harness, engine, live>>
      /\ \/ audio' = audio /\ running' = running
         \/ live # 0 /\ audio = 0 /\ audio' = live /\ running' = running \cup {live}
  BY DEF Subscribes, Unsubscribes, StartStream
<1>2. OneSound'
  BY <1>1 DEF OneSound, harness, Subscribes, Unsubscribes, StartStream
<1>3. Typed' /\ HarnessWaits' /\ CallEnds'
  BY <1>1 DEF Typed, HarnessWaits, CallEnds, Idle, harness, engine
<1> QED
  BY <1>2, <1>3

(* A call is placed, and its sound started.                                *)
LEMMA PlacesStep ==
  ASSUME Inductive, Places
  PROVE  Inductive'
<1> USE DEF Inductive
<1>1. /\ main = "placing" /\ main' = "waiting" /\ config' = turn /\ placed' = placed + 1
      /\ live' = placed + 1 /\ UNCHANGED <<unwinding, turn, cycle, report, flow, ending, sinks>>
      /\ IF sinks # {} THEN StartStream(placed + 1) ELSE UNCHANGED <<audio, running>>
  BY DEF Places, StartAudio
<1>2. live = 0 /\ audio = 0 /\ running = {} /\ Idle
  BY <1>1 DEF HarnessWaits, OneSound
<1>3. call' = "ringing"
  BY <1>2 DEF Places, Idle, Accepts
<1>4. OneSound'
  BY <1>1, <1>2 DEF OneSound, StartStream, Typed
<1>5. Typed'
  <2>1. audio' \in {0, placed + 1}
    BY <1>1, <1>2 DEF StartStream
  <2> QED
    BY <1>1, <1>3, <2>1 DEF Typed, Awaits
<1>6. HarnessWaits' /\ CallEnds'
  <2>1. ~unwinding'
    BY <1>1 DEF HarnessWaits
  <2> QED
    BY <1>1, <1>3, <2>1 DEF Typed, HarnessWaits, CallEnds, Idle
<1> QED
  BY <1>4, <1>5, <1>6

(* The end of a wait, and of everything.                                   *)
LEMMA SoundStops ==
  ASSUME Inductive, StopAudio
  PROVE  /\ live' = 0 /\ audio' = 0 /\ running' = {} /\ OneSound'
BY DEF Inductive, StopAudio, OneSound

LEMMA WakesStep ==
  ASSUME Inductive, Wakes
  PROVE  Inductive'
<1> USE DEF Inductive
<1>1. /\ main = "waiting" /\ main' \in {"quieting", "draining", "looking"}
      /\ UNCHANGED <<turn, cycle, placed, report, config, engine>> /\ StopAudio
  BY DEF Wakes
<1>2. /\ unwinding' \in BOOLEAN
      /\ main' = "looking" => ~unwinding' /\ Idle
      /\ main' = "quieting" => unwinding' \/ Idle
  BY DEF Wakes
<1>3. Typed' /\ HarnessWaits' /\ CallEnds'
  BY <1>1, <1>2, SoundStops DEF Typed, HarnessWaits, CallEnds, Idle, engine, Awaits
<1> QED
  BY <1>1, <1>3, SoundStops

LEMMA DrainsStep ==
  ASSUME Inductive, Drains
  PROVE  Inductive'
<1> USE DEF Inductive
<1>1. /\ main = "draining" /\ main' = "stopped" /\ Idle
      /\ UNCHANGED <<unwinding, turn, cycle, placed, report, config, engine>> /\ StopAudio
  BY DEF Drains
<1>2. Typed' /\ HarnessWaits' /\ CallEnds'
  BY <1>1, SoundStops DEF Typed, HarnessWaits, CallEnds, Idle, engine, Awaits
<1> QED
  BY <1>1, <1>2, SoundStops

(* Looking up, resting, failing and being interrupted leave the call and   *)
(* its sound alone.                                                        *)
LEMMA BetweenCallsStep ==
  ASSUME Inductive,
         PlaceFails \/ Quiets \/ LooksUp \/ LookupFails \/ Rests \/ CtrlC \/ Unwinds
  PROVE  Inductive'
<1> USE DEF Inductive
<1>1. UNCHANGED <<engine, sound, placed, config>>
  BY DEF PlaceFails, Quiets, LooksUp, LookupFails, Rests, CtrlC, Unwinds
<1>2. CallEnds'
  BY <1>1 DEF CallEnds, engine
<1>3. CASE PlaceFails \/ LookupFails \/ Unwinds
  <2>1. main # "waiting" /\ main' = "draining" /\ unwinding' = TRUE /\ UNCHANGED <<turn, cycle>>
    BY <1>3 DEF PlaceFails, LookupFails, Unwinds
  <2>2. OneSound'
    BY <1>1, <2>1 DEF OneSound, sound
  <2> QED
    BY <1>1, <1>2, <2>1, <2>2 DEF Typed, HarnessWaits, Idle, engine, sound
<1>4. CASE Quiets
  <2>1. /\ main = "quieting" /\ main' = IF unwinding THEN "draining" ELSE "looking"
        /\ UNCHANGED <<unwinding, turn, cycle>>
    BY <1>4 DEF Quiets
  <2>2. OneSound'
    BY <1>1, <2>1 DEF OneSound, sound
  <2> QED
    BY <1>1, <1>2, <2>1, <2>2 DEF Typed, HarnessWaits, Idle, engine, sound, Awaits
<1>5. CASE LooksUp
  <2>1. /\ main = "looking" /\ main' = "resting" /\ UNCHANGED <<unwinding, turn, cycle>>
        /\ report' = "missing" => row = "none"
    BY <1>5 DEF LooksUp
  <2>2. row = "none" => call = "unrecorded"
    BY <2>1 DEF HarnessWaits, CallEnds, Idle, Typed
  <2>3. OneSound'
    BY <1>1, <2>1 DEF OneSound, sound
  <2> QED
    BY <1>1, <1>2, <2>1, <2>2, <2>3 DEF Typed, HarnessWaits, Idle, engine, sound, Awaits
<1>6. CASE Rests
  <2>1. /\ main = "resting" /\ main' \in {"placing", "draining"} /\ UNCHANGED unwinding
        /\ turn' \in 1..Len(Scenarios) /\ cycle' \in 1..Cycles
    BY <1>6, AtLeastOne DEF Rests, Typed
  <2>2. Idle /\ live = 0
    BY <2>1 DEF HarnessWaits, OneSound
  <2>3. OneSound'
    BY <1>1, <2>1, <2>2 DEF OneSound, sound
  <2> QED
    BY <1>1, <1>2, <2>1, <2>2, <2>3 DEF Typed, HarnessWaits, Idle, engine, sound
<1>7. CASE CtrlC
  <2>1. UNCHANGED <<main, unwinding, turn, cycle, report>>
    BY <1>7 DEF CtrlC
  <2>2. OneSound'
    BY <1>1, <2>1 DEF OneSound, sound
  <2> QED
    BY <1>1, <1>2, <2>1, <2>2 DEF Typed, HarnessWaits, Idle, engine, sound
<1> QED
  BY <1>3, <1>4, <1>5, <1>6, <1>7

LEMMA StepsKeepIt == Inductive /\ [Next]_vars => Inductive'
<1> SUFFICES ASSUME Inductive, [Next]_vars PROVE Inductive'
  OBVIOUS
<1>1. CASE UNCHANGED vars
  BY <1>1 DEF vars, harness, engine, sound, Inductive, Typed, HarnessWaits, CallEnds,
              OneSound, Idle
<1> QED
  BY <1>1, EngineStep, ListenersStep, PlacesStep, WakesStep, DrainsStep, BetweenCallsStep
     DEF Next, Harness

LEMMA Invariance == Spec => []Inductive
<1> QED
  BY Initially, StepsKeepIt, PTL DEF Spec

(* fake_pbx.py, the media path: what is streamed is the live call, once,   *)
(* to whoever listens, and never outlives the wait for it.                 *)
THEOREM OneSoundAlways == Spec => []OneSound
<1> QED
  BY Invariance, PTL DEF Inductive

(* _run's finally: however the run ends, the last call has come to its end *)
(* and was offered to the store, and nothing streams any more.             *)
THEOREM StopIsClean == Spec => []StopsClean
<1>1. Inductive => StopsClean
  <2> SUFFICES ASSUME Inductive, main = "stopped" PROVE StopsClean
    BY DEF StopsClean
  <2>1. Idle /\ live = 0
    BY DEF Inductive, HarnessWaits
  <2>2. running = {}
    BY <2>1 DEF Inductive, OneSound
  <2> QED
    BY <2>1, <2>2 DEF Inductive, HarnessWaits, CallEnds, Idle, StopsClean
<1> QED
  BY <1>1, Invariance, PTL

(* The engine is free when a call is placed, plays it under the config of  *)
(* its own scenario, and a record is missing only if the engine could not  *)
(* read that config, or the store failed.                                  *)
EachToItsOwn ==
  /\ main = "placing" => Accepts
  /\ call \in {"ringing", "playing", "over"} => config = turn
  /\ report = "missing" /\ main = "resting" => call = "unrecorded"

THEOREM EachCallItsOwn == Spec => []EachToItsOwn
<1>1. Inductive => EachToItsOwn
  BY DEF Inductive, HarnessWaits, EachToItsOwn, Accepts, Idle
<1> QED
  BY <1>1, Invariance, PTL

-----------------------------------------------------------------------------
(* The scripts.                                                            *)

(* A read takes the next entry, or silence, and any other command none.    *)
LEMMA DialsNext ==
  ASSUME script \in Seq(Answers), NEW q, NEW n \in Nat, Undialled(q, n), NEW g, Dials(g)
  PROVE  /\ g.at \in Reads => dialled' = Heard(q, n + 1) /\ Undialled(q, n + 1)'
         /\ g.at \notin Reads => Undialled(q, n)'
         /\ script' \in Seq(Answers)
<1>1. CASE g.at \notin Reads
  BY <1>1 DEF Dials, Undialled
<1>2. CASE g.at \in Reads /\ script # <<>>
  <2>1. script' = Tail(script) /\ dialled' = Head(script)
    BY <1>2 DEF Dials
  <2>2. /\ Head(script) = script[1] /\ Tail(script) \in Seq(Answers)
        /\ DOMAIN script = 1..Len(script) /\ Len(script) \in Nat \ {0}
        /\ DOMAIN Tail(script) = 1..(Len(script) - 1)
        /\ \A i \in 1..(Len(script) - 1) : Tail(script)[i] = script[i + 1]
    BY <1>2, EmptySeq, HeadTailProperties
  <2>3. dialled' = Heard(script, 1)
    BY <2>1, <2>2 DEF Heard
  <2>4. \A i \in Nat \ {0} : Heard(script', i) = Heard(script, i + 1)
    BY <2>1, <2>2 DEF Heard
  <2>5. Heard(script, 1) = Heard(q, n + 1)
    BY DEF Undialled
  <2>6. \A i \in Nat \ {0} : Heard(script, i + 1) = Heard(q, (n + 1) + i)
    <3>1. \A i \in Nat \ {0} : i + 1 \in Nat \ {0} /\ n + (i + 1) = (n + 1) + i
      OBVIOUS
    <3> QED
      BY <3>1 DEF Undialled
  <2> QED
    BY <1>2, <2>1, <2>2, <2>3, <2>4, <2>5, <2>6 DEF Undialled
<1>3. CASE g.at \in Reads /\ script = <<>>
  <2>1. script' = <<>> /\ dialled' = "silence"
    BY <1>3 DEF Dials
  <2>2. \A i \in Nat \ {0} : Heard(<<>>, i) = "silence"
    BY DEF Heard
  <2>3. \A i \in Nat \ {0} : Heard(q, n + i) = "silence"
    BY <1>3, <2>2 DEF Undialled
  <2>4. \A i \in Nat \ {0} : i + 1 \in Nat \ {0} /\ (n + 1) + i = n + (i + 1)
    OBVIOUS
  <2>5. \A i \in Nat \ {0} : Heard(q, (n + 1) + i) = "silence"
    BY <2>3, <2>4
  <2>6. Undialled(q, n + 1)'
    BY <2>1, <2>2, <2>5 DEF Undialled
  <2>7. Heard(q, n + 1) = "silence"
    BY <2>3
  <2> QED
    BY <1>3, <2>1, <2>6, <2>7
<1> QED
  BY <1>1, <1>2, <1>3

(* The thread goes on as its scenario is scripted.                         *)
LEMMA PlaysOnScript ==
  ASSUME NEW s, s.mode \in Modes, \A n : Heard(s.dtmf, n) \in Answers, WellJudged(s),
         flow \in Flow, Played(flow), script \in Seq(Answers), OnScript(s),
         flow.at # "end", NEW g \in After(flow, dialled), flow' = g, Dials(g)
  PROVE  OnScript(s)' /\ script' \in Seq(Answers)
<1> USE WalkBoundAssumption
<1>1. /\ AttemptLimit \in Nat \ {0} /\ s.mode \in Modes /\ \A n : Heard(s.dtmf, n) \in Answers
      /\ flow.mode = s.mode /\ flow.limit = AttemptLimit
  BY FakeAssumption DEF OnScript
<1>2. g \in Flow /\ g.mode = s.mode /\ g.limit = AttemptLimit /\ Played(g)
  BY <1>1, AfterType, AfterKeeps, AfterPlays
<1>3. script' \in Seq(Answers)
  <2>1. script # <<>> => Tail(script) \in Seq(Answers)
    BY HeadTailProperties
  <2> QED
    BY <2>1 DEF Dials
<1>4. /\ flow.at \in Locations /\ flow.tally \in Nat /\ flow.refused \in Nat
      /\ flow.outcome \in FlowOutcomes
  BY DEF Flow, Played
<1> SUFFICES OnScript(s)'
  BY <1>3
<1>5. ASSUME g.at \notin {"start", "prompt", "read", "wrong", "room", "choose"},
             g.at \in {"leaf", "code"} => "succeed" \in s.expect,
             g.at = "lost" => "exile" \in s.expect,
             g.outcome # "none" => g.outcome \in s.expect
      PROVE  OnScript(s)'
  BY <1>2, <1>5 DEF OnScript
<1>6. ASSUME NEW n \in Nat, Undialled(s.dtmf, n), s.mode # "roguelike", Only(s.dtmf, n, "wrong"),
             flow.outcome = "none", n + 1 <= AttemptLimit, g = Attempt(flow, n + 1)
      PROVE  OnScript(s)'
  <2>1. g.at = "read" /\ g.tally = n + 1 /\ g.outcome = "none"
    BY <1>1, <1>6 DEF Attempt, Flow
  <2>2. dialled' = Heard(s.dtmf, n + 1) /\ Undialled(s.dtmf, n + 1)'
    BY <1>6, <2>1, DialsNext DEF Reads
  <2>3. Only(s.dtmf, g.tally - 1, "wrong")
    <3>1. g.tally - 1 = n
      BY <2>1
    <3> QED
      BY <1>6, <3>1
  <2> QED
    BY <1>2, <2>1, <2>2, <2>3 DEF OnScript
<1>7. CASE flow.at = "start"
  <2>1. flow.tally = 0 /\ flow.outcome = "none" /\ Undialled(s.dtmf, 0) /\ g = Opening(flow)
        /\ Only(s.dtmf, 0, "wrong") /\ Only(s.dtmf, 0, "right")
    BY <1>7 DEF Played, Decided, OnScript, After, Only
  <2>2. CASE s.mode = "tweeted"
    BY <1>1, <1>6, <2>1, <2>2 DEF Opening
  <2>3. CASE s.mode \in {"puzzle", "roguelike"}
    <3>1. /\ g.at = (IF s.mode = "puzzle" THEN "prompt" ELSE "room") /\ g.tally = 0
          /\ g.outcome = "none"
      BY <1>1, <2>1, <2>3 DEF Opening, Flow
    <3>2. Undialled(s.dtmf, 0)'
      BY <2>1, <3>1, DialsNext DEF Reads
    <3> QED
      BY <1>2, <2>1, <2>3, <3>1, <3>2 DEF OnScript
  <2> QED
    BY <1>1, <2>2, <2>3 DEF Modes
<1>8. CASE flow.at = "prompt"
  <2>1. flow.outcome = "none" /\ Undialled(s.dtmf, 0) /\ g = Attempt(flow, 1) /\ Only(s.dtmf, 0, "wrong")
        /\ s.mode # "roguelike"
    BY <1>1, <1>8 DEF Played, Decided, CodeEntry, OnScript, After, Only
  <2> QED
    BY <1>1, <1>6, <2>1
<1>9. CASE flow.at = "wrong"
  <2>1. /\ flow.outcome = "none" /\ Undialled(s.dtmf, flow.tally) /\ g = Attempt(flow, flow.tally + 1)
        /\ Only(s.dtmf, flow.tally, "wrong") /\ s.mode # "roguelike" /\ flow.tally < AttemptLimit
    BY <1>1, <1>9 DEF Played, Decided, CodeEntry, OnScript, After
  <2> QED
    BY <1>1, <1>4, <1>6, <2>1
<1>10. CASE flow.at = "read"
  <2> DEFINE k == flow.tally
  <2>1. /\ flow.outcome = "none" /\ Undialled(s.dtmf, k) /\ g = Judge(flow, dialled)
        /\ Only(s.dtmf, k - 1, "wrong") /\ s.mode # "roguelike" /\ k \in 1..AttemptLimit
        /\ dialled = Heard(s.dtmf, k) /\ dialled \in Answers
    BY <1>1, <1>10 DEF Played, Decided, CodeEntry, OnScript, After
  <2>2. /\ dialled = "right" => "succeed" \in s.expect
        /\ dialled = "silence" => "hangup" \in s.expect
        /\ dialled = "wrong" /\ k = AttemptLimit => "exile" \in s.expect
    BY <2>1 DEF WellJudged, CodeEntryJudged
  <2>3. CASE dialled = "silence"
    <3>1. g.at = "bye" /\ g.outcome = "hangup"
      BY <2>1, <2>3 DEF Judge, CallerLeft, Flow
    <3> QED
      BY <1>5, <2>2, <2>3, <3>1
  <2>4. CASE dialled = "right"
    <3>1. g.at = "setvar" /\ g.outcome = "succeed"
      BY <2>1, <2>4 DEF Judge, Verdict, Flow
    <3> QED
      BY <1>5, <2>2, <2>4, <3>1
  <2>5. CASE dialled = "wrong" /\ k = AttemptLimit
    <3>1. g.at = "exile" /\ g.outcome = "exile"
      <4>1. flow.limit \in Int /\ flow.tally >= flow.limit
        BY <1>1, <2>5
      <4>2. Verdict(dialled, flow.tally, flow.limit) = "exile"
        BY <2>5, <4>1 DEF Verdict
      <4> QED
        BY <2>1, <2>5, <4>2 DEF Judge, Flow
    <3> QED
      BY <1>5, <2>2, <2>5, <3>1
  <2>6. CASE dialled = "wrong" /\ k # AttemptLimit
    <3>1. g.at = "wrong" /\ g.outcome = "none" /\ g.tally = k
      BY <1>1, <2>1, <2>6 DEF Judge, Verdict, Flow
    <3>2. Undialled(s.dtmf, k)'
      BY <1>4, <2>1, <3>1, DialsNext DEF Reads
    <3>3. Only(s.dtmf, k, "wrong")
      <4>1. \A j \in 1..k : j \in 1..(k - 1) \/ j = k
        BY <1>1, <2>1
      <4> QED
        BY <2>1, <2>6, <4>1 DEF Only
    <3> QED
      BY <1>2, <3>1, <3>2, <3>3 DEF OnScript
  <2> QED
    BY <2>1, <2>3, <2>4, <2>5, <2>6 DEF Answers
<1>11. CASE flow.at = "room"
  <2> DEFINE k == flow.tally
  <2>1. /\ flow.outcome = "none" /\ Undialled(s.dtmf, k) /\ Only(s.dtmf, k, "right") /\ s.mode = "roguelike"
        /\ k <= WalkBound /\ g = [flow EXCEPT !.at = IF k >= WalkBound THEN "lost" ELSE "choose"]
    BY <1>1, <1>11 DEF Played, Decided, InMaze, OnScript, After, Narrated
  <2>2. CASE k >= WalkBound
    <3>1. k = WalkBound /\ g.at = "lost" /\ g.outcome = "none"
      BY <1>4, <2>1, <2>2 DEF Flow
    <3>2. "exile" \in s.expect
      BY <2>1, <3>1 DEF WellJudged, MazeJudged
    <3> QED
      BY <1>5, <3>1, <3>2
  <2>3. CASE ~(k >= WalkBound)
    <3>1. g.at = "choose" /\ g.outcome = "none" /\ g.tally = k
      BY <2>1, <2>3 DEF Flow
    <3>2. dialled' = Heard(s.dtmf, k + 1) /\ Undialled(s.dtmf, k + 1)'
      BY <1>4, <2>1, <3>1, DialsNext DEF Reads
    <3> QED
      BY <1>2, <2>1, <3>1, <3>2 DEF OnScript
  <2> QED
    BY <2>2, <2>3
<1>12. CASE flow.at = "choose"
  <2> DEFINE k == flow.tally
  <2>1. /\ flow.outcome = "none" /\ Undialled(s.dtmf, k + 1) /\ Only(s.dtmf, k, "right")
        /\ dialled = Heard(s.dtmf, k + 1) /\ s.mode = "roguelike" /\ k < WalkBound
        /\ g \in Choose(flow, dialled)
    BY <1>1, <1>12 DEF Played, Decided, CodeEntry, InMaze, OnScript, After
  <2>2. k + 1 \in 1..WalkBound /\ (k + 1) - 1 = k
    BY <1>4, <2>1
  <2>3. /\ dialled \in {"right", "silence"}
        /\ dialled = "right" => "succeed" \in s.expect
        /\ dialled = "silence" => "hangup" \in s.expect
    BY <2>1, <2>2 DEF WellJudged, MazeJudged
  <2>4. CASE dialled = "right"
    <3>1. PICK place \in {"room", "leaf"} :
            g = [flow EXCEPT !.at = place, !.tally = k + 1, !.refused = 0]
      BY <2>1, <2>4 DEF Choose, Arrive
    <3>2. g.at = place /\ g.tally = k + 1 /\ g.outcome = "none"
      BY <2>1, <3>1 DEF Flow
    <3>3. Undialled(s.dtmf, g.tally)'
      <4>1. g.tally = k + 1 /\ k + 1 \in Nat /\ g.at \notin Reads
        BY <1>4, <3>1, <3>2 DEF Reads
      <4> QED
        BY <2>1, <4>1, DialsNext
    <3>4. Only(s.dtmf, k + 1, "right")
      BY <1>4, <2>1, <2>4 DEF Only
    <3> QED
      BY <1>2, <2>3, <2>4, <3>1, <3>2, <3>3, <3>4 DEF OnScript
  <2>5. CASE dialled = "silence"
    <3>1. g.at = "bye" /\ g.outcome = "hangup"
      BY <2>1, <2>5 DEF Choose, CallerLeft, Flow
    <3> QED
      BY <1>5, <2>3, <2>5, <3>1
  <2> QED
    BY <2>3, <2>4, <2>5
<1>13. CASE flow.at \in {"leaf", "code", "lost"}
  <2>1. g.outcome \in {flow.outcome, IF flow.at = "lost" THEN "exile" ELSE "succeed"}
        /\ g.at \in {"code", "setvar", "bye"}
    BY <1>13 DEF After, Flow
  <2>2. flow.outcome = "none" /\ (g.at = "code" => flow.at # "lost")
    BY <1>13 DEF Played, Decided, After, Flow
  <2> QED
    BY <1>5, <1>13, <2>1, <2>2 DEF OnScript
<1>14. CASE flow.at \in {"exile", "setvar", "continue", "bye"}
  <2>1. g = [flow EXCEPT !.at = CASE flow.at = "exile" -> "bye" [] flow.at = "setvar" -> "continue"
                                  [] OTHER -> "end"]
    BY <1>14 DEF After
  <2>2. g.outcome = flow.outcome /\ g.at \in {"bye", "continue", "end"}
    BY <1>14, <2>1 DEF Flow
  <2> QED
    BY <1>5, <2>2 DEF OnScript
<1> QED
  BY <1>4, <1>7, <1>8, <1>9, <1>10, <1>11, <1>12, <1>13, <1>14 DEF Locations

(* The engine's steps: the call ends as its scenario is scripted.          *)
LEMMA EngineKeepsScript ==
  ASSUME AllWellJudged, Inductive, Judged, Engine
  PROVE  Judged'
<1> USE DEF Inductive
<1>1. UNCHANGED <<main, turn, config, report>>
  BY DEF Engine, PicksUp, SnapshotFails, Plays, Raises, Ends, Persists, harness
<1>2. ASSUME call \in {"ringing", "playing", "over"}
      PROVE  /\ config \in 1..Len(Scenarios) /\ WellJudged(Scenarios[config])
             /\ main # "resting"
  BY <1>2 DEF Typed, HarnessWaits, AllWellJudged, Idle
<1>3. CASE PicksUp
  <2>1. /\ call = "ringing" /\ call' = "playing" /\ UNCHANGED <<script, dialled, ending, row>>
        /\ flow' = NewFlow(Scenarios[config].mode, AttemptLimit)
    BY <1>3 DEF PicksUp
  <2>2. Undialled(Scenarios[config].dtmf, 0)'
    BY <1>1, <2>1 DEF Judged, Undialled
  <2>3. OnScript(Scenarios[config])'
    BY <1>1, <2>1, <2>2 DEF OnScript, NewFlow
  <2> QED
    BY <1>1, <2>1, <2>3 DEF Judged
<1>4. CASE Plays
  <2>1. PICK g \in After(flow, dialled) : flow' = g /\ Dials(g)
    BY <1>4 DEF Plays
  <2>2. call = "playing" /\ flow.at # "end" /\ UNCHANGED <<call, ending, row>>
    BY <1>4 DEF Plays
  <2>3. OnScript(Scenarios[config])' /\ script' \in Seq(Answers)
    <3> DEFINE s == Scenarios[config]
    <3>1. s.mode \in Modes /\ (\A n : Heard(s.dtmf, n) \in Answers) /\ WellJudged(s)
      BY <1>2, <2>2, ScenarioHas
    <3>2. flow \in Flow /\ Played(flow) /\ script \in Seq(Answers) /\ OnScript(s)
      BY <2>2 DEF Typed, CallEnds, Judged
    <3>3. s' = s
      BY <1>1
    <3> HIDE DEF s
    <3>4. OnScript(s)' /\ script' \in Seq(Answers)
      BY <2>1, <2>2, <3>1, <3>2, <3>3, PlaysOnScript
    <3> QED
      BY <3>4 DEF s
  <2> QED
    BY <1>1, <2>2, <2>3 DEF Judged
<1>5. CASE Raises \/ Ends
  <2>1. /\ call = "playing" /\ call' = "over" /\ UNCHANGED <<script, row>>
        /\ \/ ending' = "dropped"
           \/ flow.at = "end" /\ ending' = flow.outcome
    BY <1>5 DEF Raises, Ends
  <2>2. flow.at = "end" => flow.outcome # "none" /\ flow.outcome \in Scenarios[config].expect
    BY <2>1 DEF CallEnds, Played, Decided, Judged, OnScript
  <2> QED
    BY <1>1, <2>1, <2>2 DEF Judged
<1>6. CASE Persists
  <2>1. /\ call = "over" /\ UNCHANGED <<script, ending>>
        /\ \/ call' = "recorded" /\ row' = ending
           \/ call' = "unrecorded" /\ UNCHANGED row
    BY <1>6 DEF Persists
  <2> QED
    BY <1>1, <1>2, <2>1 DEF Judged
<1>7. CASE SnapshotFails
  <2>1. call = "ringing" /\ call' = "unrecorded" /\ UNCHANGED <<script, row>>
    BY <1>7 DEF SnapshotFails
  <2> QED
    BY <1>1, <1>2, <2>1 DEF Judged
<1> QED
  BY <1>3, <1>4, <1>5, <1>6, <1>7 DEF Engine

LEMMA StepsKeepScript ==
  ASSUME AllWellJudged, Inductive, Judged, [Next]_vars
  PROVE  Judged'
<1> USE DEF Inductive
<1>1. ASSUME UNCHANGED <<script, engine, config>>,
             main' \in Awaits => config = turn',
             report' = "unexpected" /\ main' = "resting" => row = "dropped"
      PROVE  Judged'
  BY <1>1 DEF Judged, OnScript, Undialled, engine
<1>2. CASE UNCHANGED vars \/ \E l \in Listeners : Subscribes(l) \/ Unsubscribes(l)
  <2>1. UNCHANGED <<harness, script, engine>>
    BY <1>2 DEF vars, Subscribes, Unsubscribes
  <2> QED
    BY <1>1, <2>1 DEF harness, Judged
<1>3. CASE Places
  <2>1. /\ main = "placing" /\ main' = "waiting" /\ config' = turn /\ UNCHANGED <<turn, report>>
        /\ script' = Scenarios[turn].dtmf
    BY <1>3 DEF Places, Script
  <2>2. call' = "ringing" /\ row' = "none"
    BY <1>3, <2>1 DEF Places, HarnessWaits, Idle, Accepts
  <2>3. Scenarios[turn].dtmf \in Seq(Answers)
    BY ScenarioHas DEF Typed
  <2> QED
    BY <2>1, <2>2, <2>3 DEF Judged
<1>4. CASE LooksUp
  <2>1. /\ main = "looking" /\ UNCHANGED <<script, engine, config, turn>>
        /\ report' = "unexpected" => row # "none" /\ row \notin Scenarios[turn].expect
    BY <1>4 DEF LooksUp
  <2>2. config = turn
    BY <2>1 DEF Judged, Awaits
  <2>3. row # "none" => row \in Scenarios[turn].expect \cup {"dropped"}
    BY <2>2 DEF Judged, CallEnds
  <2> QED
    BY <1>1, <2>1, <2>2, <2>3
<1>5. CASE PlaceFails \/ LookupFails \/ Unwinds \/ Drains \/ Rests \/ Wakes \/ Quiets \/ CtrlC
  <2>1. /\ UNCHANGED <<script, engine, config, report>>
        /\ \/ main' \notin Awaits
           \/ main' \in Awaits \ {"resting"} /\ main \in Awaits /\ UNCHANGED turn
           \/ UNCHANGED <<main, turn>>
    BY <1>5 DEF PlaceFails, LookupFails, Unwinds, Drains, Rests, Wakes, Quiets, CtrlC, Awaits
  <2> QED
    BY <1>1, <2>1 DEF Judged, Awaits
<1>6. CASE Engine
  BY <1>6, EngineKeepsScript
<1> QED
  BY <1>2, <1>3, <1>4, <1>5, <1>6 DEF Next, Harness

(* FakePBXHarness: a call ends as its scenario expects, by the rules of    *)
(* its game and whatever the caller before left undialled, unless the      *)
(* engine drops it; it is never refused, and its record is missing only if *)
(* its snapshot failed or the store did not take it.  It says so of any    *)
(* scenarios whose expectations are what those rules make of their scripts.*)
THEOREM ScenariosRunTrue ==
  ASSUME AllWellJudged
  PROVE  Spec => []AsScripted
<1>1. Init => Judged
  <2>1. <<>> \in Seq(Answers)
    OBVIOUS
  <2> QED
    BY <2>1 DEF Init, Judged, Awaits
<1>2. Inductive /\ Judged /\ [Next]_vars => Judged'
  BY StepsKeepScript
<1>3. Inductive /\ Judged => AsScripted
  BY DEF Inductive, HarnessWaits, Judged, AsScripted
<1> QED
  BY Invariance, <1>1, <1>2, <1>3, PTL DEF Spec

(* The scenarios of the file are such, under the attempt limit the game    *)
(* has and a maze that is walked at all.                                   *)
LEMMA FileWellJudged ==
  ASSUME Scenarios = DefaultScenarios, AttemptLimit = 3, WalkBound > 0
  PROVE  AllWellJudged
<1> USE WalkBoundAssumption
<1>1. Len(DefaultScenarios) = 9
  BY DEF DefaultScenarios
<1>2. ASSUME NEW i \in 1..7 PROVE CodeEntryJudged(Scenarios[i])
  <2>1. \A k \in 1..AttemptLimit : k \in {1, 2, 3}
    OBVIOUS
  <2>2. i \in {1, 2, 3, 4, 5, 6, 7}
    BY <1>2
  <2> QED
    BY <2>1, <2>2 DEF CodeEntryJudged, Only, Heard, DefaultScenarios, Scenario
<1>3. MazeJudged(Scenarios[9])
  <2>1. \A k \in 1..WalkBound : ~Only(<<>>, k - 1, "right") \/ k = 1
    BY DEF Only, Heard
  <2>2. ~Only(<<>>, WalkBound, "right")
    BY DEF Only, Heard
  <2>3. Scenarios[9].dtmf = <<>> /\ Scenarios[9].expect = {"hangup"}
    BY DEF DefaultScenarios, Scenario
  <2> QED
    BY <2>1, <2>2, <2>3 DEF MazeJudged, Heard
<1>4. MazeJudged(Scenarios[8])
  <2> DEFINE q == [i \in 1..2 * WalkBound |-> "right"]
  <2>1. Scenarios[8].dtmf = q /\ Scenarios[8].expect = {"succeed", "exile"}
    BY DEF DefaultScenarios, Scenario
  <2>2. \A k \in 1..WalkBound : Heard(q, k) = "right"
    BY DEF Heard
  <2> HIDE DEF q
  <2> QED
    BY <2>1, <2>2 DEF MazeJudged
<1>5. ASSUME NEW i \in 1..9
      PROVE  WellJudged(Scenarios[i])
  <2>1. /\ i \in 1..7 => Scenarios[i].mode # "roguelike"
        /\ Scenarios[8].mode = "roguelike" /\ Scenarios[9].mode = "roguelike"
    BY DEF DefaultScenarios, Scenario
  <2>2. i \in 1..7 \/ i = 8 \/ i = 9
    BY <1>5
  <2> QED
    BY <1>2, <1>3, <1>4, <2>1, <2>2 DEF WellJudged
<1> QED
  BY <1>1, <1>5 DEF AllWellJudged

(* fake_pbx.py: the scenarios of the file pass, every cycle of them.       *)
THEOREM TheFilePasses ==
  ASSUME Scenarios = DefaultScenarios, AttemptLimit = 3, WalkBound > 0
  PROVE  Spec => []AsScripted
<1> QED
  BY FileWellJudged, ScenariosRunTrue
=============================================================================
