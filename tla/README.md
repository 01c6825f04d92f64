# A verification development of the pizza phone

The pizza phone is one telephone booth, a PBX (Asterisk) and a Python process,
the *engine*. A caller lifts the handset; the engine answers, plays one of three
games with them by touch tones, and sends winners through to the Upstairs Phone.
An Operator watches over a browser, the Console. This directory holds TLA+
modules for the parts of that system whose correctness depends on the order in
which things happen, TLC configurations that check them on small instances, and
TLAPS proofs of what matters most for every instance.

## 1. Inventory

"Hard" names the behaviours a unit test reaches badly. `PROJECT.json` lists each
with its line (`hazards`) and the properties that guard it.

| Component | State | Operations | Interacts by | Hard | Correct when |
|---|---|---|---|---|---|
| Call Engine `engine/call_engine.py` | `active_session`, `_call_task`, `_afterglow_task` | `_on_stasis_start`, `_on_channel_gone`, `_handle_call`, `_persist`, `_afterglow`, `_clear`, `aclose` | handlers called by the ARI reader; one task per call; one worker thread per call; listeners of the Console | a call is over before its task is; afterglow against next pickup; failure at every await; shutdown | one live call; every call ends, once, and is recorded as it ended; the channel is let go |
| Call Session `engine/call_session.py` | state, mode, `caller_gone`, progress, outcome, attempts, detail | `enter_mode`, `begin_attempt`, `enter_node`, `select_puzzle`, `record_digit`, `complete`, `abandon`, `to_record` | written on the loop only | an ending synthesised from progress that may be stale | the ending, its counts and its record agree with the game |
| Call Observer `engine/call_observer.py`, `core/observer.py` | none | three notifications | worker thread to loop, `call_soon_threadsafe` | lands when another call holds the slot | never writes to another caller, or to a call that is over |
| Game flow `core/flow.py`, `core/router.py`, `core/mode_*.py` | attempt number; walk | `run_tweeted`, `run_puzzle`, `run_roguelike` | blocking CallIO commands from the worker thread | any command may raise; limits of zero; commands after the log line | counts within the rules; logged once if played |
| ARI CallIO `engine/ari_call_io.py` | none | `play`, `read_dtmf`, `speak`, `hangup`, `to_success` | `run_coroutine_threadsafe` | `to_success` is two requests | a win is a bridged caller |
| ARI client `engine/ari_client.py` | WebSocket, DTMF queues, playback events, handlers | REST requests, `_reader`, `_handle_message` | HTTP out, WebSocket in | answers and events are not ordered; drops and reconnects; queues recreated after the call | no event is credited to the wrong waiter; nothing grows for ever |
| Game log `core/logger.py` | `logs/*.jsonl` | `log` | worker thread | written before the outcome is carried out | one line for a played game |
| Call store `engine/call_store.py` | SQLite table `calls` | `add`, `get`, `query` | thread per statement | may refuse | one row per ended call |
| Global Config `core/config.py`, `core/code_manager.py`, `tools/rotate.py` | `config/mode.json` | `take_snapshot`, `write_config`, `update_*` | file, several processes | atomic replacement, lost updates, crash between write and rename | a reader sees a whole config; a call keeps its snapshot |
| Console server `engine/console.py`, `engine/snapshot.py` | sockets, sessions, broadcast lock, keepalive | login, attach, broadcast, keepalive, stop | engine listener; WebSocket to browsers | an await inside the lock; the first snapshot outside it; slow browsers | every browser converges on the present state |
| Telemetry link `web/src/link.ts`, `backoff.ts`, `api.ts` | socket, generation, timers, `LinkState` | `start`, `stop`, `wake`, socket callbacks, timers, session probe | WebSocket, `fetch` | late events of a replaced socket, silence, wake against retry | one socket at a time; never shows a memory as the present; always has a next attempt |
| Roguelike maze `core/mode_roguelike.py`, headless simulator `core/headless.py` | a tree of rooms; a walk | `make_tree`, `handle`; two simulated walkers | called by the worker thread | doors redrawn until fresh; the bound tested only after a narration | the recorded walk is the one walked; nothing goes on for ever |
| Fake PBX `engine/fake_pbx.py`, `engine/fake_audio.py` | `_dtmf`, `_placed`, `_audio_sinks`, `live_channel`, the stream | the harness and its scenarios; the fake's commands; start, stop, subscribe | delivers events to the real engine, awaits `wait_for_idle` | Ctrl-C at any await; a listener that attaches mid-call; a stop that swallows a cancellation | each scenario judged by its own call; one stream; nothing left running |
| Others | | | | | Entry point, speech, dialplan: section 7 |

How a call runs: Asterisk emits `StasisStart` on the WebSocket; the reader calls
`_on_stasis_start`, which claims the slot and spawns `_handle_call`. That task
reads the config in a thread, answers over REST, and starts the Mode in a worker
thread. The thread alternates between deciding and blocking on one CallIO
command, which runs on the loop and asks Asterisk; before each it may tell the
observer what the caller is doing. When the handler returns or raises, the task
completes or abandons the session, hangs up if it raised, persists, and leaves
the session on view for the afterglow. A caller who hangs up is heard of twice,
in no fixed order: as an event, and as the 404 of the next command.

## 2. Plan

| # | Module | Of | Status |
|---|---|---|---|
| 1 | `GameFlow` | the three games as one thread of blocking commands | done |
| 2 | `CallEngine` EXTENDS `GameFlow` | engine, session, observer, CallIO, shutdown; Asterisk and callers as environment | done |
| 3 | `Booth`, `CallEngineBooth` | what the engine promises, and the refinement | done: checked with its liveness, its safety proved |
| 4 | `CallEngineInvariant`, `CallEngine_proofs`, `GameFlow_proofs` | the inductive invariants, and every safety property of the engine's runs | done |
| 5 | `CallEngineClaims` | statements of the repository that the code does not keep | done |
| 6 | `AriClient`, `AriClient_proofs` | DTMF queues, playback events against replies and timeouts, the reader's drops and backoff | done |
| 7 | `TelemetryLink`, `TelemetryLink_proofs` | the browser's socket, generations, retry, silence watch, session probe | done |
| 8 | `ConsoleServer`, `ConsoleServer_proofs` | telemetry sockets, broadcast lock, first snapshot outside it, keepalive, slow sockets, stop | done |
| 9 | `ConfigFile`, `GlobalConfig`, `ConfigRegister`, `GlobalConfig_proofs` | writers and readers of one file, failing and killed at any step; the atomic register they implement | done |
| 10 | `Maze`, `Maze_proofs` | `make_tree` and `handle` with the tree, refining `GameFlow`; the headless walkers | done |
| 11 | `FakePbx`, `FakePbx_proofs` | the fake's harness and audio around `GameFlow`, and `_run` with Ctrl-C | done |
| 12 | `Console` | `ConsoleServer` composed with `TelemetryLink` | not done: each is checked against the other's promises as its environment (section 3) |

## 3. The modules

**`GameFlow`** holds no variables: a flow is a record (mode, limit, location,
tally, refused keys, outcome) and `After(f, heard)` is the set of flows the
thread may stand at once its current command has returned. A location is the
CallIO command the thread is blocked on. What the caller keys is abstracted to
what the handlers distinguish: silence, right, wrong (in the maze: nothing, an
offered key, a Refused Key). Which room a key leads to belongs to the generated
tree, so any offered key may lead to a room or to the leaf. `Played` gathers the
rules of the three games: when a game is decided, and what its tally may then be.

**`CallEngine`** is one event loop and the processes around it. A step between
two `await`s is one action.

| Variable | In the code |
|---|---|
| `chan`, `wire`, `socket` | Asterisk: each channel, the events on the WebSocket, whether it is open |
| `reader` | the ARI reader, when it awaits the hangup of a refused channel; it reads nothing else meanwhile |
| `active`, `session` | `active_session`, the `CallSession`s |
| `task` | what `_handle_call` awaits |
| `io` | the call's outstanding request and what came back |
| `flow` | the worker thread |
| `ready` | the loop's queue of callbacks the threads scheduled: progress, commands, results |
| `glow` | afterglow timers |
| `latest`, `awaited`, `phase` | `_call_task`, the task `aclose` waits for, the shutdown |
| `jsonl`, `store` | the game log and the call history |

| Actions | In the code |
|---|---|
| `Dial`, `HangUp`, `SocketDrops` | the callers and the network (external) |
| `AcceptCall`, `RefuseCall`, `RefusalAnswered`, `ChannelGone`, `Reconnect` | the ARI reader with the engine's handlers |
| `SnapshotTaken/Fails`, `Answered`, `AnswerFails`, `ModeReturned`, `ModeRaised`, `TornDown`, `Persisted` | `_handle_call`, one per await it resumes from |
| `ThreadAdvances`, `ThreadRaises`, `ThreadBreaks` | the worker thread between two commands |
| `RunProgress`, `RunCommand`, `Keyed`, `ReadTimesOut` | what the thread scheduled, run by the loop |
| `AfterglowEnds` | `_afterglow`, `_clear` |
| `Stop`, `StopIdle`, `Drained` | `aclose`, with and without a call to wait for |

A request about a channel that has left answers 404 (`Accepts`); with the peril
`"rest"`, one about a channel that is there may fail too, before or after
Asterisk acted on it. When Asterisk acts on a request and when the engine hears
of it are separate, and what it emits travels on `wire`, so the two routes by
which a hangup arrives are unordered. `ChannelHangupRequest` and `StasisEnd`, which
the engine handles alike, are one event, the first of them; only the second drops
the channel's digits, so a read that starts after the event may find some yet or be
"deaf". The constant `Perils` says which failures
a run admits; the properties that need a peril to be absent say so themselves.

**`Booth`** is the abstract specification: a call waits, is live, is over; it
ends once and in view; the history holds it with that ending; what is over
leaves view. It has no loop, thread, socket or PBX. **`CallEngineBooth`** states
`ImplementsBooth`, with a live session as *live*, an over one as *over*,
`active_session` as what is shown and the rows as the history.

**`CallEngineInvariant`** holds the inductive invariants (section 5),
**`CallEngineClaims`** the claims of section 6, **`MCCallEngine`** the instances.

**`TelemetryLink`** is one browser's side of the telemetry socket. Its variables
are the fields of the class and of `LinkState`, with a socket named by the
generation it was opened under (0 for `null`), and `net`, the phase each socket
is really in. `Start`, `Stop` and `Wake` are the public operations; `Accepted`,
`Pushed` and `OnClose` are `onopen`, `onmessage` and `onclose`; `RetryFires` and
`SilenceFires` are the two timers, `Probed` the answer to `checkSession`.
`browserSocket` delivers an error *and* the close after it as a close: that is
`Broken` or `Refused`, then `Closed`. The environment may break, kill without
a word (`Dies`) or slowly close any socket, forget the session, leave a probe
unanswered for as long as it likes, or send what is no snapshot. A timer that is
set may fire at any time, except that the silence limit, being above twice the
engine's pulse, needs trouble to fire on a connection that is up.

**`ConsoleServer`** is the other end of it. What the engine and the config file
hold is abstracted to how often each has changed (`call`, `config`), so a
snapshot is a pair of such counts and "newer" has a meaning.

| Variable | In the code |
|---|---|
| `sockets` | `_sockets` |
| `handler`, `read` | where each `_handle_telemetry` stands, and the config its thread has read |
| `casts` | the `_broadcast` tasks, in the order they asked for `_broadcast_lock`; the first holds it |
| `pulse` | `_keep_alive`: asleep, awaiting its broadcast, ended by an exception, or cancelled |
| `closing` | the sockets of the running `_close_quietly` tasks |
| `serving`, `toClose` | how far `stop()` is, and which sockets its loop has still to close |
| `line`, `got` | each connection as it really is, and the last snapshot sent on it |

| Actions | In the code |
|---|---|
| `EngineChanges`, `ConfigWritten`, `Stalls`, `Resumes`, `Leaves` | the engine, `write_config`, the browsers |
| `Attach`, `HandlerReads`, `FirstSnapshot`, `HandlerEnds` | `_handle_telemetry`, per await |
| `BeginCast`, `CastReads`, `CastBuilds`, `Sends`, `SendFails`, `CastEnds` | `_broadcast`, `_snapshot`, `_send_to_all`, `_send_one`, per await |
| `PulseFires`, `CloseQuietly` | `_keep_alive`, `_close_quietly` |
| `StopBegins`, `StopCloses`, `StopClears`, `StopEnds` | `stop()`, with aiohttp's `cleanup` as the last |

The config is read in a thread and the live call when the loop has the result:
these are separate actions, so the two halves of a snapshot may be of different
times. The handler's first snapshot is sent outside the lock, so a broadcast may
overtake it or be overtaken. A version of the config in `Unreadable` is one
`take_snapshot` rejects with `OSError` or `ValueError`; one in `Malformed` makes
it raise anything else. `build_snapshot` and `send_json` are taken to succeed on
an open connection with room.

**`AriClient`** is the client alone, with one worker per channel that issues one
command at a time. Its environment is Asterisk and the network. The reply to a
request, the act it asks for and the event that tells of it are three steps.

| Variable | In the code |
|---|---|
| `chan`, `keyed`, `playback` | Asterisk: each channel, the digits keyed on it, each playback |
| `socket`, `wire`, `session` | the WebSocket with its buffered events, the REST session |
| `reader`, `delay`, `drops` | `_reader` and its `backoff`; how often the socket dropped |
| `listed`, `box` | `_dtmf_queues`: which channels have an entry; the latest queue of each |
| `finished` | `_playback_finished`: no entry, an event not set, an event set |
| `step`, `op`, `issued`, `left`, `ending` | where each worker's command stands; what it asks; the digits a read still wants; channels that are only to be hung up |
| `heard`, `givenUp` | history: digits the reads returned, playbacks `play` gave up on |

| Actions | In the code |
|---|---|
| `NextEvent` (`HearStart`, `HearDigit`, `HearFinished`, `HearEnd`) | `_handle_message` |
| `NoticeDrop`, `Reconnected`, `ReconnectFails` | `_reader`'s loop around `_read_ws` and its backoff |
| `Ask`, `Executed`, `Replied`, `Refused`, `RequestFails`, `Unsendable` | `_request`, at each end of the wire |
| `Replied`, `Played`, `PlayTimesOut` | `play` |
| `Read`, `ReadWakes`, `ReadTimesOut` | `read_digits` |
| `Close`, `CloseSession` | `close` |

**`GlobalConfig`** is `config/mode.json` as the file system has it. `ConfigFile`
is the data: what the file may hold, what an update merges, what a snapshot
makes of it. A file is named by the task that made it, `path` is the file
`mode.json` names, `held` what each holds (`Torn` while it is being written),
`private` those with `mkstemp`'s 0600, `temps` those with a temporary name;
`step`, `opened`, `fields`, `draft` and `snapshot` are each task's place and
locals. `Opens`, `Takes` are `read_raw` and `take_snapshot`; `Asks`, `Merges`
`code_manager._update`; `Makes`, `Writes`, `Chmods`, `Replaces`, `Raises`,
`Unlinks`, `UnlinkFails` the lines of `write_config`; `Crashes` kills a task anywhere.
**`ConfigRegister`** is what they implement: a register written and read in one
step, where an update may overwrite what came between.

**`Maze`** is `mode_roguelike.py` with its tree. `Draws`, `Redraws` and
`Furnishes` are the three parts of `make_tree`'s loop; `Narrates`, `Presses`,
`Refuses`, `Gone` and `Returns` are the turns of `handle`. `walker` says who
presses the keys: a caller, or one of the two strategies of `core/headless.py`,
which never refuse a key nor fall silent. `PlaysTheFlow` maps a walk onto
`GameFlow`, so what the engine is checked with leaves out nothing a maze does.

**`FakePbx`** is the program as `python -m engine` runs it without a PBX: the
harness, the fake's audio, and `_run` around them.

| Variable | In the code |
|---|---|
| `main`, `unwinding`, `interrupt` | what `_run` and the harness await; an exception on its way through the `finally`; the first Ctrl-C |
| `turn`, `cycle`, `placed`, `report`, `config`, `script` | the scenario and cycle; `_placed`; what `_report` said; whose config `mode.json` holds; `_dtmf` |
| `call`, `flow`, `dialled`, `ending`, `row` | the engine, as `Booth` has it, playing `GameFlow` on the script |
| `sinks`, `live`, `audio`, `running` | `_audio_sinks`, `live_channel`, `_audio`, and every stream that still runs |

`Places` to `Rests` are `run_scenario` and `run`, one action per await; `Drains`
is `aclose` and the fake's `close`; `Subscribes` and `Unsubscribes` are the
media path's. The fake fails no command; the snapshot, speech, the game log and the
store may.

## 4. The runs

| Run | Instance | Shows |
|---|---|---|
| `one_call` | one caller, every Mode, limits 0, 1, 2, Walk Bound 2, 2 Refused Keys, every peril, stop at any time | a session shown Handed Off is in the success dialplan (`WinIsBridged`); the log has one line for a played game, naming its ending (`LoggedOnce`); counts obey the rules (`CountsWithinRules`); every call ends (`CallsEnd`) and leaves the Console (`BoothReadsIdle`) |
| `two_callers` | two callers, interchangeable, tweeted with limit 1, ARI and socket failures (a store that works, so that `HistoryAgrees` asks for every row) | one live call, and in view (`OneCaller`); no thread outlives its call's Mode (`ThreadJoined`); one row each, of the ending shown (`HistoryAgrees`), which stays as it is (`Settled`) |
| `booth` | two callers, puzzle with limit 1, config, thread and store failures | `ImplementsBooth`, liveness included; with ARI reliable, a channel in the dialplan is recorded as a win (`BridgedIsWin`), a channel in Stasis is still to be heard of or is being driven, and none outlives its call there (`Attended`), and nobody is left there (`NobodyLeftHanging`) |
| `link` | one browser, 2 troubles, 3 starts, stops and wakes | what is shown undimmed came by the socket held (`NoMemoryAsNews`); no socket is left open behind the link (`NoSocketLeaks`); a running link awaits exactly one of socket, probe and retry (`OneThingAwaited`); only the forgotten are sent to log in (`LoginOnlyWhenForgotten`); a running link comes to show the present or the login page (`Recovers`), notices a dead connection (`DeadIsNoticed`) and a lost session (`ForgottenIsTold`) |
| `console` | two sockets, one engine change, two config writes of which the first leaves it unreadable, one stall, departure or stop | whoever watches an earlier state of the call has a broadcast of the present coming (`NobodyLeftBehind`); whoever is given up on is closed (`GivenUpIsClosing`); after `stop()` nothing is left (`StoppedIsGone`); a browser that stays comes to see config and call as they are (`Converges`) |
| `ari` | one channel, 3 digits, 3 commands, reads of 1 or 2 digits, one drop, close at any time | digits are heard in order, once, and none is lost while the socket is up (`DigitsInOrder`); once the end of a call has been heard nothing is left to read of it, nor comes (`SilentOnceEnded`); a finished playback releases its own play and no other, and no flag is left but of a play given up (`PlaybackFlags`); every command returns (`CommandsReturn`); the client is never left deaf (`HearsAgain`) |
| `config` | one update, one whole write, one hand edit, one snapshot; each step may fail or be the last | whatever is named or has been opened is whole and readable (`WholeFiles`); a write that raises before its rename publishes nothing and leaves nothing it could unlink (`NoLitter`); an update nobody overtook keeps every other key (`AloneKeepsRest`); the file implements the register (`ImplementsRegister`) |
| `maze` | every tree of 3 rooms, Walk Bound 4, 2 Refused Keys, every walker | the recorded walk is the one walked and ends as its last room says (`WalkIsTheirs`); each step is one of `GameFlow`'s (`PlaysTheFlow`); making and walking end (`MazeEnds`) |
| `fake_pbx` | all nine scenarios, two cycles, a recorder and a Console, Ctrl-C and errors at any await | each call is judged by its own config and script (`AsScripted`); one stream, the live call's (`OneSound`); after a stop nothing runs and the last call was recorded as it ended (`StopsClean`); a run ends (`RunEnds`) |
| `claim_*` | one each | section 6 |

*Bounds.* Two callers are enough for every interaction the slot permits: the
third would meet the same two situations, a live call or one that is over but
not done with, and the proofs cover any number. Two attempts reach the first,
a middle verdict and the last; a Walk Bound of 2 reaches a room before, at and
(in the mutant) past the bound; two Refused Keys reach both branches of the
test. Limit 0 is a legal `mode.json` and is included on purpose. A channel is
dialled once: Asterisk gives each call a new channel id. Deadlock is not checked
because the system rightly stops: when every call is done, or after shutdown. Every
run has the afterglow on, which is the harder case: without it `AnnounceEnd` clears
the slot at once. `booth` and `two_callers` also pass with it off (67,517 and 59,948
states), and the theorems cover both.

*Fairness.* Weak fairness of the reader, of reconnection, of each call's task,
thread, loop work and afterglow, and of the end of draining. asyncio runs what
is ready; threads are scheduled; aiohttp bounds a request, `play` gives up
after its timeout (`DEFAULT_PLAY_TIMEOUT_S`), `read_digits` after its
inter-digit timeout, and a sleep ends. `ReadTimesOut` is under the fairness of
`Loop`; `Keyed` is not, because a caller need never press anything. Nothing is
assumed of callers, failures or the operator.

In `link`, every loss of a connection costs one of `MaxTrouble` and every start,
stop or wake one of `MaxNudges`, which bounds the generations. Two troubles make
two sockets overlap, or a failed probe follow a failed handshake, or a session end
under a dead connection; three nudges reach start, stop, start, and a wake
overtaking a probe. The run also passes with 3 and 3 (327,498 states). Fairness: a
timer that is set fires, a handshake and a probe are answered or fail (the
browser bounds both; link.ts itself sets no limit on the probe), and the engine
speaks on an open connection, as its keepalive makes it. So a probe that hangs for
ever, after which nothing is scheduled, is assumed away in `Recovers` and
`ForgottenIsTold` and not shown harmless; `OneThingAwaited` and
`LoginOnlyWhenForgotten` assume nothing of it. That the silence limit spares a
healthy connection is assumed too: firing on one costs a trouble (`SilenceMistaken`).
No trouble is assumed
to come, and a browser that is never told a socket is dead is covered by the
silence watch alone.

In `console`, two sockets are a browser and another that may hold it up; one change
meets a broadcast at each of its steps and a first snapshot before and after; the
two writes break the config and mend it, which only the pulse can tell the
browsers. One upset at a time, because a stall, a departure and the stop interact
only with broadcasts; the safety is proved for any number. The bounds make
the run finite; with them every change is the last at some point, which is what
`Converges` needs: under endless changes no snapshot would stay current. Fairness:
the pulse fires, some broadcast advances, and some handler, close or stop
advances whenever one can. asyncio runs what is ready, threads return, sends
have a deadline (`BROADCAST_TIMEOUT_S`) and closes a timeout. One condition for
all of them together is enough, because each is finite work.

In `ari`, the depth is in one channel: three commands are a play, a read and a
departure, or a play overtaken by its own timeout and followed by another; three
digits fill a read of two and leave one for the next. Channels share only the
reader and the wire; the theorems cover any number, and two channels with one
digit and one command each were checked as well. Delays 1 to 3 reach the cap of
the backoff. Fairness: events are read, a drop is noticed, some reconnection
succeeds, and a command that can go on does; requests and plays have timeouts.
`RequestFails` and `ReconnectFails` owe nothing.

In `config`, no fairness is assumed: all four properties are safety. One task of
each kind is enough for each pair to meet; the hand edits include a file that is
no object, a mode nothing plays and a value `int()` refuses. An editor is taken
to save by a rename; losing power is excluded, as `config.py:99` excludes it;
`stat` and `chmod` are one step. The `unlink` in the `except` may fail, and is passed
over ("littered"). An interrupt after `os.replace` has returned but inside the `try`
(`config.py:116`) would make `write_config` raise although it has published: here
"done" means published, and `NoLitter` speaks of a raise before the rename.

In `maze`, three rooms have the leaf behind any of eight doors, loops back to a
room and rooms nobody can reach; the booth's tree has five, which the proofs
cover. A Walk Bound of 4 exceeds the rooms, so that a walk goes in circles before
it ends. Fairness: every value of `randint` comes up in the end, which is what
`MazeEnds` needs of `make_tree`; a narration or a read returns.

In `fake_pbx`, the maze's script of forty keys is twice the Walk Bound here as
there (20). A second Ctrl-C, and one during the shutdown, only cut the program
short and are left out. Fairness of the harness and of the engine, not of the
listeners nor of Ctrl-C.

*Mutants.* Each property has a definition beside the one it mutates (marked
"Mutant") under which its run must fail: a pickup without its slot check, an
afterglow without its identity check, a swallowed command failure, and so on.

## 5. The proofs

`CallEngine_proofs` proves, for any set of calls, any set of Config Snapshots,
any attempt limit and bounds, any perils, with or without afterglow:

| Theorem | Statement |
|---|---|
| `Invariance` | `Spec => []Inductive` |
| `TypeCorrect` | `Spec => []TypeOK` |
| `OneBooth` | `Spec => []OneCaller` |
| `NoStrayThread` | `Spec => []ThreadJoined` |
| `HistoryIsTrue` | `Spec => []HistoryAgrees` |
| `EndingsAreFinal` | `Spec => Settled` |
| `CallsKeepCourse` | `Spec => []OnCourse` |
| `WinnersAreBridged` | `Spec => []WinIsBridged` |
| `BridgedHaveWon` | `Spec => []BridgedIsWin` |
| `LogsOnce` | `Spec => []LoggedOnce` |
| `CountsAreAllowed` | `LimitsAtLeast(0)` implies `Spec => []CountsWithinRules` |
| `NoWakeupLost` | `Spec => []NobodyWaitsInVain` |
| `NothingIsStranded` | `Spec => []ShownIsLeaving` |
| `EveryoneIsAttended` | `LimitsAtLeast(1)` implies `Spec => []Attended` |
| `NoCallIsSetBack` | `Spec => CallsAdvance` |
| `EngineIsABooth` | `Spec => B!Init /\ [][B!Next]_(B!vars)`, the safety half of `ImplementsBooth` |

The two hypotheses say that no Config Snapshot has a negative, or a zero,
`attempt_limit`. `core/config.py` rules out neither, and without them the
properties fail: `range(1, limit + 1)` is empty, so the flow reports 0 attempts,
which is above a negative limit, and returns without hanging up.

The assumptions are the modules' own: `NoCall` is not a call, Config Snapshots
are `[mode, limit]` records (`core/config.py` admits no other), the Walk Bound is
a natural number and at least one Refused Key is allowed.

None of the properties is inductive. `OneCaller` needs that a `StasisStart` is
read at most once per channel (`PickedUpOnce`), since accepting a call twice
would reset a session whose thread is running; that the session's state follows
its task (`StateFollowsTask`); and that only calls that are done linger
(`LingersWhenDone`), since the afterglow clears the slot. `ThreadJoined` needs
the order of the loop's queue: a thread's progress precedes the command or
result it stopped for (`ProgressFirst` in `ThreadOnLoop`), so that when the
result is taken nothing of the thread is left; and that a thread exists only in
the Mode (`ThreadInMode`). `HistoryAgrees` needs that a torn-down call has an
ending to write (`EndingToWrite`). `Inductive` is their conjunction; the module
proves `Init => Inductive` and, one lemma per action,
`Inductive /\ [Next]_vars => Inductive'`. The lemmas at the head of the module say what a tail, an append and a dropped socket leave of the
two queues' orders. `EndingsAreFinal` follows because every write to a session
is guarded by a task state in which the call is not over.

The other properties tie a session's ending to the game that was played, and
need the second layer, `OnCourse`: a conjunction of parts about one call each.
The flow is the snapshot's and keeps the rules until its thread raises
(`PlaysOn`); the command outstanding, on the loop or at Asterisk, is the one the
thread stands at (`StandsThere`); progress on the loop and in the session counts
what was played (`ToldTruly`), so an ending made up from it is within the rules
too (`Counted`); the log line and the session's state follow the flow's outcome
(`EndsAsPlayed`); and at `continue`, `bye` and `end` the channel is where the
command should have left it (`Bridged`, `OnlyWinners`, `LetGo`). A step is about
one call; `UndisturbedStays` disposes of all others, and one lemma per action
deals with that one. What a thread's step does to the game comes from
`GameFlow_proofs`: `AfterPlays` (the theorem that `After` keeps `Played`),
`AfterKeeps` (mode and limit stay), `AfterSettles` (a decision stays) and
`AfterEnds` (where a handler can return from). TLC checked `OnCourse` on the
instances of the three engine runs before it was proved, as it did the other
invariants of this section that no run lists.

Four theorems are the safety halves of the liveness that TLC alone can check, and
with them little of it is left but the fairness; only `Attended` is also in a run,
which for the others checks the liveness they serve. For `CallsEnd`: nobody waits for
what will never come (`NoWakeupLost`: the command or result a thread has stopped
for is on the loop until it is run, a request asked is answered by the step that
leaves its state), and no step repeats a turn (`NoCallIsSetBack`). The measure
descends lexicographically, by the awaits of the task, then by `Nearer` in the
game - answers, then Refused Keys, then commands left, which is `AfterDescends` in
`GameFlow_proofs` and needs `Played` to bound each - and then by the command's
answer. It is the argument that a wedged key, which `mode_roguelike.py:201` counts
because it once held the line for good, cannot do so, whatever the bounds. For
`BoothReadsIdle`: `NothingIsStranded`, inductive with `Inductive`, because whoever
is in view at an end is announced by the task that ended it, and a timer is
started for the session it will clear. For `NobodyLeftHanging`:
`EveryoneIsAttended`, which needs beside the two layers that a channel nobody has
picked up still has its `StasisStart` on the wire (`Unheard`).

For the refinement, a step either leaves every call looking as it did
(`LooksTheSame`) or changes one (`OneLooksOther`); that a call has no ending
before it is over (`Undecided`) rides along. A pickup finds no live call by
`OneCaller`; an ending is in view by `OneCaller` and is one of `Booth`'s by
`OnCourse`; the rest is `Record`, `Fade` or invisible.

`TelemetryLink_proofs` proves, for any amount of trouble and any number of
starts, stops and wakes:

| Theorem | Statement |
|---|---|
| `LinkInvariant` | `Spec => []LinkInductive` |
| `NewsIsNew` | `Spec => []NoMemoryAsNews` |
| `NoSocketIsLeaked` | `Spec => []NoSocketLeaks` |
| `NeverStrandedNorDoubled` | `Spec => []OneThingAwaited` |
| `LoginIsDeserved` | `Spec => []LoginOnlyWhenForgotten` |

The four properties need each other and `HoldsItsOwn`: a held socket is of the
current generation, a generation without a socket never had one, a stopped link
holds and awaits nothing, silence is watched for on a socket only. From it and
`NoSocketLeaks`, a socket in use is the current one (`InUseIsCurrent`), so that
`onopen` and `onmessage` are never of the past, while a close of the past moves
only its own socket's phase (`PhaseStep`). Every other step either begins a
generation with a socket (`ConnectStep`) or retires one (`RetireStep`); and by
`OneThingAwaited` the step that schedules a retry or asks the probe finds
nothing else awaited.

`ConsoleServer_proofs` proves, for any sockets, any number of changes, config
writes and upsets, and any unreadable or malformed configs:

| Theorem | Statement |
|---|---|
| `ServerInvariant` | `Spec => []ServerInductive` |
| `NobodyIsLeftBehind` | `Spec => []NobodyLeftBehind` |
| `TheGivenUpAreClosed` | `Spec => []GivenUpIsClosing` |
| `StopIsComplete` | `Spec => []StoppedIsGone` |

`NobodyLeftBehind` is kept by the end of a broadcast only if whoever it did not
reach has another coming: that only the first of `casts` is past waiting, and
that one sending an earlier state of the call is followed by another
(`CastsInTurn`). It holds while no config so far was unreadable, which has to be
tied to what a broadcast has read: no newer than the file (`CastsInTurn`,
`HandlersRegister`). `StoppedIsGone` needs the order of `stop()`
(`StopsInOrder`) and that cancelling the pulse takes its broadcast with it
(`OnePulse`). A step of a broadcast moves the first of `casts` (`AdvanceStep`)
or removes it (`EndsStep`), a change or a pulse adds one (`AppendStep`), and
what leaves the broadcasts alone is `QuietStep`; the lemmas on sequences at the
head say what each leaves of the others.

The other proofs, each for every value of its constants:

| Theorem | Statement |
|---|---|
| `AriClient_proofs!ClientSafe` | `Spec => []ClientInductive` |
| `AriClient_proofs!DigitsSafe` | `Spec => []DigitsInOrder` |
| `AriClient_proofs!FlagsSafe` | `Spec => []PlaybackFlags` |
| `AriClient_proofs!EndedIsSilent` | `Spec => []SilentOnceEnded` |
| `GlobalConfig_proofs!ConfigSafe` | `Spec => []ConfigInductive` |
| `GlobalConfig_proofs!FilesWhole` | `Spec => []WholeFiles` |
| `GlobalConfig_proofs!FailedLeavesNothing` | `Spec => []NoLitter` |
| `GlobalConfig_proofs!AloneKeeps` | `Spec => AloneKeepsRest` |
| `GlobalConfig_proofs!RefinesRegister` | `Spec => ImplementsRegister`, the refinement in full |
| `GameFlow_proofs!AfterPlays` | `Played(f)` and `g \in After(f, heard)` imply `Played(g)` |
| `GameFlow_proofs!AfterDescends` | they imply `Nearer(g, f)` too, until the end |
| `Maze_proofs!TheWalkIsTheirs` | `Spec => []WalkIsTheirs` |
| `Maze_proofs!MazePlaysTheFlow` | `Spec => PlaysTheFlow` |
| `Maze_proofs!RedrawingCanEnd` | `Spec => []AFreshDoorIsLeft` |
| `FakePbx_proofs!OneSoundAlways` | `Spec => []OneSound` |
| `FakePbx_proofs!StopIsClean` | `Spec => []StopsClean` |
| `FakePbx_proofs!EachCallItsOwn` | a call is judged by its own scenario's config and script, whatever the scripts are |
| `FakePbx_proofs!ScenariosRunTrue` | `AllWellJudged` implies `Spec => []AsScripted` |
| `FakePbx_proofs!TheFilePasses` | with the file's scenarios, the game's attempt limit of 3 and a Walk Bound above 0, `Spec => []AsScripted` |

`AriClient`: an event on the wire is about something that has happened and that
has not been heard of (`Pending`): a digit still to come is above every digit in
the queue and heard, a playback's end is of a flag not yet set. That makes the
order of digits survive a queue dropped by `StasisEnd` and made again. Asterisk
sends nothing of a channel after its end (`Follows`), so that a digit keyed before
it has been read off the wire when the end is, unless the socket dropped: whatever
queue is made again stays empty.
`GlobalConfig`: a file that has been published is never written to again
(`FilesSound`), so whoever has opened it reads one config, and a snapshot belongs
to the moment of its open; an update's draft is the merge of what it opened
(`UpdaterSound`). `Maze`: an ending is right only if its leaf or its bound was
right one or two commands before (`Standing`); and a second door is left to draw
because there are more doors than rooms made, each of which has used one pair
(`ADoorIsLeft`). `AFreshDoorIsLeft`, `MazePlaysTheFlow` and
`AfterDescends` are to `MazeEnds` what the four above are to the engine's
liveness. `FakePbx`: which awaits of the
harness imply an idle engine (`HarnessWaits`), from which what streams is the
live call's, and that its thread plays by the rules (`CallEnds`). That a call ends
as scripted rests on what the thread has taken off the script so far (`OnScript`):
the answers left are its scenario's from there on, whatever the caller before left
undialled, and a decision is one that scenario expects. The hypothesis
`AllWellJudged` relates each scenario's expectations to its script by the rules of
its game (the first answer that is not wrong, or as many wrong ones as the limit;
in the maze the keys up to the Walk Bound), and says nothing of a run;
`FileWellJudged` proves it of the nine scenarios of the file. A scenario for which
it failed would be a mistake in the file, not in the harness.

The inductive invariants are proved and not run; nor are `NobodyWaitsInVain`,
`ShownIsLeaving`, `CallsAdvance` and `AFreshDoorIsLeft`.

Only model-checked: all liveness (`CallsEnd`, `BoothReadsIdle`,
`NobodyLeftHanging`, the liveness in `ImplementsBooth`, and that of the other
runs: `Recovers`, `DeadIsNoticed`, `ForgottenIsTold`, `Converges`,
`CommandsReturn`, `HearsAgain`, `MazeEnds`, `RunEnds`): fairness and ENABLED are
out of the prover's reach. Every invariant and every action property of the
passing runs is a theorem.

## 6. Where the code and its documents disagree

Each of these has a run that exhibits a behaviour; `PROJECT.json` quotes the lines.

| Run | Statement | What the code does |
|---|---|---|
| `claim_dropped` | a caller who hangs up is `hangup`; `dropped` is an engine failure | the 404 can be handled before the event; then the caller's own hangup is stored as `dropped` |
| `claim_stop` | shutdown lets the active call finish | a caller accepted while the previous call is being persisted is cut off |
| `claim_pulse` | a malformed `mode.json` does not take the socket down | `attempt_limit: null` raises `TypeError`, which `_snapshot` does not catch; in the pulse's broadcast it ends the pulse for good, and a quiet booth looks dead to every browser |

Others were met while modelling and have no run of their own:

- With `attempt_limit` 0 or less the flow returns without hanging up
  (`core/flow.py:203`) and nothing else does, though `call_engine.py:251` says
  the channel is torn down regardless. `booth` has a limit of 1 for that reason,
  and `EveryoneIsAttended` its hypothesis.
- A read or a digit after `StasisEnd` makes the channel's DTMF queue again
  (`ari_client.py:306`), and nothing drops that one (`:291` dropped the first):
  an entry that is never removed, though `EndedIsSilent` shows it empty.
- The slot is held until the worker thread returns, not only until the hangup is
  known (`call_observer.py:45` speaks of a new caller meanwhile): he is refused.
- An abandoned code entry loses its last attempt if the caller hangs up during
  the wrong-answer beep (`call_session.py:222`, `:212`).
- A hangup during the Exile message is logged as Exile and stored as hung up
  (`core/flow.py:196` logs before it plays).
- Two updates of the config at once lose one (`code_manager.py:57`):
  `ConfigRegister`'s `Draft` and `Publish` are two steps on purpose.
- A Ctrl-C that arrives while `SyntheticAudioStream.stop` awaits the task it has
  cancelled is suppressed with that task's `CancelledError` (`fake_audio.py:84`),
  and the run goes on, though `engine/README.md:44` has Ctrl-C stop it. In
  `FakePbx`, `interrupt = "lost"`.
- With nobody listening the fake "generates nothing" (`fake_pbx.py:256`); if the
  last listener leaves during a call, its stream goes on to the end of the call.

## 7. What is not modelled, and why

- `CallEngine` composed with `AriClient`, `GlobalConfig` and `Maze`: each is
  abstracted in the engine to what its own module shows - whether a read can
  still hear anything ("deaf"), a snapshot that is whole or fails, a key that
  leads on or to the leaf. In `AriClient`, `answer` and `set_channel_var`
  (requests nothing waits behind), messages that are no events, and the
  registration of handlers are left out. `ConsoleServer` sees only which version
  of the config is there, each whole.
- `ConsoleServer` composed with `TelemetryLink`: the link is checked against an
  engine that speaks whenever it can, which the server's pulse provides, and the
  server against browsers that stall, leave and stay.
- Console login, session expiry, pages and assets: one dictionary and files, no
  await between a check and its use. `ConsoleServer` starts after the session
  check; `TelemetryLink` models a session the engine has forgotten. `start()` is
  the initial state; a server is not started again.
- The riddle of a silent puzzle caller, missing from the row that
  `core/flow.py:176` makes and present in the one `abandon` makes: listed as a
  hazard.
- How long the link waits (`backoff.ts`: doubling, cap, jitter) and `attempt`
  beyond its resets: no property depends on the length of a wait. Logging in is a
  new page, and so a new link (`login.tsx` assigns the location); a sign-in from
  another tab, which would make the session of this one good again, is left out, so
  `signedIn` never turns true.
- The Console's change listeners: they carry no payload and change no engine
  state; the live digits (`record_digit`) feed only the display.
- Durations, timestamps, caller id, paths of the walk: no decision reads them.
- Text, audio and the speech backends: only that synthesis may raise.
- SQLite's encoding and queries: only that `add` succeeds or raises.
- In the fake PBX, `fire_channel_gone` (only tests call it), the workspace's
  directories, the pauses and the waveform; in the headless simulator, the texts
  it collects.
- Entry point wiring, web rendering, deployment scripts: set-up and
  presentation. SIGTERM does not reach the shutdown path modelled by `Stop`; see
  the hazards.
