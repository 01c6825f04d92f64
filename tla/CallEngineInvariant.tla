------------------------- MODULE CallEngineInvariant -------------------------
(***************************************************************************)
(* The inductive invariants behind CallEngine's safety properties: none of *)
(* them is inductive alone.  What they rest on is spread over the reader,  *)
(* the call task, the worker thread and the loop's queue, and is named     *)
(* here part by part: Inductive, for OneCaller, ThreadJoined, HistoryAgrees*)
(* and Settled, and for NobodyWaitsInVain and ShownIsLeaving, which are    *)
(* inductive with it; on top of it OnCourse, for WinIsBridged,             *)
(* BridgedIsWin, LoggedOnce, CountsWithinRules, Attended and CallsAdvance. *)
(***************************************************************************)
EXTENDS CallEngine, Functions

(* What the Operator is shown follows the call task, await by await.       *)
StateFollowsTask ==
  \A c \in Calls :
    /\ task[c] = "none" => session[c].state = "none"
    /\ task[c] \in {"snapshot", "answer"} => session[c].state = "answering"
    /\ task[c] = "mode" => session[c].state = "in_mode"
    /\ task[c] \in {"hangup", "persist", "done"} => Over(c)
    /\ task[c] \in {"answer", "mode", "persist"} => session[c].mode # "none"

(* A channel enters Stasis once, and is picked up off its one StasisStart. *)
IsStart(e)     == e.type = "StasisStart"
StartsOnce(w)  == \A i, j \in DOMAIN w : IsStart(w[i]) /\ w[j] = w[i] => i = j

PickedUpOnce ==
  /\ StartsOnce(wire)
  /\ \A e \in Range(wire) : IsStart(e) => task[e.call] = "none" /\ chan[e.call] # "unborn"
  /\ \A c \in Calls : chan[c] = "unborn" => task[c] = "none"

(* What a thread hands to the loop stands in the order it was handed over: *)
(* progress, then the command or the result the thread has stopped for.    *)
ProgressFirst(q) ==
  \A i, j \in DOMAIN q : i < j /\ q[i].call = q[j].call => q[i].kind = "progress"

Waiting == {"queued", "returned", "raised"}

ThreadOnLoop ==
  /\ ProgressFirst(ready)
  /\ \A cb \in Range(ready) :
       /\ task[cb.call] = "mode"
       /\ io[cb.call] \in Waiting
       /\ cb.kind = "command" => io[cb.call] = "queued"
       /\ cb.kind = "result"  => io[cb.call] # "queued"

ThreadInMode ==
  \A c \in Calls : io[c] \notin {"idle", "ok", "failed"} => task[c] = "mode"

(* Only a call that is done with lingers.                                  *)
LingersWhenDone == \A c \in glow : task[c] = "done"

(* An ending that was torn down has an outcome to write.                   *)
EndingToWrite == \A c \in Calls : task[c] = "hangup" => session[c].outcome # "none"

(* All of it, as the steps of the engine preserve it.                      *)
Inductive ==
  /\ TypeOK
  /\ StateFollowsTask
  /\ PickedUpOnce
  /\ ThreadOnLoop
  /\ ThreadInMode
  /\ LingersWhenDone
  /\ EndingToWrite
  /\ OneCaller
  /\ HistoryAgrees

-----------------------------------------------------------------------------
(* The second layer, call by call: that what the call has come to - on the *)
(* line, in the log, on the Console - is what its thread has played.       *)

(* The game is the Config Snapshot's, and by its rules until it raises.    *)
PlaysOn(c) ==
  /\ task[c] \in {"none", "snapshot"} => flow[c].outcome = "none" /\ session[c].mode = "none"
  /\ task[c] = "answer" => flow[c].at = "start"
  /\ task[c] \in {"answer", "mode"} /\ io[c] # "raised" => Played(flow[c])
  /\ session[c].mode # "none" =>
       /\ flow[c].mode = session[c].mode
       /\ [mode |-> flow[c].mode, limit |-> flow[c].limit] \in Configs

(* What the call has outstanding is the command its thread stands at.      *)
StandsThere(c) ==
  /\ io[c] = "returned" => flow[c].at = "end"
  /\ task[c] = "mode" /\ flow[c].at = "end" => io[c] \in {"returned", "raised"}
  /\ io[c] \in {"reading", "deaf"} \cup Answers => flow[c].at \in Reads
  /\ \A cb \in Range(ready) : cb.call = c /\ cb.kind = "command" => cb.at = flow[c].at

(* Progress counts what was played, and so does what is left of it.        *)
Told(f, at, tally) ==
  /\ at = "read" => f.mode # "roguelike" /\ tally \in 1..f.limit
  /\ at \notin {"prompt", "read"} => f.mode = "roguelike" /\ tally \in 0..WalkBound

ToldTruly(c) ==
  /\ \A cb \in Range(ready) :
       cb.call = c /\ cb.kind = "progress" => Told(flow[c], cb.at, cb.tally)
  /\ session[c].depth >= 0 => session[c].mode = "roguelike" /\ session[c].depth <= WalkBound
  /\ session[c].attempt > 0 =>
       session[c].mode \notin {"none", "roguelike"} /\ session[c].attempt <= flow[c].limit

(* core/config.py rules out neither of these; flow.py's counts need them.  *)
LimitsAtLeast(n) == \A cfg \in Configs : cfg.limit >= n

Counted(c) ==
  LET limit == IF session[c].mode = "roguelike" THEN WalkBound ELSE flow[c].limit
  IN  LimitsAtLeast(0) /\ Over(c) /\ session[c].mode # "none" =>
        /\ session[c].attempts \in 0..limit
        /\ session[c].outcome = "exile" => session[c].attempts = limit
        /\ session[c].outcome = "succeed" /\ session[c].mode # "roguelike"
             => session[c].attempts > 0

(* The log has the line of a game that is decided, the session its ending. *)
EndsAsPlayed(c) ==
  /\ jsonl[c] = IF flow[c].outcome \in {"succeed", "exile"} THEN <<flow[c].outcome>> ELSE <<>>
  /\ session[c].state = "handed_off" => flow[c].outcome = "succeed"
  /\ session[c].state = "exiled" => flow[c].outcome = "exile"
  /\ session[c].state \in {"handed_off", "exiled"} => session[c].outcome = flow[c].outcome

(* A winner has been bridged before the thread says so ...                 *)
Bridged(c) ==
  /\ task[c] = "mode" /\ io[c] = "ok" /\ flow[c].at = "continue" => chan[c] = "dialplan"
  /\ io[c] = "returned" /\ flow[c].outcome = "succeed" => chan[c] = "dialplan"
  /\ session[c].state = "handed_off" => chan[c] = "dialplan"

(* ... and, ARI failures aside, nobody else is.                            *)
OnlyWinners(c) ==
  "rest" \notin Perils /\ chan[c] = "dialplan" =>
    \/ session[c].state = "handed_off"
    \/ /\ task[c] = "mode" /\ flow[c].outcome = "succeed"
       /\ io[c] = "returned" \/ (io[c] = "ok" /\ flow[c].at = "continue")

(* Who has been hung up on, or bridged, is not in Stasis; where the config *)
(* allows an attempt, no game ends without either.                         *)
LetGo(c) ==
  "rest" \notin Perils /\ LimitsAtLeast(1) =>
    /\ task[c] = "mode" /\ io[c] = "ok" /\ flow[c].at = "bye" => chan[c] # "stasis"
    /\ io[c] = "returned" => chan[c] # "stasis"
    /\ task[c] \in {"hangup", "persist", "done"} => chan[c] # "stasis"

Course(c) ==
  /\ PlaysOn(c) /\ StandsThere(c) /\ ToldTruly(c) /\ Counted(c) /\ EndsAsPlayed(c)
  /\ Bridged(c) /\ OnlyWinners(c) /\ LetGo(c)

OnCourse == \A c \in Calls : Course(c)
=============================================================================
