------------------------------ MODULE GameFlow ------------------------------
(***************************************************************************)
(* core/flow.py with the Mode handlers it calls (core/router.py,           *)
(* core/mode_tweeted.py, core/mode_puzzle.py, core/mode_roguelike.py): the *)
(* synchronous game a worker thread plays with one caller.                 *)
(*                                                                         *)
(* The thread alternates between issuing one blocking CallIO command and   *)
(* running, without blocking, to the next one.  A flow is a record of      *)
(* where the thread stands; After(f, heard) is the set of flows it may     *)
(* stand at next once the command at f.at has returned.                    *)
(*                                                                         *)
(* What a caller keys in is abstracted to how the code tells answers       *)
(* apart: nothing at all, the Code (in the maze: a key the room offers),   *)
(* or anything else (in the maze: a Refused Key).                          *)
(***************************************************************************)
EXTENDS Integers

CONSTANTS WalkBound,        (* mode_roguelike.handle: max_depth               *)
          RefusedKeysBeforeGone  (* mode_roguelike.REFUSED_KEYS_BEFORE_GONE   *)

ASSUME WalkBoundAssumption == WalkBound \in Nat
ASSUME RefusedKeysAssumption == RefusedKeysBeforeGone \in Nat \ {0}

Modes   == {"tweeted", "puzzle", "roguelike"}
Answers == {"silence", "right", "wrong"}

(* The commands the thread can be blocked on, and the two ends of its run. *)
Locations ==
  {"start",                              \* the thread has not played anything yet
   "prompt",                             \* the riddle is playing
   "read", "wrong", "exile",             \* code entry: reading, wrong beep, Exile message
   "room", "leaf", "choose",             \* maze: a room or the leaf spoken, a key awaited
   "code", "lost",                       \* maze: the Code read out, the Exile text
   "setvar", "continue", "bye",          \* to_success (two requests) and hangup
   "end"}                                \* the handler has returned

Reads == {"read", "choose"}

FlowOutcomes == {"none", "succeed", "exile", "hangup"}

(* `tally` is the number the handler will report as `attempts`: tries in   *)
(* code entry, moves in the maze.                                          *)
Flow == [mode    : Modes,
         limit   : Int,            \* attempt_limit of the Config Snapshot
         at      : Locations,
         tally   : Int,
         refused : Nat,            \* consecutive Refused Keys in this room
         outcome : FlowOutcomes]   \* settled once the game is decided

NewFlow(mode, limit) ==
  [mode |-> mode, limit |-> limit, at |-> "start", tally |-> 0,
   refused |-> 0, outcome |-> "none"]

-----------------------------------------------------------------------------
(* Code entry: tweeted and puzzle.                                         *)

(* The top of the attempt loop: ask for the n-th answer, or fall out with  *)
(* the initial result when the loop has no n-th turn.                      *)
Attempt(f, n) ==
  IF n <= f.limit
    THEN [f EXCEPT !.at = "read", !.tally = n]
    ELSE [f EXCEPT !.at = "end", !.tally = 0, !.outcome = "hangup"]

(* The Mode handler's verdict on the n-th answer.                          *)
Verdict(heard, n, limit) ==
  CASE heard = "right"               -> "succeed"
    [] heard # "right" /\ n >= limit -> "exile"
    [] OTHER                         -> "fail"

(* Mutant: the caller who left is not hung up on.                          *)
CallerLeft_LineOpen(f, tally) ==
  [f EXCEPT !.at = "end", !.outcome = "hangup", !.tally = tally]

(* The caller stopped playing: hang up, and report what they did play.     *)
CallerLeft(f, tally) ==
  [f EXCEPT !.at = "bye", !.outcome = "hangup", !.tally = tally]

(* What follows an answer; an attempt never made is not one burned.        *)
Judge(f, heard) ==
  LET verdict == Verdict(heard, f.tally, f.limit)
  IN  CASE heard = "silence" -> CallerLeft(f, f.tally - 1)
        [] heard # "silence" /\ verdict = "succeed" ->
             [f EXCEPT !.at = "setvar", !.outcome = "succeed"]
        [] heard # "silence" /\ verdict = "exile" ->
             [f EXCEPT !.at = "exile", !.outcome = "exile"]
        [] OTHER -> [f EXCEPT !.at = "wrong"]

-----------------------------------------------------------------------------
(* The maze.                                                               *)

(* Arriving somewhere: which rooms a key leads to is the generated tree's  *)
(* business, so the leaf may be behind any of them.                        *)
Arrive(f, moves) ==
  {[f EXCEPT !.at = place, !.tally = moves, !.refused = 0] : place \in {"room", "leaf"}}

(* Mutant: one move past the bound.                                        *)
Narrated_OnePast(f) ==
  [f EXCEPT !.at = IF f.tally > WalkBound THEN "lost" ELSE "choose"]

(* The room has been narrated: the bound is tested only now.               *)
Narrated(f) ==
  [f EXCEPT !.at = IF f.tally >= WalkBound THEN "lost" ELSE "choose"]

(* Mutant: a Refused Key replays the room however often it comes (#55).    *)
Choose_Forever(f, heard) ==
  CASE heard = "right" -> Arrive(f, f.tally + 1)
    [] heard = "wrong" -> {[f EXCEPT !.at = "room"]}
    [] OTHER           -> {CallerLeft(f, f.tally)}

(* A key, or silence, at the end of a room's narration.                    *)
Choose(f, heard) ==
  CASE heard = "right" -> Arrive(f, f.tally + 1)
    [] heard = "wrong" /\ f.refused + 1 < RefusedKeysBeforeGone ->
         {[f EXCEPT !.at = "room", !.refused = @ + 1]}
    [] OTHER -> {CallerLeft(f, f.tally)}

-----------------------------------------------------------------------------
(* The first command of each Mode; a maze is always entered by a room,     *)
(* never by its leaf.                                                      *)
Opening(f) ==
  CASE f.mode = "tweeted"   -> Attempt(f, 1)
    [] f.mode = "puzzle"    -> [f EXCEPT !.at = "prompt"]
    [] f.mode = "roguelike" -> [f EXCEPT !.at = "room"]

After(f, heard) ==
  CASE f.at = "start"    -> {Opening(f)}
    [] f.at = "prompt"   -> {Attempt(f, 1)}
    [] f.at = "read"     -> {Judge(f, heard)}
    [] f.at = "wrong"    -> {Attempt(f, f.tally + 1)}
    [] f.at = "exile"    -> {[f EXCEPT !.at = "bye"]}
    [] f.at = "room"     -> {Narrated(f)}
    [] f.at = "choose"   -> Choose(f, heard)
    [] f.at = "leaf"     -> {[f EXCEPT !.at = "code"]}
    [] f.at = "code"     -> {[f EXCEPT !.at = "setvar", !.outcome = "succeed"]}
    [] f.at = "lost"     -> {[f EXCEPT !.at = "bye", !.outcome = "exile"]}
    [] f.at = "setvar"   -> {[f EXCEPT !.at = "continue"]}
    [] OTHER             -> {[f EXCEPT !.at = "end"]}      \* continue, bye

(* What holds wherever a game stands: when it is decided, how it can have  *)
(* been, and what the tally may say by then.                               *)
Decided   == {"exile", "setvar", "continue", "bye", "end"}
CodeEntry == {"prompt", "read", "wrong", "exile"}
InMaze    == {"room", "leaf", "choose", "code", "lost"}

Played(f) ==
  /\ f.outcome # "none" <=> f.at \in Decided
  /\ f.outcome = "succeed" => f.at \in {"setvar", "continue", "end"}
  /\ f.outcome = "exile" => f.at \in {"exile", "bye", "end"}
  /\ f.outcome = "hangup" => f.at \in {"bye", "end"}
  /\ f.at \in {"start", "prompt"} => f.tally = 0
  /\ f.tally >= 0
  /\ f.refused < RefusedKeysBeforeGone
  /\ f.mode = "roguelike" =>
       /\ f.at \notin CodeEntry
       /\ f.tally <= WalkBound
       /\ f.at = "choose" => f.tally < WalkBound
       /\ f.at = "lost" \/ f.outcome = "exile" => f.tally = WalkBound
  /\ f.mode # "roguelike" =>
       /\ f.at \notin InMaze
       /\ f.at \in {"read", "wrong"} \/ f.outcome = "succeed" => f.tally \in 1..f.limit
       /\ f.at = "wrong" => f.tally < f.limit
       /\ f.outcome = "exile" => f.tally \in 1..f.limit /\ f.tally = f.limit
       /\ f.tally <= f.limit \/ f.tally = 0

(* How far a game is from its end: first by the answers or moves it may    *)
(* still take, then by the Refused Keys, then by the commands on the way.  *)
Chances(f) ==
  LET most == IF f.mode = "roguelike" THEN WalkBound ELSE f.limit
  IN  CASE f.at \notin {"start", "prompt", "read", "wrong", "room", "choose"} -> 0
        [] f.at \in {"start", "prompt", "read", "wrong", "room", "choose"} ->
             1 + (IF f.tally < most THEN most - f.tally ELSE 0)

Patience(f) == RefusedKeysBeforeGone - f.refused

CommandsLeft(f) ==
  CASE f.at \in {"start", "leaf"}                              -> 4
    [] f.at \in {"prompt", "read", "room", "code"}             -> 3
    [] f.at \in {"wrong", "choose", "lost", "exile", "setvar"} -> 2
    [] f.at \in {"continue", "bye"}                            -> 1
    [] f.at = "end"                                            -> 0

(* g is nearer to its end than f.                                          *)
Nearer(g, f) ==
  \/ Chances(g) < Chances(f)
  \/ Chances(g) = Chances(f) /\ Patience(g) < Patience(f)
  \/ Chances(g) = Chances(f) /\ Patience(g) = Patience(f) /\ CommandsLeft(g) < CommandsLeft(f)

(* Mutant: every step after the decision logs again.                       *)
Logs_EveryStep(f, g) == g.outcome \in {"succeed", "exile"}

(* Going from f to g writes the session's line to logs/sessions.jsonl: a   *)
(* game that was played, won or lost, and never one that was walked out of.*)
Logs(f, g) == f.outcome = "none" /\ g.outcome \in {"succeed", "exile"}

(* Arriving at g tells the CallObserver: puzzle_selected, attempt_started, *)
(* node_entered.                                                           *)
Announces(g) == g.at \in {"prompt", "read", "room", "leaf"}

(* Steps of the thread that can raise on their own, ARI aside: drawing a   *)
(* riddle from an empty pool, synthesising speech, writing the JSONL line. *)
NoRiddle(f)   == f.at = "start" /\ f.mode = "puzzle"
Brittle(f, g) == g.at \in {"room", "leaf", "code", "lost"} \/ Logs(f, g)
=============================================================================
