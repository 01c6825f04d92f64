--------------------------- MODULE GameFlow_proofs ---------------------------
(***************************************************************************)
(* The game by itself, for any attempt limit, Walk Bound and number of     *)
(* Refused Keys: After leads from flows to flows, from flows that are      *)
(* Played to flows that are, and nearer to the end each time.  The proofs  *)
(* about CallEngine and FakePbx rest on these facts.                       *)
(***************************************************************************)
EXTENDS GameFlow, TLAPS

USE WalkBoundAssumption, RefusedKeysAssumption DEF Modes, FlowOutcomes

(* The game leads from flows to flows.                                     *)
LEMMA AfterType ==
  ASSUME NEW f \in Flow, NEW heard
  PROVE  After(f, heard) \subseteq Flow
<1> USE WalkBoundAssumption, RefusedKeysAssumption DEF Locations
<1>1. /\ f.limit \in Int /\ f.tally \in Int /\ f.refused \in Nat /\ f.mode \in Modes
      /\ f.at \in Locations /\ f.outcome \in FlowOutcomes
  BY DEF Flow
<1>2. \A place \in Locations : [f EXCEPT !.at = place] \in Flow
  BY DEF Flow
<1>3. \A place \in Locations, outcome \in FlowOutcomes :
        [f EXCEPT !.at = place, !.outcome = outcome] \in Flow
  BY DEF Flow
<1>4. \A place \in Locations, n \in Int, outcome \in FlowOutcomes :
        [f EXCEPT !.at = place, !.outcome = outcome, !.tally = n] \in Flow
  BY DEF Flow
<1>5. \A n \in Int : Attempt(f, n) \in Flow
  <2> SUFFICES ASSUME NEW n \in Int PROVE Attempt(f, n) \in Flow
    OBVIOUS
  <2>1. [f EXCEPT !.at = "read", !.tally = n] \in Flow
    BY DEF Flow
  <2>2. \A place \in Locations, k \in Int, outcome \in FlowOutcomes :
          [f EXCEPT !.at = place, !.tally = k, !.outcome = outcome] \in Flow
    BY DEF Flow
  <2>3. 0 \in Int /\ "end" \in Locations /\ "hangup" \in FlowOutcomes
    OBVIOUS
  <2>4. [f EXCEPT !.at = "end", !.tally = 0, !.outcome = "hangup"] \in Flow
    BY <2>2, <2>3
  <2> QED
    BY <2>1, <2>4 DEF Attempt
<1>6. \A n \in Int : CallerLeft(f, n) \in Flow
  BY <1>4 DEF CallerLeft
<1>7. Judge(f, heard) \in Flow
  <2> DEFINE verdict == Verdict(heard, f.tally, f.limit)
  <2>1. CASE heard = "silence"
    <3>1. Judge(f, heard) = CallerLeft(f, f.tally - 1)
      BY <2>1 DEF Judge
    <3>2. f.tally - 1 \in Int
      BY <1>1
    <3> QED
      BY <1>6, <3>1, <3>2
  <2>2. CASE heard # "silence" /\ verdict = "succeed"
    BY <1>3, <2>2 DEF Judge, FlowOutcomes
  <2>3. CASE heard # "silence" /\ verdict = "exile"
    BY <1>3, <2>3 DEF Judge, FlowOutcomes
  <2>4. CASE heard # "silence" /\ verdict \notin {"succeed", "exile"}
    <3>1. Judge(f, heard) = [f EXCEPT !.at = "wrong"]
      BY <2>4 DEF Judge
    <3> QED
      BY <1>2, <3>1
  <2> QED
    BY <2>1, <2>2, <2>3, <2>4
<1>8. \A n \in Int : Arrive(f, n) \subseteq Flow
  <2> SUFFICES ASSUME NEW n \in Int, NEW place \in {"room", "leaf"}
               PROVE  [f EXCEPT !.at = place, !.tally = n, !.refused = 0] \in Flow
    BY DEF Arrive
  <2> QED
    BY DEF Flow
<1>9. Choose(f, heard) \subseteq Flow
  <2>1. CASE heard = "right"
    BY <1>1, <1>8, <2>1 DEF Choose
  <2>2. CASE heard = "wrong" /\ f.refused + 1 < RefusedKeysBeforeGone
    <3>1. Choose(f, heard) = {[f EXCEPT !.at = "room", !.refused = f.refused + 1]}
      BY <2>2 DEF Choose
    <3>2. \A k \in Nat : [f EXCEPT !.at = "room", !.refused = k] \in Flow
      BY DEF Flow
    <3>3. f.refused + 1 \in Nat
      BY <1>1
    <3> QED
      BY <3>1, <3>2, <3>3
  <2>3. CASE heard # "right" /\ ~(heard = "wrong" /\ f.refused + 1 < RefusedKeysBeforeGone)
    <3>1. Choose(f, heard) = {CallerLeft(f, f.tally)}
      BY <2>3 DEF Choose
    <3> QED
      BY <1>1, <1>6, <3>1
  <2> QED
    BY <2>1, <2>2, <2>3
<1>10. f.at = "start" => Opening(f) \in Flow
  BY <1>1, <1>2, <1>5 DEF Opening
<1>11. Narrated(f) \in Flow
  BY <1>1, <1>2 DEF Narrated
<1>12. CASE f.at \in {"start", "prompt", "read", "wrong", "room"}
  <2>1. f.tally + 1 \in Int
    BY <1>1
  <2> QED
    BY <1>5, <1>7, <1>10, <1>11, <1>12, <2>1 DEF After
<1>13. CASE f.at = "choose"
  BY <1>9, <1>13 DEF After
<1>14. CASE f.at \in {"exile", "leaf", "setvar"}
  BY <1>2, <1>14 DEF After
<1>15. CASE f.at \in {"code", "lost"}
  BY <1>3, <1>15 DEF After
<1>16. CASE f.at \in {"continue", "bye", "end"}
  <2>1. After(f, heard) = {[f EXCEPT !.at = "end"]}
    BY <1>16 DEF After
  <2> QED
    BY <1>2, <2>1
<1> QED
  BY <1>1, <1>12, <1>13, <1>14, <1>15, <1>16

(* What a Mode handler answers leaves the count within its limit.          *)
LEMMA JudgePlays ==
  ASSUME NEW f \in Flow, NEW heard, Played(f), f.at = "read"
  PROVE  Played(Judge(f, heard))
<1>1. /\ f.tally \in 1..f.limit /\ f.mode # "roguelike" /\ f.outcome = "none"
      /\ f.limit \in Int /\ f.tally \in Int
  BY DEF Played, Decided, InMaze, CodeEntry, Flow
<1>2. CASE heard = "silence"
  <2>1. Judge(f, heard) = [f EXCEPT !.at = "bye", !.outcome = "hangup", !.tally = f.tally - 1]
    BY <1>2 DEF Judge, CallerLeft
  <2> QED
    BY <1>1, <2>1 DEF Played, Decided, InMaze, CodeEntry, Flow
<1>3. CASE heard = "right"
  <2>1. Judge(f, heard) = [f EXCEPT !.at = "setvar", !.outcome = "succeed"]
    BY <1>3 DEF Judge, Verdict
  <2> QED
    BY <1>1, <2>1 DEF Played, Decided, InMaze, CodeEntry, Flow
<1>4. CASE heard \notin {"silence", "right"} /\ f.tally >= f.limit
  <2>1. Judge(f, heard) = [f EXCEPT !.at = "exile", !.outcome = "exile"]
    BY <1>4 DEF Judge, Verdict
  <2> QED
    BY <1>1, <1>4, <2>1 DEF Played, Decided, InMaze, CodeEntry, Flow
<1>5. CASE heard \notin {"silence", "right"} /\ f.tally < f.limit
  <2>1. Judge(f, heard) = [f EXCEPT !.at = "wrong"]
    BY <1>1, <1>5 DEF Judge, Verdict
  <2> QED
    BY <1>1, <1>5, <2>1 DEF Played, Decided, InMaze, CodeEntry, Flow
<1> QED
  BY <1>1, <1>2, <1>3, <1>4, <1>5

(* An attempt is made only within the limit.                               *)
LEMMA AttemptPlays ==
  ASSUME NEW f \in Flow, Played(f), f.at \in {"start", "prompt", "wrong"},
         f.mode # "roguelike"
  PROVE  Played(Attempt(f, f.tally + 1))
<1>1. /\ f.limit \in Int /\ f.tally \in Int /\ f.tally >= 0 /\ f.outcome = "none"
      /\ f.refused \in Nat /\ f.refused < RefusedKeysBeforeGone
  BY DEF Played, Decided, Flow
<1>2. CASE f.tally + 1 <= f.limit
  <2> DEFINE g == [f EXCEPT !.at = "read", !.tally = f.tally + 1]
  <2>1. Attempt(f, f.tally + 1) = g
    BY <1>2 DEF Attempt
  <2>2. /\ g.at = "read" /\ g.tally = f.tally + 1 /\ g.mode = f.mode
        /\ g.limit = f.limit /\ g.outcome = "none" /\ g.refused = f.refused
    BY <1>1 DEF Flow
  <2> HIDE DEF g
  <2>3. Played(g)
    BY <1>1, <1>2, <2>2 DEF Played, Decided, InMaze, CodeEntry
  <2> QED
    BY <2>1, <2>3
<1>3. CASE ~(f.tally + 1 <= f.limit)
  <2> DEFINE g == [f EXCEPT !.at = "end", !.tally = 0, !.outcome = "hangup"]
  <2>1. Attempt(f, f.tally + 1) = g
    BY <1>3 DEF Attempt
  <2>2. /\ g.at = "end" /\ g.tally = 0 /\ g.mode = f.mode
        /\ g.limit = f.limit /\ g.outcome = "hangup" /\ g.refused = f.refused
    BY <1>1 DEF Flow
  <2> HIDE DEF g
  <2>3. Played(g)
    BY <1>1, <2>2 DEF Played, Decided, InMaze, CodeEntry
  <2> QED
    BY <2>1, <2>3
<1> QED
  BY <1>2, <1>3

(* A key, or silence, in a room: no move past the Walk Bound.              *)
LEMMA ChoosePlays ==
  ASSUME NEW f \in Flow, NEW heard, Played(f), f.at = "choose",
         NEW g \in Choose(f, heard)
  PROVE  Played(g)
<1>1. /\ f.mode = "roguelike" /\ f.outcome = "none" /\ f.tally \in Int
      /\ f.tally >= 0 /\ f.tally < WalkBound
  BY DEF Played, Decided, InMaze, CodeEntry, Flow
<1>2. CASE heard = "right"
  <2>1. PICK place \in {"room", "leaf"} :
          g = [f EXCEPT !.at = place, !.tally = f.tally + 1, !.refused = 0]
    BY <1>2 DEF Choose, Arrive
  <2> QED
    BY <1>1, <2>1 DEF Played, Decided, InMaze, CodeEntry, Flow
<1>3. CASE heard = "wrong" /\ f.refused + 1 < RefusedKeysBeforeGone
  <2>1. g = [f EXCEPT !.at = "room", !.refused = f.refused + 1]
    BY <1>3 DEF Choose
  <2>2. /\ g.at = "room" /\ g.refused = f.refused + 1 /\ g.mode = f.mode /\ g.limit = f.limit
        /\ g.tally = f.tally /\ g.outcome = f.outcome
    BY <2>1 DEF Flow
  <2> QED
    BY <1>1, <1>3, <2>2 DEF Played, Decided, InMaze, CodeEntry
<1>4. CASE heard # "right" /\ ~(heard = "wrong" /\ f.refused + 1 < RefusedKeysBeforeGone)
  <2>1. g = [f EXCEPT !.at = "bye", !.outcome = "hangup", !.tally = f.tally]
    BY <1>4 DEF Choose, CallerLeft
  <2> QED
    BY <1>1, <2>1 DEF Played, Decided, InMaze, CodeEntry, Flow
<1> QED
  BY <1>2, <1>3, <1>4

(* core/flow.py and the Mode handlers: the rules are kept at every command.*)
THEOREM AfterPlays ==
  ASSUME NEW f \in Flow, NEW heard, Played(f), NEW g \in After(f, heard)
  PROVE  Played(g)
<1>1. f.tally \in Int /\ f.limit \in Int /\ f.at \in Locations /\ f.mode \in Modes
  BY DEF Flow
<1>2. CASE f.at = "start"
  <2>1. g = Opening(f) /\ f.tally + 1 = 1 /\ f.outcome = "none" /\ f.tally = 0
    BY <1>1, <1>2 DEF After, Played, Decided
  <2>2. CASE f.mode = "tweeted"
    BY <1>2, <2>1, <2>2, AttemptPlays DEF Opening
  <2>3. CASE f.mode \in {"puzzle", "roguelike"}
    <3>1. g = [f EXCEPT !.at = IF f.mode = "puzzle" THEN "prompt" ELSE "room"]
      BY <2>1, <2>3 DEF Opening
    <3> QED
      BY <1>1, <2>1, <2>3, <3>1 DEF Played, Decided, InMaze, CodeEntry, Flow
  <2> QED
    BY <1>1, <2>2, <2>3
<1>3. CASE f.at = "prompt"
  <2>1. g = Attempt(f, 1) /\ f.tally + 1 = 1 /\ f.mode # "roguelike"
    BY <1>1, <1>3 DEF After, Played, CodeEntry
  <2> QED
    BY <1>3, <2>1, AttemptPlays
<1>4. CASE f.at = "read"
  BY <1>4, JudgePlays DEF After
<1>5. CASE f.at = "wrong"
  <2>1. g = Attempt(f, f.tally + 1) /\ f.mode # "roguelike"
    BY <1>1, <1>5 DEF After, Played, CodeEntry
  <2> QED
    BY <1>5, <2>1, AttemptPlays
<1>6. CASE f.at = "room"
  <2>1. g = [f EXCEPT !.at = IF f.tally >= WalkBound THEN "lost" ELSE "choose"]
    BY <1>6 DEF After, Narrated
  <2> QED
    BY <1>1, <1>6, <2>1 DEF Played, Decided, InMaze, CodeEntry, Flow
<1>7. CASE f.at = "choose"
  BY <1>7, ChoosePlays DEF After
<1>8. CASE f.at = "leaf"
  <2>1. g = [f EXCEPT !.at = "code"]
    BY <1>8 DEF After
  <2> QED
    BY <1>1, <1>8, <2>1 DEF Played, Decided, InMaze, CodeEntry, Flow
<1>9. CASE f.at = "exile"
  <2>1. g = [f EXCEPT !.at = "bye"]
    BY <1>9 DEF After
  <2> QED
    BY <1>1, <1>9, <2>1 DEF Played, Decided, InMaze, CodeEntry, Flow
<1>10. CASE f.at = "code"
  <2>1. g = [f EXCEPT !.at = "setvar", !.outcome = "succeed"]
    BY <1>10 DEF After
  <2> QED
    BY <1>1, <1>10, <2>1 DEF Played, Decided, InMaze, CodeEntry, Flow
<1>11. CASE f.at = "lost"
  <2>1. g = [f EXCEPT !.at = "bye", !.outcome = "exile"]
    BY <1>11 DEF After
  <2> QED
    BY <1>1, <1>11, <2>1 DEF Played, Decided, InMaze, CodeEntry, Flow
<1>12. CASE f.at = "setvar"
  <2>1. g = [f EXCEPT !.at = "continue"]
    BY <1>12 DEF After
  <2> QED
    BY <1>1, <1>12, <2>1 DEF Played, Decided, InMaze, CodeEntry, Flow
<1>13. CASE f.at \in {"continue", "bye", "end"}
  <2>1. g = [f EXCEPT !.at = "end"]
    BY <1>13 DEF After
  <2> QED
    BY <1>1, <1>13, <2>1 DEF Played, Decided, InMaze, CodeEntry, Flow
<1> QED
  BY <1>1, <1>2, <1>3, <1>4, <1>5, <1>6, <1>7, <1>8, <1>9, <1>10, <1>11, <1>12, <1>13
     DEF Locations

(* A game that has not begun. *)
LEMMA NewFlowPlays ==
  ASSUME NEW mode \in Modes, NEW limit \in Int
  PROVE  NewFlow(mode, limit) \in Flow /\ Played(NewFlow(mode, limit))
<1>1. NewFlow(mode, limit) \in Flow
  BY DEF NewFlow, Flow, Locations
<1>2. Played(NewFlow(mode, limit))
  BY DEF NewFlow, Played, Decided, InMaze, CodeEntry
<1> QED
  BY <1>1, <1>2

(* A game is played under one Mode and one limit.                          *)
LEMMA AfterKeeps ==
  ASSUME NEW f \in Flow, NEW heard, NEW g \in After(f, heard)
  PROVE  g.mode = f.mode /\ g.limit = f.limit
<1> DEFINE Kept(h) == h.mode = f.mode /\ h.limit = f.limit
<1>1. f.at \in Locations /\ f.mode \in Modes
  BY DEF Flow
<1>2. \A n : Kept(Attempt(f, n)) /\ Kept(CallerLeft(f, n))
  BY DEF Attempt, CallerLeft, Flow
<1>3. Kept(Judge(f, heard))
  BY <1>2 DEF Judge, Flow
<1>4. \A h \in Choose(f, heard) : Kept(h)
  <2>1. CASE heard = "right"
    BY <2>1 DEF Choose, Arrive, Flow
  <2>2. CASE heard = "wrong" /\ f.refused + 1 < RefusedKeysBeforeGone
    BY <2>2 DEF Choose, Flow
  <2>3. CASE heard # "right" /\ ~(heard = "wrong" /\ f.refused + 1 < RefusedKeysBeforeGone)
    BY <1>2, <2>3 DEF Choose
  <2> QED
    BY <2>1, <2>2, <2>3
<1>5. Kept(Narrated(f)) /\ (f.at = "start" => Kept(Opening(f)))
  BY <1>1, <1>2 DEF Narrated, Opening, Flow
<1>6. CASE f.at \in {"start", "prompt", "read", "wrong", "room", "choose"}
  <2> HIDE DEF Kept
  <2>1. Kept(g)
    BY <1>2, <1>3, <1>4, <1>5, <1>6 DEF After
  <2> QED
    BY <2>1 DEF Kept
<1>7. CASE f.at \in {"exile", "leaf", "setvar", "code", "lost"}
  BY <1>7 DEF After, Flow
<1>8. CASE f.at \in {"continue", "bye", "end"}
  <2>1. g = [f EXCEPT !.at = "end"]
    BY <1>8 DEF After
  <2> QED
    BY <2>1 DEF Flow
<1> QED
  BY <1>1, <1>6, <1>7, <1>8 DEF Locations

(* A game that is decided only has its ending carried out.                 *)
LEMMA AfterSettles ==
  ASSUME NEW f \in Flow, NEW heard, Played(f), NEW g \in After(f, heard), f.outcome # "none"
  PROVE  g.outcome = f.outcome /\ g.at \in Decided
<1>1. f.at \in Decided
  BY DEF Played
<1>2. CASE f.at \in {"exile", "setvar"}
  BY <1>2 DEF After, Decided, Flow
<1>3. CASE f.at \in {"continue", "bye", "end"}
  <2>1. g = [f EXCEPT !.at = "end"]
    BY <1>3 DEF After
  <2> QED
    BY <2>1 DEF Decided, Flow
<1> QED
  BY <1>1, <1>2, <1>3 DEF Decided

(* A handler returns after its bridging or its hangup, unless the limit    *)
(* allows no attempt; it has won only after the bridging.                  *)
LEMMA AfterEnds ==
  ASSUME NEW f \in Flow, NEW heard, Played(f), NEW g \in After(f, heard), g.at = "end"
  PROVE  /\ f.at \in {"continue", "bye", "end"} \/ f.limit < 1
         /\ g.outcome = "succeed" => f.at \in {"continue", "end"}
<1>1. f.at \in Locations /\ f.mode \in Modes /\ f.limit \in Int /\ f.tally \in Int
  BY DEF Flow
<1>2. \A n \in Int : Attempt(f, n).at = "end" => n > f.limit /\ Attempt(f, n).outcome = "hangup"
  BY <1>1 DEF Attempt, Flow
<1>3. CASE f.at \in {"start", "prompt"}
  <2>1. g.at # "end" \/ g = Attempt(f, 1)
    BY <1>1, <1>3 DEF After, Opening, Flow
  <2> QED
    BY <1>1, <1>2, <2>1
<1>4. CASE f.at = "wrong"
  <2>1. g = Attempt(f, f.tally + 1) /\ f.tally < f.limit
    BY <1>4 DEF After, Played, CodeEntry
  <2> QED
    BY <1>1, <1>2, <2>1
<1>5. CASE f.at \in {"read", "choose", "room", "leaf", "code", "lost", "exile", "setvar"}
  <2>1. CASE f.at = "read"
    <3>1. g = Judge(f, heard)
      BY <2>1 DEF After
    <3> QED
      BY <3>1 DEF Judge, CallerLeft, Flow
  <2>2. CASE f.at = "choose"
    <3>1. g \in Choose(f, heard)
      BY <2>2 DEF After
    <3> QED
      BY <3>1 DEF Choose, Arrive, CallerLeft, Flow
  <2>3. CASE f.at \in {"room", "leaf", "code", "lost", "exile", "setvar"}
    BY <2>3 DEF After, Narrated, Flow
  <2> QED
    BY <1>5, <2>1, <2>2, <2>3
<1>6. CASE f.at \in {"continue", "bye", "end"}
  <2>1. g = [f EXCEPT !.at = "end"]
    BY <1>6 DEF After
  <2>2. g.outcome = f.outcome
    BY <2>1 DEF Flow
  <2>3. f.outcome = "succeed" => f.at # "bye"
    BY DEF Played
  <2> QED
    BY <1>6, <2>2, <2>3
<1> QED
  BY <1>1, <1>3, <1>4, <1>5, <1>6 DEF Locations

(* The measures of how far a game is from its end are counts.              *)
LEMMA MeasuresCount ==
  ASSUME NEW f \in Flow, Played(f)
  PROVE  Chances(f) \in Nat /\ Patience(f) \in Nat /\ CommandsLeft(f) \in Nat
<1>1. /\ f.limit \in Int /\ f.tally \in Int /\ f.refused \in Nat /\ f.at \in Locations
      /\ f.refused < RefusedKeysBeforeGone
  BY DEF Flow, Played
<1>2. Chances(f) \in Nat
  <2> DEFINE most == IF f.mode = "roguelike" THEN WalkBound ELSE f.limit
  <2>1. most \in Int
    BY <1>1
  <2>2. (IF f.tally < most THEN most - f.tally ELSE 0) \in Nat
    <3> HIDE DEF most
    <3> QED
      BY <1>1, <2>1
  <2> QED
    BY <2>2 DEF Chances
<1> QED
  BY <1>1, <1>2 DEF Patience, CommandsLeft, Locations

(* core/flow.py, core/mode_roguelike.py: a game that goes on comes nearer  *)
(* to its end at every command, whatever the caller keys in or leaves.     *)
THEOREM AfterDescends ==
  ASSUME NEW f \in Flow, NEW heard, Played(f), NEW g \in After(f, heard), f.at # "end"
  PROVE  Nearer(g, f)
<1> DEFINE Asking == {"start", "prompt", "read", "wrong", "room", "choose"}
<1>1. /\ f.limit \in Int /\ f.tally \in Int /\ f.refused \in Nat /\ f.at \in Locations
      /\ f.mode \in Modes /\ f.tally >= 0
      /\ f.at \in {"start", "prompt"} => f.tally = 0
      /\ f.at = "choose" => f.mode = "roguelike" /\ f.tally < WalkBound
      /\ f.at \in {"prompt", "read", "wrong"} => f.mode # "roguelike"
      /\ f.at = "wrong" => f.tally < f.limit
  BY DEF Flow, Played, InMaze, CodeEntry
<1>2. Chances(f) \in Nat /\ (f.at \in Asking => Chances(f) >= 1)
  <2>1. f.at \in Asking => Chances(f) =
          1 + (IF f.tally < (IF f.mode = "roguelike" THEN WalkBound ELSE f.limit)
                 THEN (IF f.mode = "roguelike" THEN WalkBound ELSE f.limit) - f.tally ELSE 0)
    BY DEF Chances
  <2> QED
    BY <1>1, <2>1, MeasuresCount
<1>3. ASSUME NEW h \in Flow, h.at \notin Asking, f.at \in Asking
      PROVE  Nearer(h, f)
  <2>1. Chances(h) = 0
    BY <1>3 DEF Chances
  <2> QED
    BY <1>2, <1>3, <2>1 DEF Nearer
<1>4. ASSUME NEW h \in Flow, h.at \notin Asking, f.at \notin Asking, h.refused = f.refused,
             CommandsLeft(h) < CommandsLeft(f)
      PROVE  Nearer(h, f)
  <2>1. Chances(h) = 0 /\ Chances(f) = 0
    BY <1>4 DEF Chances
  <2> QED
    BY <1>4, <2>1 DEF Nearer, Patience
<1>5. ASSUME NEW place \in Asking, f.at \in Asking,
             CommandsLeft([f EXCEPT !.at = place]) < CommandsLeft(f)
      PROVE  Nearer([f EXCEPT !.at = place], f)
  <2> DEFINE h == [f EXCEPT !.at = place]
  <2>1. /\ h.at = place /\ h.mode = f.mode /\ h.limit = f.limit /\ h.tally = f.tally
        /\ h.refused = f.refused
    BY <1>5 DEF Flow
  <2> HIDE DEF h
  <2>2. Chances(h) = Chances(f) /\ Patience(h) = Patience(f)
    BY <1>5, <2>1 DEF Chances, Patience
  <2>3. CommandsLeft(h) < CommandsLeft(f)
    BY <1>5 DEF h
  <2>4. Nearer(h, f)
    BY <2>2, <2>3 DEF Nearer
  <2> QED
    BY <2>4 DEF h
<1>6. g \in Flow
  BY AfterType
<1>7. ASSUME f.at \in {"start", "prompt", "wrong"}, f.mode # "roguelike", g = Attempt(f, f.tally + 1)
      PROVE  Nearer(g, f)
  <2>1. CASE f.tally + 1 <= f.limit
    <3>1. /\ g.at = "read" /\ g.tally = f.tally + 1 /\ g.mode = f.mode /\ g.limit = f.limit
      BY <1>7, <2>1 DEF Attempt, Flow
    <3>2. Chances(g) = 1 + (IF g.tally < f.limit THEN f.limit - g.tally ELSE 0)
      BY <1>7, <3>1 DEF Chances
    <3>3. Chances(f) = 1 + (f.limit - f.tally)
      BY <1>1, <1>7, <2>1 DEF Chances
    <3>4. Chances(g) < Chances(f)
      BY <1>1, <2>1, <3>1, <3>2, <3>3
    <3> QED
      BY <3>4 DEF Nearer
  <2>2. CASE ~(f.tally + 1 <= f.limit)
    <3>1. g.at = "end"
      BY <1>7, <2>2 DEF Attempt, Flow
    <3> QED
      BY <1>3, <1>6, <1>7, <3>1
  <2> QED
    BY <2>1, <2>2
<1>8. CASE f.at = "start"
  <2>1. g = Opening(f) /\ f.tally + 1 = 1
    BY <1>1, <1>8 DEF After
  <2>2. CASE f.mode = "tweeted"
    BY <1>7, <1>8, <2>1, <2>2 DEF Opening
  <2>3. CASE f.mode \in {"puzzle", "roguelike"}
    <3>1. PICK place \in {"prompt", "room"} : g = [f EXCEPT !.at = place]
      BY <2>1, <2>3 DEF Opening
    <3>2. CommandsLeft(g) < CommandsLeft(f)
      BY <1>8, <3>1 DEF CommandsLeft, Flow
    <3> QED
      BY <1>5, <1>8, <3>1, <3>2
  <2> QED
    BY <1>1, <2>2, <2>3
<1>9. CASE f.at = "prompt"
  <2>1. g = Attempt(f, f.tally + 1)
    BY <1>1, <1>9 DEF After
  <2> QED
    BY <1>1, <1>7, <1>9, <2>1
<1>10. CASE f.at = "wrong"
  <2>1. g = Attempt(f, f.tally + 1)
    BY <1>1, <1>10 DEF After
  <2> QED
    BY <1>1, <1>7, <1>10, <2>1
<1>11. CASE f.at = "read"
  <2>1. g = Judge(f, heard)
    BY <1>11 DEF After
  <2>2. g.at \notin Asking \/ g = [f EXCEPT !.at = "wrong"]
    BY <2>1 DEF Judge, CallerLeft, Flow
  <2>3. g = [f EXCEPT !.at = "wrong"] => CommandsLeft(g) < CommandsLeft(f)
    BY <1>11 DEF CommandsLeft, Flow
  <2> QED
    BY <1>3, <1>5, <1>6, <1>11, <2>2, <2>3
<1>12. CASE f.at = "room"
  <2>1. g = [f EXCEPT !.at = IF f.tally >= WalkBound THEN "lost" ELSE "choose"]
    BY <1>12 DEF After, Narrated
  <2>2. CASE f.tally >= WalkBound
    <3>1. g.at = "lost"
      BY <2>1, <2>2 DEF Flow
    <3> QED
      BY <1>3, <1>6, <1>12, <3>1
  <2>3. CASE ~(f.tally >= WalkBound)
    <3>1. g = [f EXCEPT !.at = "choose"]
      BY <2>1, <2>3
    <3>2. CommandsLeft(g) < CommandsLeft(f)
      BY <1>12, <3>1 DEF CommandsLeft, Flow
    <3> QED
      BY <1>5, <1>12, <3>1, <3>2
  <2> QED
    BY <2>2, <2>3
<1>13. CASE f.at = "choose"
  <2>1. g \in Choose(f, heard)
    BY <1>13 DEF After
  <2>2. CASE heard = "right"
    <3>1. PICK place \in {"room", "leaf"} :
            g = [f EXCEPT !.at = place, !.tally = f.tally + 1, !.refused = 0]
      BY <2>1, <2>2 DEF Choose, Arrive
    <3>2. g.at = place /\ g.tally = f.tally + 1 /\ g.mode = "roguelike"
      BY <1>1, <1>13, <3>1 DEF Flow
    <3>3. CASE place = "leaf"
      BY <1>3, <1>6, <1>13, <3>2, <3>3
    <3>4. CASE place = "room"
      <4>1. Chances(g) = 1 + (IF g.tally < WalkBound THEN WalkBound - g.tally ELSE 0)
        BY <3>2, <3>4 DEF Chances
      <4>2. Chances(f) = 1 + (WalkBound - f.tally)
        BY <1>1, <1>13 DEF Chances
      <4>3. Chances(g) < Chances(f)
        BY <1>1, <1>13, <3>2, <4>1, <4>2
      <4> QED
        BY <4>3 DEF Nearer
    <3> QED
      BY <3>3, <3>4
  <2>3. CASE heard = "wrong" /\ f.refused + 1 < RefusedKeysBeforeGone
    <3>1. g = [f EXCEPT !.at = "room", !.refused = f.refused + 1]
      BY <2>1, <2>3 DEF Choose
    <3>2. /\ g.at = "room" /\ g.tally = f.tally /\ g.mode = f.mode /\ g.limit = f.limit
          /\ g.refused = f.refused + 1
      BY <3>1 DEF Flow
    <3>3. Chances(g) = Chances(f)
      BY <1>13, <3>2 DEF Chances
    <3>4. Patience(g) < Patience(f)
      BY <1>1, <3>2 DEF Patience
    <3> QED
      BY <3>3, <3>4 DEF Nearer
  <2>4. CASE heard # "right" /\ ~(heard = "wrong" /\ f.refused + 1 < RefusedKeysBeforeGone)
    <3>1. g.at = "bye"
      BY <2>1, <2>4 DEF Choose, CallerLeft, Flow
    <3> QED
      BY <1>3, <1>6, <1>13, <3>1
  <2> QED
    BY <2>2, <2>3, <2>4
<1>14. CASE f.at \in {"exile", "leaf", "code", "lost", "setvar"}
  <2>1. /\ g.refused = f.refused
        /\ g.at = CASE f.at \in {"exile", "lost"} -> "bye" [] f.at = "leaf" -> "code"
                   [] f.at = "code" -> "setvar" [] f.at = "setvar" -> "continue"
    BY <1>14 DEF After, Flow
  <2>2. CommandsLeft(g) < CommandsLeft(f) /\ g.at \notin Asking
    BY <1>14, <2>1 DEF CommandsLeft
  <2> QED
    BY <1>4, <1>6, <1>14, <2>1, <2>2
<1>15. CASE f.at \in {"continue", "bye"}
  <2>1. g = [f EXCEPT !.at = "end"]
    BY <1>15 DEF After
  <2>2. g.at = "end" /\ g.refused = f.refused /\ CommandsLeft(g) < CommandsLeft(f)
    BY <1>15, <2>1 DEF CommandsLeft, Flow
  <2> QED
    BY <1>4, <1>6, <1>15, <2>2
<1> QED
  BY <1>1, <1>8, <1>9, <1>10, <1>11, <1>12, <1>13, <1>14, <1>15 DEF Locations
=============================================================================
