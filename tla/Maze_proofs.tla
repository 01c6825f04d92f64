----------------------------- MODULE Maze_proofs -----------------------------
(***************************************************************************)
(* Maze for a maze of any size, any Walk Bound and any number of Refused   *)
(* Keys: the Walk that is returned is the one that was walked, and it is   *)
(* one that GameFlow plays.                                                *)
(*                                                                         *)
(* WalkIsTheirs is not inductive: that a walk ends in the leaf or within   *)
(* its bound was decided one or two commands before the ending.  Standing  *)
(* says what is known at each of them.                                     *)
(***************************************************************************)
EXTENDS Maze, FiniteSetTheorems, SequenceTheorems, TLAPS

USE RoomsAssumption, WalkBoundAssumption, RefusedKeysAssumption

(* The keys pressed lead through the rooms recorded. *)
Leads ==
  /\ Len(visited) = Len(path) + 1 /\ visited[1] = 0 /\ idx = visited[Len(visited)]
  /\ \A i \in 1..Len(path) :
       visited[i] < Leaf /\ visited[i + 1] = tree[visited[i] + 1][path[i]]
  /\ Len(path) <= WalkBound

Standing ==
  /\ at \in {"leaf", "code", "setvar"} => idx = Leaf
  /\ at \in {"room", "choose", "lost", "bye"} => idx # Leaf
  /\ at = "choose" => Len(path) < WalkBound
  /\ at = "lost" => Len(path) = WalkBound
  /\ at = "setvar" => outcome = "succeed"
  /\ at = "bye" => \/ outcome = "hangup" /\ Len(path) < WalkBound /\ ~Simulated
                   \/ outcome = "exile" /\ Len(path) = WalkBound
  /\ at \notin {"setvar", "bye"} => outcome = "none"

Inductive ==
  /\ TypeOK
  /\ IF at = "making"
       THEN /\ Len(tree) < Rooms
            /\ idx = 0 /\ path = <<>> /\ visited = <<>> /\ refused = 0 /\ outcome = "none"
       ELSE Len(tree) = Rooms /\ Leads /\ Standing

-----------------------------------------------------------------------------

(* One more room at the end of the tree. *)
LEMMA OneMore ==
  ASSUME NEW S, NEW s \in Seq(S), NEW e \in S
  PROVE  /\ Append(s, e) \in Seq(S) /\ Len(Append(s, e)) = Len(s) + 1
         /\ \A i \in 1..Len(s) : Append(s, e)[i] = s[i]
         /\ Append(s, e)[Len(s) + 1] = e
  OBVIOUS

LEMMA Initially == Init => Inductive
<1> SUFFICES ASSUME Init PROVE Inductive
  OBVIOUS
<1>1. /\ tree \in Seq(Doors \X Doors) /\ Len(tree) = 0
      /\ path \in Seq(Keys) /\ visited \in Seq(Doors)
  BY DEF Init
<1> QED
  BY <1>1 DEF Init, Inductive, TypeOK, Doors, Leaf, FlowOutcomes

LEMMA MakingStep ==
  ASSUME Inductive, Draws \/ (\E door \in Doors : Redraws(door))
  PROVE  Inductive'
<1>1. at = "making" /\ pair' \in Doors \X Doors
  BY DEF Draws, Redraws, Inductive, TypeOK
<1>2. UNCHANGED <<tree, walker, at, idx, path, visited, refused, outcome>>
  BY DEF Draws, Redraws, walk
<1> QED
  BY <1>1, <1>2 DEF Inductive, TypeOK

(* The first room of a tree is never its leaf. *)
LEMMA FurnishesStep ==
  ASSUME Inductive, Furnishes
  PROVE  Inductive'
<1>1. /\ at = "making" /\ pair \in Doors \X Doors /\ pair' = <<>>
      /\ tree \in Seq(Doors \X Doors) /\ Len(tree) < Rooms /\ tree' = Append(tree, pair)
      /\ UNCHANGED <<walker, idx, path, refused, outcome>>
  BY DEF Furnishes, Inductive, TypeOK
<1>2. tree' \in Seq(Doors \X Doors) /\ Len(tree') = Len(tree) + 1 /\ Len(tree) \in Nat
  BY <1>1, OneMore, LenProperties
<1>3. idx = 0 /\ path = <<>> /\ visited = <<>> /\ refused = 0 /\ outcome = "none"
  BY <1>1 DEF Inductive
<1>4. CASE Len(tree) + 1 = Rooms
  <2>1. at' = "room" /\ visited' = <<0>>
    BY <1>4 DEF Furnishes
  <2>2. visited' \in Seq(Doors) /\ Len(visited') = 1 /\ visited'[1] = 0
    BY <2>1 DEF Doors, Leaf
  <2>3. Len(path') = 0 /\ path' \in Seq(Keys)
    BY <1>1, <1>3
  <2>4. Leads' /\ Standing'
    BY <1>1, <1>3, <2>1, <2>2, <2>3 DEF Leads, Standing, Leaf
  <2>5. TypeOK'
    BY <1>1, <1>2, <1>4, <2>1, <2>2, <2>3 DEF Inductive, TypeOK
  <2> QED
    BY <1>2, <1>4, <2>1, <2>4, <2>5 DEF Inductive
<1>5. CASE Len(tree) + 1 # Rooms
  <2>1. UNCHANGED <<at, visited>>
    BY <1>5 DEF Furnishes
  <2>2. TypeOK'
    BY <1>1, <1>2, <1>5, <2>1 DEF Inductive, TypeOK
  <2> QED
    BY <1>1, <1>2, <1>3, <1>5, <2>1, <2>2 DEF Inductive
<1> QED
  BY <1>4, <1>5

LEMMA NarratesStep ==
  ASSUME Inductive, Narrates
  PROVE  Inductive'
<1>1. at \in {"room", "leaf"} /\ UNCHANGED <<tree, pair, walker, idx, path, visited, refused, outcome>>
  BY DEF Narrates, making
<1>2. at' \in {"lost", "choose", "code"} /\ Len(path) \in Nat
  BY DEF Narrates, Inductive, TypeOK
<1>3. Leads' /\ Len(tree') = Rooms
  BY <1>1 DEF Inductive, Leads
<1>4. Standing'
  BY <1>1, <1>2 DEF Narrates, Inductive, Leads, Standing
<1>5. TypeOK'
  BY <1>1, <1>2 DEF Inductive, TypeOK
<1> QED
  BY <1>2, <1>3, <1>4, <1>5 DEF Inductive

(* A key leads on from the room the walk stands in. *)
LEMMA PressesStep ==
  ASSUME Inductive, NEW key \in Keys, Presses(key)
  PROVE  Inductive'
<1> DEFINE next == tree[idx + 1][key]
<1>1. /\ at = "choose" /\ path' = Append(path, key) /\ idx' = next
      /\ visited' = Append(visited, next) /\ refused' = 0
      /\ at' = IF next = Leaf THEN "leaf" ELSE "room"
      /\ UNCHANGED <<tree, pair, walker, outcome>>
  BY DEF Presses, making
<1>2. /\ TypeOK /\ Leads /\ Standing /\ Len(tree) = Rooms
  BY <1>1 DEF Inductive
<1>3. idx \in 0..Rooms /\ idx # Rooms /\ Len(path) < WalkBound /\ outcome = "none"
  BY <1>1, <1>2 DEF TypeOK, Standing, Doors, Leaf
<1>4. next \in Doors
  <2>1. tree[idx + 1] \in Doors \X Doors
    BY <1>2, <1>3, ElementOfSeq DEF TypeOK
  <2> QED
    BY <2>1 DEF Keys
<1> HIDE DEF next
<1>5. /\ Len(path) \in Nat /\ Len(visited) = Len(path) + 1
      /\ path' \in Seq(Keys) /\ Len(path') = Len(path) + 1
      /\ \A i \in 1..Len(path) : path'[i] = path[i]
      /\ path'[Len(path) + 1] = key
  BY <1>1, <1>2, OneMore, LenProperties DEF TypeOK, Leads
<1>6. /\ visited' \in Seq(Doors) /\ Len(visited') = Len(path) + 2
      /\ \A i \in 1..Len(path) + 1 : visited'[i] = visited[i]
      /\ visited'[Len(path) + 2] = next
  BY <1>1, <1>2, <1>4, <1>5, OneMore DEF TypeOK
<1>7. visited[Len(path) + 1] = idx /\ visited[1] = 0
  BY <1>2, <1>5 DEF Leads
<1>8. \A i \in 1..Len(path') :
        visited'[i] < Leaf /\ visited'[i + 1] = tree'[visited'[i] + 1][path'[i]]
  <2> SUFFICES ASSUME NEW i \in 1..Len(path) + 1
               PROVE  visited'[i] < Leaf /\ visited'[i + 1] = tree[visited'[i] + 1][path'[i]]
    BY <1>1, <1>5
  <2>1. CASE i \in 1..Len(path)
    <3>1. /\ visited'[i] = visited[i] /\ visited'[i + 1] = visited[i + 1] /\ path'[i] = path[i]
      BY <1>5, <1>6, <2>1
    <3> QED
      BY <1>2, <2>1, <3>1 DEF Leads
  <2>2. CASE i = Len(path) + 1
    <3>1. visited'[i] = idx /\ visited'[i + 1] = next /\ path'[i] = key
      BY <1>5, <1>6, <1>7, <2>2
    <3> QED
      BY <1>3, <3>1 DEF Leaf, next
  <2> QED
    BY <1>5, <2>1, <2>2
<1>9. Leads'
  BY <1>1, <1>3, <1>5, <1>6, <1>7, <1>8 DEF Leads
<1>10. Standing'
  BY <1>1, <1>3 DEF Standing
<1>11. TypeOK'
  BY <1>1, <1>2, <1>4, <1>5, <1>6 DEF TypeOK
<1> QED
  BY <1>1, <1>2, <1>9, <1>10, <1>11 DEF Inductive

LEMMA RefusesStep ==
  ASSUME Inductive, Refuses
  PROVE  Inductive'
<1>1. /\ at = "choose" /\ at' = "room" /\ refused' = refused + 1
      /\ UNCHANGED <<tree, pair, walker, idx, path, visited, outcome>>
  BY DEF Refuses, making
<1>2. Leads' /\ Standing' /\ Len(tree') = Rooms
  BY <1>1 DEF Inductive, Leads, Standing
<1>3. TypeOK'
  BY <1>1 DEF Inductive, TypeOK
<1> QED
  BY <1>1, <1>2, <1>3 DEF Inductive

(* Every way out of the maze. *)
LEMMA LeavesStep ==
  ASSUME Inductive, Gone \/ Returns
  PROVE  Inductive'
<1>1. /\ at \in {"choose", "code", "lost"} /\ at' \in {"setvar", "bye"}
      /\ outcome' \in FlowOutcomes
      /\ UNCHANGED <<tree, pair, walker, idx, path, visited, refused>>
  BY DEF Gone, Returns, making, FlowOutcomes
<1>2. Leads' /\ Len(tree') = Rooms
  BY <1>1 DEF Inductive, Leads
<1>3. Standing'
  BY <1>1 DEF Gone, Returns, Inductive, Standing, Simulated
<1>4. TypeOK'
  BY <1>1 DEF Inductive, TypeOK
<1> QED
  BY <1>1, <1>2, <1>3, <1>4 DEF Inductive

LEMMA StepsKeepIt == Inductive /\ [Next]_vars => Inductive'
<1> SUFFICES ASSUME Inductive, [Next]_vars PROVE Inductive'
  OBVIOUS
<1>1. CASE UNCHANGED vars
  BY <1>1 DEF vars, making, walk, Inductive, TypeOK, Leads, Standing, Simulated
<1>2. CASE Chooses
  <2>1. Pressed \subseteq Keys
    BY DEF Pressed, Keys
  <2> QED
    BY <1>2, <2>1, PressesStep, RefusesStep, LeavesStep DEF Chooses
<1> QED
  BY <1>1, <1>2, MakingStep, FurnishesStep, NarratesStep, LeavesStep DEF Next

LEMMA Invariance == Spec => []Inductive
<1> QED
  BY Initially, StepsKeepIt, PTL DEF Spec

(* The Walk that core.flow records - its keys, its rooms, its ending - is  *)
(* the one the walker took.                                                *)
THEOREM TheWalkIsTheirs == Spec => []WalkIsTheirs
<1>1. Inductive => WalkIsTheirs
  <2> SUFFICES ASSUME Inductive, at # "making" PROVE WalkIsTheirs
    BY DEF WalkIsTheirs
  <2>1. TypeOK /\ Leads /\ Standing
    BY DEF Inductive
  <2>2. outcome # "none" => at \in {"setvar", "bye"}
    BY <2>1 DEF Standing
  <2> QED
    BY <2>1, <2>2 DEF WalkIsTheirs, Leads, Standing
<1> QED
  BY <1>1, Invariance, PTL

(* There are more nodes than rooms made: were every door but the first     *)
(* key's taken with it, two of them would be in one pair.                  *)
LEMMA ADoorIsLeft ==
  ASSUME NEW d \in Doors, tree \in Seq(Doors \X Doors), Len(tree) < Rooms
  PROVE  \E door \in Doors : Fresh(<<d, door>>)
<1> DEFINE Others == Doors \ {d}
           made   == 1..Len(tree)
           Taken  == {i \in made : tree[i][1] = d /\ tree[i][2] \in Others}
           f      == [i \in Taken |-> tree[i][2]]
<1>1. Len(tree) \in Nat /\ Doors = 0..Rooms
  BY LenProperties DEF Doors, Leaf
<1>2. IsFiniteSet(Others) /\ Cardinality(Others) = Rooms
  <2>1. IsFiniteSet(0..Rooms) /\ Cardinality(0..Rooms) = Rooms + 1
    BY FS_Interval
  <2>2. IsFiniteSet(Doors) /\ Cardinality(Doors) = Rooms + 1
    BY <1>1, <2>1
  <2>3. IsFiniteSet(Doors \ {d}) /\ Cardinality(Doors \ {d}) = Cardinality(Doors) - 1
    BY <2>2, FS_RemoveElement
  <2> QED
    BY <2>2, <2>3
<1>3. IsFiniteSet(Taken) /\ Cardinality(Taken) <= Len(tree)
  <2>1. IsFiniteSet(made) /\ Cardinality(made) = Len(tree)
    <3>1. IsFiniteSet(1..Len(tree))
          /\ Cardinality(1..Len(tree)) = IF 1 > Len(tree) THEN 0 ELSE Len(tree) - 1 + 1
      <4>1. 1 \in Int /\ Len(tree) \in Int
        BY <1>1
      <4> QED
        BY <4>1, FS_Interval
    <3> QED
      BY <1>1, <3>1
  <2>2. Taken \in SUBSET made
    OBVIOUS
  <2> HIDE DEF Taken, made
  <2> QED
    BY <2>1, <2>2, FS_Subset
<1>4. SUFFICES ASSUME \A door \in Doors : ~Fresh(<<d, door>>) PROVE FALSE
  OBVIOUS
<1>5. f \in Surjection(Taken, Others)
  <2>1. f \in [Taken -> Others]
    OBVIOUS
  <2>2. ASSUME NEW door \in Others PROVE \E i \in Taken : f[i] = door
    <3>1. <<d, door>> \in Used
      BY <1>4 DEF Fresh
    <3>2. PICK i \in 1..Len(tree) : tree[i] = <<d, door>>
      BY <3>1 DEF Used
    <3> QED
      BY <3>2
  <2> QED
    BY <2>1, <2>2 DEF Surjection
<1>6. Cardinality(Others) <= Cardinality(Taken)
  <2> HIDE DEF f, Taken, Others
  <2> QED
    BY <1>3, <1>5, FS_Surjection
<1>7. Cardinality(Taken) \in Nat
  <2> HIDE DEF Taken
  <2> QED
    BY <1>3, FS_CardinalityType
<1> QED
  BY <1>1, <1>2, <1>3, <1>6, <1>7

(* make_tree: the redrawing of a pair can always end, however many rooms   *)
(* the maze is to have.                                                    *)
THEOREM RedrawingCanEnd == Spec => []AFreshDoorIsLeft
<1>1. Inductive => AFreshDoorIsLeft
  <2> SUFFICES ASSUME Inductive, at = "making", pair # <<>>
               PROVE  \E door \in Doors : Fresh(<<pair[1], door>>)
    BY DEF AFreshDoorIsLeft
  <2>1. pair[1] \in Doors /\ tree \in Seq(Doors \X Doors) /\ Len(tree) < Rooms
    BY DEF Inductive, TypeOK
  <2> QED
    BY <2>1, ADoorIsLeft
<1> QED
  BY <1>1, Invariance, PTL

-----------------------------------------------------------------------------
(* The walk, step by step as GameFlow plays it.                            *)

(* Making the tree is nothing GameFlow knows of, until it is done. *)
LEMMA MakingPlays ==
  ASSUME Inductive, Draws \/ (\E door \in Doors : Redraws(door)) \/ Furnishes
  PROVE  AsFlow' = AsFlow \/ AsFlow' \in After(AsFlow, "silence")
<1>1. UNCHANGED <<path, refused, outcome>> /\ at = "making"
  BY DEF Draws, Redraws, Furnishes, walk
<1>2. CASE at' = at
  BY <1>1, <1>2 DEF AsFlow, NewFlow
<1>3. CASE at' # at
  <2>1. at' = "room"
    BY <1>3 DEF Draws, Redraws, Furnishes, walk
  <2>2. AsFlow' = [AsFlow EXCEPT !.at = "room"]
    BY <1>1, <2>1 DEF AsFlow, NewFlow
  <2> QED
    BY <1>1, <2>2 DEF AsFlow, NewFlow, After, Opening
<1> QED
  BY <1>2, <1>3

LEMMA NarratesPlays ==
  ASSUME Inductive, Narrates
  PROVE  AsFlow' \in After(AsFlow, "silence")
<1>1. at \in {"room", "leaf"} /\ UNCHANGED <<path, refused, outcome>>
  BY DEF Narrates
<1>2. AsFlow' = [AsFlow EXCEPT !.at = at'] /\ AsFlow.at = at /\ AsFlow.tally = Len(path)
  BY <1>1 DEF Narrates, AsFlow, NewFlow
<1> QED
  BY <1>1, <1>2 DEF Narrates, After, Narrated

LEMMA PressesPlays ==
  ASSUME Inductive, NEW key \in Keys, Presses(key)
  PROVE  AsFlow' \in After(AsFlow, "right")
<1>1. /\ at = "choose" /\ at' \in {"room", "leaf"} /\ refused' = 0 /\ outcome' = outcome
      /\ Len(path') = Len(path) + 1
  <2>1. path \in Seq(Keys)
    BY DEF Inductive, TypeOK
  <2> QED
    BY <2>1 DEF Presses
<1>2. /\ AsFlow' = [AsFlow EXCEPT !.at = at', !.tally = Len(path) + 1, !.refused = 0]
      /\ AsFlow.at = "choose" /\ AsFlow.tally = Len(path)
  BY <1>1 DEF AsFlow, NewFlow
<1> QED
  BY <1>1, <1>2 DEF After, Choose, Arrive

LEMMA RefusesPlays ==
  ASSUME Inductive, Refuses
  PROVE  AsFlow' \in After(AsFlow, "wrong")
<1>1. /\ at = "choose" /\ at' = "room" /\ refused' = refused + 1
      /\ refused + 1 < RefusedKeysBeforeGone /\ UNCHANGED <<path, outcome>>
  BY DEF Refuses
<1>2. /\ AsFlow' = [AsFlow EXCEPT !.at = "room", !.refused = @ + 1]
      /\ AsFlow.at = "choose" /\ AsFlow.refused = refused
  BY <1>1 DEF AsFlow, NewFlow
<1> QED
  BY <1>1, <1>2 DEF After, Choose

LEMMA LeavesPlays ==
  ASSUME Inductive, Gone \/ Returns
  PROVE  AsFlow' \in After(AsFlow, "silence")
<1>1. UNCHANGED <<path, refused>> /\ at \in {"choose", "code", "lost"}
  BY DEF Gone, Returns
<1>2. AsFlow' = [AsFlow EXCEPT !.at = at', !.outcome = outcome'] /\ AsFlow.at = at
  BY <1>1 DEF Gone, Returns, AsFlow, NewFlow
<1>3. AsFlow' = [AsFlow EXCEPT !.at = at', !.outcome = outcome', !.tally = AsFlow.tally]
  BY <1>2 DEF AsFlow, NewFlow
<1> QED
  BY <1>1, <1>2, <1>3 DEF Gone, Returns, After, Choose, CallerLeft

(* GameFlow leaves out nothing a maze can do: every step of a walk is one  *)
(* of its steps, whatever tree was drawn.                                  *)
THEOREM MazePlaysTheFlow == Spec => PlaysTheFlow
<1>1. ASSUME Inductive, Next
      PROVE  AsFlow' = AsFlow \/ \E heard \in Answers : AsFlow' \in After(AsFlow, heard)
  <2>1. Pressed \subseteq Keys
    BY DEF Pressed, Keys
  <2> QED
    BY <1>1, <2>1, MakingPlays, NarratesPlays, PressesPlays, RefusesPlays, LeavesPlays
       DEF Next, Chooses, Answers
<1>2. Inductive /\ [Next]_vars
        => [\E heard \in Answers : AsFlow' \in After(AsFlow, heard)]_AsFlow
  <2>1. UNCHANGED vars => AsFlow' = AsFlow
    BY DEF vars, walk, AsFlow, NewFlow
  <2> QED
    BY <1>1, <2>1
<1> QED
  BY <1>2, Invariance, PTL DEF Spec, PlaysTheFlow
=============================================================================
