-------------------------------- MODULE Maze --------------------------------
(***************************************************************************)
(* core/mode_roguelike.py in full: the generation of a tree and one walk   *)
(* of it, by a caller or by the simulated walker of core/headless.py.      *)
(* GameFlow knows the same walk without its tree.                          *)
(***************************************************************************)
EXTENDS GameFlow, Sequences

CONSTANT Rooms   (* make_tree: num_interior *)

ASSUME RoomsAssumption == Rooms \in Nat \ {0}

VARIABLES
  tree,     \* the rooms made so far, each the pair of nodes its keys lead to
  pair,     \* the pair drawn for the next room; <<>> before it is drawn
  walker,   \* who presses the keys
  at,       \* what the walker hears or is asked
  idx, path, visited, refused,   \* as in handle
  outcome   \* of the Walk

making == <<tree, pair>>
walk   == <<at, idx, path, visited, refused, outcome>>
vars   == <<making, walker, walk>>

(* Rooms are nodes 0, 1, ...; the last node is the leaf. *)
Leaf  == Rooms
Keys  == 1..2

(* Mutant: the leaf is not among the doors. *)
Doors_Inside == 0..Leaf - 1
Doors == 0..Leaf

(* headless.py: a strategy never refuses a key nor falls silent. *)
Walkers   == {"caller", "random", "first"}
Simulated == walker # "caller"
Pressed   == IF walker = "first" THEN {1} ELSE Keys

TypeOK ==
  /\ tree \in Seq(Doors \X Doors) /\ Len(tree) <= Rooms
  /\ pair \in (Doors \X Doors) \cup {<<>>}
  /\ walker \in Walkers
  /\ at \in {"making", "room", "leaf", "choose", "code", "lost", "setvar", "bye"}
  /\ idx \in Doors /\ path \in Seq(Keys) /\ visited \in Seq(Doors)
  /\ refused \in Nat
  /\ outcome \in FlowOutcomes

Init ==
  /\ tree = <<>> /\ pair = <<>>
  /\ walker \in Walkers
  /\ at = "making" /\ idx = 0 /\ path = <<>> /\ visited = <<>>
  /\ refused = 0 /\ outcome = "none"

-----------------------------------------------------------------------------
(* make_tree.                                                              *)

Used == {tree[i] : i \in 1..Len(tree)}

(* A room whose keys lead apart, and not where another room's lead. *)
Fresh(p) == p[1] # p[2] /\ p \notin Used

Draws ==
  /\ at = "making" /\ pair = <<>>
  /\ pair' \in Doors \X Doors
  /\ UNCHANGED <<tree, walker, walk>>

Redraws(door) ==
  /\ at = "making" /\ pair # <<>> /\ ~Fresh(pair)
  /\ pair' = <<pair[1], door>>
  /\ UNCHANGED <<tree, walker, walk>>

(* With the last room the tree is done, and its first room is entered.     *)
Furnishes ==
  /\ at = "making" /\ pair # <<>> /\ Fresh(pair)
  /\ tree' = Append(tree, pair) /\ pair' = <<>>
  /\ IF Len(tree) + 1 = Rooms
       THEN at' = "room" /\ visited' = <<0>>
       ELSE UNCHANGED <<at, visited>>
  /\ UNCHANGED <<walker, idx, path, refused, outcome>>

-----------------------------------------------------------------------------
(* handle.                                                                 *)

(* A room has been narrated, and only then is the bound tested; at the     *)
(* leaf, the Code is read out.                                             *)
Narrates ==
  /\ \/ at = "room" /\ at' = IF Len(path) >= WalkBound THEN "lost" ELSE "choose"
     \/ at = "leaf" /\ at' = "code"
  /\ UNCHANGED <<making, walker, idx, path, visited, refused, outcome>>

(* Mutant: the Refused Keys of the rooms before are held against the caller.*)
Presses_Unforgiven(key) ==
  /\ at = "choose"
  /\ path' = Append(path, key)
  /\ idx' = tree[idx + 1][key]
  /\ at' = IF idx' = Leaf THEN "leaf" ELSE "room"
  /\ visited' = Append(visited, idx')
  /\ UNCHANGED <<making, walker, outcome, refused>>

Presses(key) ==
  /\ at = "choose"
  /\ path' = Append(path, key)
  /\ idx' = tree[idx + 1][key]
  /\ at' = IF idx' = Leaf THEN "leaf" ELSE "room"
  /\ visited' = Append(visited, idx')
  /\ refused' = 0
  /\ UNCHANGED <<making, walker, outcome>>

(* Mutant: the room that is replayed is entered again. *)
Refuses_Arrives ==
  /\ at = "choose" /\ ~Simulated /\ refused + 1 < RefusedKeysBeforeGone
  /\ at' = "room" /\ refused' = refused + 1
  /\ visited' = Append(visited, idx)
  /\ UNCHANGED <<making, walker, idx, path, outcome>>

(* The room is replayed, but not entered again. *)
Refuses ==
  /\ at = "choose" /\ ~Simulated /\ refused + 1 < RefusedKeysBeforeGone
  /\ at' = "room" /\ refused' = refused + 1
  /\ UNCHANGED <<making, walker, idx, path, visited, outcome>>

(* Silence, or one Refused Key too many: the caller has gone. *)
Gone ==
  /\ at = "choose" /\ ~Simulated
  /\ at' = "bye" /\ outcome' = "hangup"
  /\ UNCHANGED <<making, walker, idx, path, visited, refused>>

(* The Code, or the Exile text, has been spoken and the walk is over:      *)
(* run_roguelike takes it from there.                                      *)
Returns ==
  /\ \/ at = "code" /\ at' = "setvar" /\ outcome' = "succeed"
     \/ at = "lost" /\ at' = "bye" /\ outcome' = "exile"
  /\ UNCHANGED <<making, walker, idx, path, visited, refused>>

Chooses == (\E key \in Pressed : Presses(key)) \/ Refuses \/ Gone

Next == \/ Draws \/ (\E door \in Doors : Redraws(door)) \/ Furnishes
        \/ Narrates \/ Chooses \/ Returns

Spec == Init /\ [][Next]_vars

(* Every value of randint comes up in the end; a command that speaks or    *)
(* reads returns.                                                          *)
FairSpec ==
  /\ Spec
  /\ WF_vars(Draws) /\ WF_vars(Furnishes)
  /\ \A door \in Doors : WF_vars(Redraws(door))
  /\ WF_vars(Narrates) /\ WF_vars(Chooses) /\ WF_vars(Returns)

-----------------------------------------------------------------------------
(* _walk_played, "the caller's own keys and rooms": whatever was replayed, *)
(* refused or cut short, the keys lead in this tree from its first room    *)
(* through the rooms recorded, and the ending is that of the last of them. *)
WalkIsTheirs ==
  at # "making" =>
    /\ Len(visited) = Len(path) + 1 /\ visited[1] = 0 /\ idx = visited[Len(visited)]
    /\ \A i \in 1..Len(path) :
         visited[i] < Leaf /\ visited[i + 1] = tree[visited[i] + 1][path[i]]
    /\ Len(path) <= WalkBound
    /\ outcome = "succeed" => idx = Leaf
    /\ outcome = "exile" => idx # Leaf /\ Len(path) = WalkBound
    /\ outcome = "hangup" => idx # Leaf /\ Len(path) < WalkBound /\ ~Simulated

(* make_tree: whatever the first key was drawn to lead to and whichever    *)
(* pairs are used, some door still makes the pair Fresh: the redrawing can *)
(* always end.                                                             *)
AFreshDoorIsLeft ==
  at = "making" /\ pair # <<>> => \E door \in Doors : Fresh(<<pair[1], door>>)

(* The walk as GameFlow has it. *)
AsFlow == [NewFlow("roguelike", 0) EXCEPT
             !.at = IF at = "making" THEN "start" ELSE at,
             !.tally = Len(path), !.refused = refused, !.outcome = outcome]

(* Whatever the tree, its walk is one of those that CallEngine is checked  *)
(* with: GameFlow leaves out nothing that the maze can do.                 *)
PlaysTheFlow == [][\E heard \in Answers : AsFlow' \in After(AsFlow, heard)]_AsFlow

(* mode_roguelike: no draw repeats for ever, and no walk outlives its      *)
(* bounds, whoever walks.                                                  *)
MazeEnds == <>(at \in {"setvar", "bye"})
=============================================================================
