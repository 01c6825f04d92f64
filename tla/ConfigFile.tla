----------------------------- MODULE ConfigFile -----------------------------
(***************************************************************************)
(* Global Config (core/config.py) as data: what config/mode.json may hold, *)
(* what an update changes of it, and the Config Snapshot a call takes.     *)
(*                                                                         *)
(* The Attempt Limit, the upstream extension and the keys the booth does   *)
(* not know are one field, rest.                                           *)
(***************************************************************************)
CONSTANTS Modes, DefaultMode,   (* VALID_MODES, DEFAULT_MODE                       *)
          Codes, DefaultCode,   (* DEFAULT_CODE                                    *)
          Rests, Wrong,         (* the other keys; those with a value int() refuses *)
          Unknown,              (* a mode that nothing can play                    *)
          Unset,                (* no such key                                     *)
          Garbage,              (* not a JSON object                               *)
          Nothing, Failed, Spent

ASSUME ConfigAssumption ==
  /\ DefaultMode \in Modes /\ DefaultCode \in Codes /\ Wrong \subseteq Rests
  /\ Unknown \notin Modes /\ Unset \notin Modes \cup Codes \cup {Unknown}

Config    == [mode : Modes \cup {Unknown, Unset}, code : Codes \cup {Unset}, rest : Rests]
Snapshots == [mode : Modes, code : Codes, rest : Rests \ Wrong]

ASSUME ContentAssumption ==
  /\ Garbage \notin Config /\ Nothing \notin Config \cup Snapshots \cup {Failed, Spent}
  /\ Failed \notin Snapshots /\ Spent \notin Config \cup {Garbage}

(* update_code, update_mode and update_mode_and_code: the keys they name. *)
Updates == [mode : Modes \cup {Unknown, Unset}, code : Codes \cup {Unset}]

(* _valid_mode. *)
Valid(f) == f.mode # Unknown

Or(value, otherwise) == IF value = Unset THEN otherwise ELSE value

(* _update: {**read_raw(config_path), **fields}. *)
Merged(c, f) == [c EXCEPT !.mode = Or(f.mode, @), !.code = Or(f.code, @)]

(* read_raw, from_mapping and __post_init__, of what a file holds: it may  *)
(* be no object, name a mode nothing plays, or hold a value int() refuses. *)
TakeSnapshot(held) ==
  IF held \in Config /\ held.mode # Unknown /\ held.rest \notin Wrong
    THEN [held EXCEPT !.mode = Or(@, DefaultMode), !.code = Or(@, DefaultCode)]
    ELSE Failed
=============================================================================
