-------------------------------- MODULE Booth --------------------------------
(***************************************************************************)
(* What the Call Engine promises the Operator, with no event loop, thread, *)
(* socket or PBX in it: one booth, one call at a time, an ending for every *)
(* call, and one line in the history that says how it ended.  The Console  *)
(* shows the live call, then - for a while - the one that just ended.      *)
(*                                                                         *)
(* The sources are the statements of CONTEXT.md ("Calls that end on an     *)
(* engine exception", the afterglow) and of call_engine.py's docstrings;   *)
(* CallEngineBooth shows that CallEngine implements this module.           *)
(***************************************************************************)
CONSTANTS Calls, NoCall, Endings

VARIABLES line,     \* each call: not picked up, live, or over
          ending,   \* how each call ended
          shown,    \* the call on the Console, or NoCall
          history   \* the calls written down, with their endings

vars == <<line, ending, shown, history>>

NoEnding == "none"

TypeOK ==
  /\ line \in [Calls -> {"waiting", "live", "over"}]
  /\ ending \in [Calls -> Endings \cup {NoEnding}]
  /\ shown \in Calls \cup {NoCall}
  /\ history \in SUBSET (Calls \X Endings)

Init ==
  /\ line = [c \in Calls |-> "waiting"]
  /\ ending = [c \in Calls |-> NoEnding]
  /\ shown = NoCall
  /\ history = {}

(* The slot is free as soon as the last call is over; the newcomer takes   *)
(* the Console over from it.                                               *)
PickUp(c) ==
  /\ line[c] = "waiting"
  /\ \A d \in Calls : line[d] # "live"
  /\ line' = [line EXCEPT ![c] = "live"]
  /\ shown' = c
  /\ UNCHANGED <<ending, history>>

(* A call ends once, one way, in view of the Operator. *)
End(c) ==
  /\ line[c] = "live"
  /\ shown = c
  /\ line' = [line EXCEPT ![c] = "over"]
  /\ \E e \in Endings : ending' = [ending EXCEPT ![c] = e]
  /\ UNCHANGED <<shown, history>>

(* The Console lets go of a call that is over, never of a live one. *)
LetGo(c) == shown' = IF shown = c THEN NoCall ELSE shown

(* The call is written down as it ended - unless nobody could have been    *)
(* playing, or the store failed - and may leave the Console with that.     *)
Record(c) ==
  /\ line[c] = "over"
  /\ history' = history \cup {<<c, ending[c]>>}
  /\ LetGo(c) \/ UNCHANGED shown
  /\ UNCHANGED <<line, ending>>

Fade(c) ==
  /\ line[c] = "over"
  /\ LetGo(c)
  /\ UNCHANGED <<line, ending, history>>

Next == \E c \in Calls : PickUp(c) \/ End(c) \/ Record(c) \/ Fade(c)

(* A call that is live comes to an end, and one that is over leaves view.  *)
Spec ==
  /\ Init /\ [][Next]_vars
  /\ \A c \in Calls : WF_vars(End(c)) /\ WF_vars(Fade(c))
=============================================================================
