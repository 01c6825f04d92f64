-------------------------- MODULE CallEngineClaims --------------------------
(***************************************************************************)
(* What the repository's documents, comments and docstrings say of the     *)
(* Call Engine and the code does not do.  Each is checked by a run that    *)
(* exhibits the disagreement, and listed in the README.                    *)
(***************************************************************************)
EXTENDS CallEngineBooth

(* CONTEXT.md: "A caller who hung up is stored as `hangup`", and `dropped` *)
(* is "an engine failure with the caller still on the line".  With no      *)
(* failure of the engine possible, then, no call is ever dropped.          *)
DroppedIsOurFault == \A c \in Calls : session[c].state # "dropped"

(* call_engine.py, aclose: "Let the active call finish, then close the ARI *)
(* connection".                                                            *)
ActiveCallFinishes == phase = "closed" => \A c \in Calls : ~Live(c)
=============================================================================
