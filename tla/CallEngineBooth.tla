--------------------------- MODULE CallEngineBooth ---------------------------
(***************************************************************************)
(* CallEngine implements Booth: the Operator's view of the booth is what   *)
(* is left of the engine when its loop, threads and wires are hidden.      *)
(***************************************************************************)
EXTENDS CallEngine

BoothLine ==
  [c \in Calls |-> CASE Live(c) -> "live" [] Over(c) -> "over" [] OTHER -> "waiting"]

BoothEnding  == [c \in Calls |-> session[c].outcome]
BoothHistory == {<<r.call, r.outcome>> : r \in store}

B == INSTANCE Booth WITH
       Endings <- Outcomes \ {"none"},
       line    <- BoothLine,
       ending  <- BoothEnding,
       shown   <- active,
       history <- BoothHistory

(* One call at a time, each with one ending, shown and written down as it  *)
(* ended, whatever the threads, the sockets and the callers do; and every  *)
(* call picked up ends and leaves the Console.                             *)
ImplementsBooth == B!Spec
=============================================================================
