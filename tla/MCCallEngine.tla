---------------------------- MODULE MCCallEngine ----------------------------
(***************************************************************************)
(* Small instances of CallEngine for TLC: the Config Snapshots a pickup    *)
(* may find, and the perils a run allows.                                  *)
(***************************************************************************)
EXTENDS CallEngineClaims, CallEngineInvariant, TLC

Snapshots(modes, limits) == [mode : modes, limit : limits]

EveryGame      == Snapshots(Modes, {0, 1, 2})   \* attempt_limit 0 is a legal mode.json
Tweeted        == Snapshots({"tweeted"}, {1})
TweetedTwice   == Snapshots({"tweeted"}, {2})
Riddle         == Snapshots({"puzzle"}, {1})

NoPerils       == {}
EveryPeril     == AllPerils
EnginePerils   == {"rest", "socket"}
GamePerils     == {"config", "thread", "store"}
JustStop       == {"stop"}

Interchangeable == Permutations(Calls)
=============================================================================
