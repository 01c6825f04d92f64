--------------------------- MODULE MCGlobalConfig ---------------------------
(* Small instances of GlobalConfig: what is installed, asked for, set and  *)
(* typed.                                                                  *)
EXTENDS GlobalConfig

CONSTANTS tweeted, puzzle, zeros, code, plain, notANumber

MCInstalled == {[mode |-> tweeted, code |-> zeros, rest |-> plain],
                [mode |-> Unset, code |-> zeros, rest |-> plain]}
MCAsked == {[mode |-> Unset, code |-> code], [mode |-> puzzle, code |-> Unset],
            [mode |-> puzzle, code |-> code], [mode |-> Unknown, code |-> Unset]}
MCSet   == {[mode |-> puzzle, code |-> zeros, rest |-> plain]}
MCTyped == {Garbage, [mode |-> Unknown, code |-> zeros, rest |-> plain],
            [mode |-> puzzle, code |-> code, rest |-> notANumber]}
=============================================================================
