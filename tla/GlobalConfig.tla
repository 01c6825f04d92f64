---------------------------- MODULE GlobalConfig ----------------------------
(***************************************************************************)
(* core/config.py, core/code_manager.py and tools/rotate.py: one file that *)
(* several processes read and replace, with nothing but the file system    *)
(* between them.                                                           *)
(*                                                                         *)
(* Each update, write, hand edit and snapshot is a task that runs once, in *)
(* a process of its own for all the file system knows; an action is one    *)
(* step of it that the others can tell.  A task that writes makes one file *)
(* and the file has its task's name.                                       *)
(***************************************************************************)
EXTENDS ConfigFile

CONSTANTS Updaters,      (* calls of update_code, update_mode, update_mode_and_code   *)
          Setters,       (* calls of write_config with a whole config: the Fake PBX's *)
          Editors,       (* the operator's edits by hand                              *)
          Readers,       (* calls of take_snapshot: pickups, the Console              *)
          Original,      (* the file the booth came with, if any                      *)
          Installed,     (* bounds: what it may hold,                                *)
          Asked, Set, Typed  (* and what Updaters, Setters and Editors may write      *)

Writers == Updaters \cup Setters
Tasks   == Writers \cup Readers
Files   == Writers \cup Editors \cup {Original}

ASSUME TaskAssumption ==
  /\ Updaters \cap Setters = {} /\ Writers \cap Readers = {}
  /\ (Writers \cup Readers) \cap Editors = {} /\ Original \notin Writers \cup Editors
  /\ Nothing \notin Files
  /\ Installed \subseteq Config /\ Asked \subseteq Updates
  /\ Set \subseteq Config /\ Typed \subseteq Config \cup {Garbage}

VARIABLES
  path,      \* the file config/mode.json names, or Nothing
  held,      \* what each file holds
  private,   \* the files that only their owner may read: mkstemp's 0600
  temps,     \* the files there is a temporary name for
  step,      \* where each task is
  opened,    \* the file each task has opened to read
  fields,    \* the keys each update names
  draft,     \* the config each update or write is to write
  snapshot   \* what each take_snapshot has returned, or raised

files == <<path, held, private, temps>>
vars  == <<files, step, opened, fields, draft, snapshot>>

(* A file that is being written is empty, or half there. *)
Torn == Spent

Writing == {"writing", "written", "ready", "unwinding"}
Ended   == {"done", "failed", "littered", "crashed"}
Steps   == {"idle", "opening", "opened", "drafted"} \cup Writing \cup Ended

TypeOK ==
  /\ path \in Files \cup {Nothing}
  /\ held \in [Files -> Config \cup {Garbage, Torn}]
  /\ private \subseteq Writers /\ temps \subseteq Writers
  /\ step \in [Tasks \cup Editors -> Steps]
  /\ opened \in [Tasks -> Files \cup {Nothing}]
  /\ fields \in [Writers -> Updates]
  /\ draft \in [Writers -> Config \cup {Nothing}]
  /\ snapshot \in [Readers -> Snapshots \cup {Nothing, Failed}]

Init ==
  /\ path \in {Original, Nothing}
  /\ \E c \in Installed : held = [f \in Files |-> IF f = Original THEN c ELSE Torn]
  /\ private = {} /\ temps = {}
  /\ step = [t \in Tasks \cup Editors |-> "idle"]
  /\ opened = [t \in Tasks |-> Nothing]
  /\ fields = [w \in Writers |-> [mode |-> Unset, code |-> Unset]]
  /\ draft = [w \in Writers |-> Nothing]
  /\ snapshot = [r \in Readers |-> Nothing]

Goes(t, from, to) == step[t] = from /\ step' = [step EXCEPT ![t] = to]

-----------------------------------------------------------------------------
(* read_text: open, and read what was opened, whatever the path names by   *)
(* then.                                                                   *)

Start(t) == IF t \in Readers THEN "idle" ELSE "opening"

Opens(t) ==
  /\ path # Nothing
  /\ Goes(t, Start(t), "opened")
  /\ opened' = [opened EXCEPT ![t] = path]
  /\ UNCHANGED <<files, fields, draft, snapshot>>

(* There is no file, or it cannot be read: nothing has been touched.       *)
OpenFails(t) ==
  /\ step[t] \in {Start(t), "opened"}
  /\ step' = [step EXCEPT ![t] = "failed"]
  /\ snapshot' = [r \in Readers |-> IF r = t THEN Failed ELSE snapshot[r]]
  /\ UNCHANGED <<files, opened, fields, draft>>

(* Mutant: the file is opened again for the code. *)
Takes_Twice(r) ==
  /\ Goes(r, "opened", "done")
  /\ LET one == TakeSnapshot(held[opened[r]])
         two == TakeSnapshot(held[path]) IN
     snapshot' = [snapshot EXCEPT ![r] =
       IF one # Failed /\ two # Failed THEN [one EXCEPT !.code = two.code] ELSE Failed]
  /\ UNCHANGED <<files, opened, fields, draft>>

(* take_snapshot, at pickup or for the Console. *)
Takes(r) ==
  /\ Goes(r, "opened", "done")
  /\ snapshot' = [snapshot EXCEPT ![r] = TakeSnapshot(held[opened[r]])]
  /\ UNCHANGED <<files, opened, fields, draft>>

-----------------------------------------------------------------------------
(* code_manager.                                                           *)

Asks(w) ==
  /\ \E f \in Asked :
       /\ Goes(w, "idle", IF Valid(f) THEN "opening" ELSE "failed")
       /\ fields' = [fields EXCEPT ![w] = f]
  /\ UNCHANGED <<files, opened, draft, snapshot>>

(* Mutant: the update starts from a snapshot, defaults and all. *)
Merges_Snapshot(w) ==
  LET base == TakeSnapshot(held[opened[w]]) IN
  /\ Goes(w, "opened", IF base # Failed THEN "drafted" ELSE "failed")
  /\ draft' = [draft EXCEPT ![w] = IF base # Failed THEN Merged(base, fields[w]) ELSE @]
  /\ UNCHANGED <<files, opened, fields, snapshot>>

Merges(w) ==
  /\ Goes(w, "opened", IF held[opened[w]] \in Config THEN "drafted" ELSE "failed")
  /\ draft' = [draft EXCEPT ![w] = IF held[opened[w]] \in Config
                                     THEN Merged(held[opened[w]], fields[w]) ELSE @]
  /\ UNCHANGED <<files, opened, fields, snapshot>>

(* write_config called with a whole config. *)
Sets(w) ==
  /\ Goes(w, "idle", "drafted")
  /\ \E c \in Set : draft' = [draft EXCEPT ![w] = c]
  /\ UNCHANGED <<files, opened, fields, snapshot>>

-----------------------------------------------------------------------------
(* write_config.                                                           *)

(* Mutant: the file there is is truncated. *)
Makes_InPlace(w) ==
  /\ Goes(w, "drafted", "writing")
  /\ temps' = temps \cup {w} /\ private' = private \cup {w}
  /\ held' = [f \in Files |-> IF f = path THEN Torn ELSE held[f]]
  /\ UNCHANGED <<path, opened, fields, draft, snapshot>>

Makes(w) ==
  /\ Goes(w, "drafted", "writing")
  /\ temps' = temps \cup {w} /\ private' = private \cup {w}
  /\ UNCHANGED <<path, held, opened, fields, draft, snapshot>>

(* mkdir or mkstemp, before the try. *)
MakeFails(w) ==
  /\ Goes(w, "drafted", "failed")
  /\ UNCHANGED <<files, opened, fields, draft, snapshot>>

Writes(w) ==
  /\ Goes(w, "writing", "written")
  /\ held' = [held EXCEPT ![w] = draft[w]]
  /\ UNCHANGED <<path, private, temps, opened, fields, draft, snapshot>>

(* _permissions_for: those of the file there is, or a new file's. *)
Chmods(w) ==
  /\ Goes(w, "written", "ready")
  /\ private' = IF path \in private THEN private \cup {w} ELSE private \ {w}
  /\ UNCHANGED <<path, held, temps, opened, fields, draft, snapshot>>

Replaces(w) ==
  /\ Goes(w, "ready", "done")
  /\ path' = w /\ temps' = temps \ {w}
  /\ UNCHANGED <<held, private, opened, fields, draft, snapshot>>

(* Mutant: an exception of another kind is not caught. *)
Raises_Uncaught(w) ==
  /\ step[w] \in {"writing", "written", "ready"}
  /\ step' = [step EXCEPT ![w] = "failed"]
  /\ UNCHANGED <<files, opened, fields, draft, snapshot>>

(* BaseException, in any of the three. *)
Raises(w) ==
  /\ step[w] \in {"writing", "written", "ready"}
  /\ step' = [step EXCEPT ![w] = "unwinding"]
  /\ UNCHANGED <<files, opened, fields, draft, snapshot>>

Unlinks(w) ==
  /\ Goes(w, "unwinding", "failed")
  /\ temps' = temps \ {w}
  /\ UNCHANGED <<path, held, private, opened, fields, draft, snapshot>>

(* The OSError of the unlink is passed over, and the file stays. *)
UnlinkFails(w) ==
  /\ Goes(w, "unwinding", "littered")
  /\ UNCHANGED <<files, opened, fields, draft, snapshot>>

-----------------------------------------------------------------------------
(* The operator's editor saves as it should, by a rename (external).       *)
Edits(e) ==
  /\ Goes(e, "idle", "done")
  /\ \E x \in Typed : held' = [held EXCEPT ![e] = x]
  /\ path' = e
  /\ UNCHANGED <<private, temps, opened, fields, draft, snapshot>>

(* The process is killed (external).  Every other task goes on. *)
Crashes(t) ==
  /\ step[t] \notin Ended
  /\ step' = [step EXCEPT ![t] = "crashed"]
  /\ UNCHANGED <<files, opened, fields, draft, snapshot>>

Next ==
  \/ \E t \in Readers \cup Updaters : Opens(t) \/ OpenFails(t)
  \/ \E r \in Readers : Takes(r)
  \/ \E w \in Updaters : Asks(w) \/ Merges(w)
  \/ \E w \in Setters : Sets(w)
  \/ \E w \in Writers : \/ Makes(w) \/ MakeFails(w) \/ Writes(w) \/ Chmods(w)
                        \/ Replaces(w) \/ Raises(w) \/ Unlinks(w) \/ UnlinkFails(w)
  \/ \E e \in Editors : Edits(e)
  \/ \E t \in Tasks : Crashes(t)

Spec == Init /\ [][Next]_vars

-----------------------------------------------------------------------------
(* write_config: a reader "sees either the whole old file or the whole new *)
(* one", of whoever writes and wherever a process dies: mode.json and what *)
(* a task has opened of it are whole, and the engine's account may read it.*)
WholeFiles ==
  /\ path # Nothing => held[path] # Torn /\ path \notin private
  /\ \A t \in Tasks : opened[t] # Nothing => held[opened[t]] # Torn

(* write_config's except: a write that raised before its rename has        *)
(* published nothing, and left no litter that could be removed; only a     *)
(* task still at it, killed, or refused the unlink has a temp file.        *)
NoLitter ==
  \A w \in Writers :
    /\ w \in temps => step[w] \in Writing \cup {"littered", "crashed"}
    /\ step[w] \in Ended \ {"done"} => path # w

(* _update when nobody has written since it read: the file that is         *)
(* replaced and its replacement differ in the keys the update names.       *)
AloneKeepsRest ==
  [][\A w \in Updaters :
       path' = w /\ path = opened[w] /\ path # w =>
         held[path] \in Config /\ held'[w] = Merged(held[path], fields[w])]_vars

(* The register: an update or a write is in it from when its file has been *)
(* read until the rename, and a snapshot is of the moment of the open.     *)
Drafting(w) ==
  CASE step[w] \in {"idle", "opening"} -> Nothing
    [] step[w] = "opened" -> IF held[opened[w]] \in Config
                               THEN Merged(held[opened[w]], fields[w]) ELSE Nothing
    [] step[w] \in {"drafted", "writing", "written", "ready"} -> draft[w]
    [] OTHER -> Spent

Taking(r) ==
  CASE step[r] = "done" -> snapshot[r]
    [] step[r] # "done" /\ opened[r] # Nothing -> TakeSnapshot(held[opened[r]])
    [] step[r] # "done" /\ opened[r] = Nothing -> IF step[r] = "idle" THEN Nothing ELSE Failed

Register == INSTANCE ConfigRegister WITH
  current <- IF path = Nothing THEN Nothing ELSE held[path],
  draft   <- [w \in Writers |-> Drafting(w)],
  taken   <- [r \in Readers |-> Taking(r)]

(* config.py as a whole is that register: what is published is a whole     *)
(* draft, once; a snapshot is what the file held at one moment; and a task *)
(* that fails or dies has changed nothing.                                 *)
ImplementsRegister == Register!Spec

-----------------------------------------------------------------------------
(* What the properties are proved from. *)

(* A file that has been published, which nobody writes to again. *)
Published(f) == f = Original \/ (f \in Writers \cup Editors /\ step[f] = "done")

FilesSound ==
  /\ path # Nothing => Published(path)
  /\ \A t \in Tasks : opened[t] # Nothing => Published(opened[t])
  /\ \A f \in Files : Published(f) => held[f] # Torn /\ f \notin private

WriterSound ==
  \A w \in Writers :
    /\ w \in temps => step[w] \in Writing \cup {"littered", "crashed"}
    /\ step[w] \in {"drafted", "writing", "written", "ready"} => draft[w] \in Config
    /\ step[w] \in {"written", "ready"} => held[w] = draft[w]
    /\ step[w] = "ready" => w \notin private

UpdaterSound ==
  /\ \A w \in Updaters :
       /\ step[w] \in {"opening", "opened"} => Valid(fields[w])
       /\ step[w] \in {"idle", "opening"} => opened[w] = Nothing
       /\ step[w] = "opened" => opened[w] # Nothing
       /\ step[w] \in {"drafted", "writing", "written", "ready"} =>
            /\ opened[w] # Nothing /\ held[opened[w]] \in Config
            /\ draft[w] = Merged(held[opened[w]], fields[w])
  /\ \A w \in Setters : opened[w] = Nothing /\ step[w] \notin {"opening", "opened"}

ReaderSound ==
  \A r \in Readers :
    /\ step[r] \in {"idle", "opened", "done", "failed", "crashed"}
    /\ step[r] = "idle" => opened[r] = Nothing
    /\ step[r] = "opened" => opened[r] # Nothing

ConfigInductive ==
  TypeOK /\ FilesSound /\ WriterSound /\ UpdaterSound /\ ReaderSound
=============================================================================
