------------------------ MODULE GlobalConfig_proofs ------------------------
(***************************************************************************)
(* GlobalConfig for any tasks, any configs and any number of edits: its    *)
(* inductive invariant; what readers and failed writes may rely on; and    *)
(* that it implements ConfigRegister.                                      *)
(*                                                                         *)
(* All of it rests on one fact: a file that has been published is never    *)
(* written to again, so that whoever has opened it reads one config.       *)
(***************************************************************************)
EXTENDS GlobalConfig, TLAPS

USE ConfigAssumption, ContentAssumption, TaskAssumption

-----------------------------------------------------------------------------
(* Data.                                                                   *)

LEMMA MergedConfig ==
  ASSUME NEW c \in Config, NEW f \in Updates
  PROVE  Merged(c, f) \in Config
BY DEF Merged, Config, Updates, Or

LEMMA SnapshotTypes == ASSUME NEW h PROVE TakeSnapshot(h) \in Snapshots \cup {Failed}
<1>1. CASE h \in Config /\ h.mode # Unknown /\ h.rest \notin Wrong
  <2>1. /\ TakeSnapshot(h) = [h EXCEPT !.mode = Or(@, DefaultMode), !.code = Or(@, DefaultCode)]
        /\ Or(h.mode, DefaultMode) \in Modes /\ Or(h.code, DefaultCode) \in Codes
        /\ h.rest \in Rests \ Wrong
    BY <1>1 DEF TakeSnapshot, Config, Or
  <2> QED
    BY <1>1, <2>1 DEF Config, Snapshots
<1>2. CASE ~(h \in Config /\ h.mode # Unknown /\ h.rest \notin Wrong)
  BY <1>2 DEF TakeSnapshot
<1> QED
  BY <1>1, <1>2

-----------------------------------------------------------------------------
(* The invariant.                                                          *)

(* What a step of a task is to the others.                                 *)
LEMMA Going ==
  ASSUME TypeOK, NEW t \in Tasks \cup Editors, NEW a, NEW b \in Steps, Goes(t, a, b)
  PROVE  /\ step' \in [Tasks \cup Editors -> Steps]
         /\ step[t] = a /\ step'[t] = b
         /\ \A u \in Tasks \cup Editors : u # t => step'[u] = step[u]
BY DEF Goes, TypeOK

LEMMA TypeStep == ASSUME ConfigInductive, [Next]_vars PROVE TypeOK'
<1> USE DEF ConfigInductive
<1>1. ASSUME NEW t \in Readers \cup Updaters, Opens(t) PROVE TypeOK'
  <2>1. t \in Tasks /\ path \in Files
    BY <1>1 DEF Tasks, Writers, Opens, TypeOK
  <2>2. opened' \in [Tasks -> Files \cup {Nothing}]
    BY <1>1, <2>1 DEF Opens, TypeOK
  <2>3. step' \in [Tasks \cup Editors -> Steps]
    BY <1>1, <2>1 DEF Opens, Goes, TypeOK, Steps, Ended
  <2> QED
    BY <1>1, <2>2, <2>3 DEF Opens, TypeOK, files
<1>2. ASSUME NEW t \in Readers \cup Updaters, OpenFails(t) PROVE TypeOK'
  <2>1. step' \in [Tasks \cup Editors -> Steps]
    BY <1>2 DEF OpenFails, TypeOK, Steps, Ended
  <2>2. snapshot' \in [Readers -> Snapshots \cup {Nothing, Failed}]
    BY <1>2 DEF OpenFails, TypeOK
  <2> QED
    BY <1>2, <2>1, <2>2 DEF OpenFails, TypeOK, files
<1>3. ASSUME NEW r \in Readers, Takes(r) PROVE TypeOK'
  <2>1. step' \in [Tasks \cup Editors -> Steps]
    BY <1>3 DEF Takes, Goes, TypeOK, Steps, Ended
  <2>2. snapshot' \in [Readers -> Snapshots \cup {Nothing, Failed}]
    BY <1>3, SnapshotTypes DEF Takes, TypeOK
  <2> QED
    BY <1>3, <2>1, <2>2 DEF Takes, TypeOK, files
<1>4. ASSUME NEW w \in Updaters, Asks(w) PROVE TypeOK'
  <2>1. PICK f \in Asked : /\ Goes(w, "idle", IF Valid(f) THEN "opening" ELSE "failed")
                           /\ fields' = [fields EXCEPT ![w] = f]
    BY <1>4 DEF Asks
  <2>2. step' \in [Tasks \cup Editors -> Steps]
    BY <2>1 DEF Goes, TypeOK, Steps, Ended
  <2>3. fields' \in [Writers -> Updates]
    BY <2>1 DEF TypeOK
  <2> QED
    BY <1>4, <2>2, <2>3 DEF Asks, TypeOK, files
<1>5. ASSUME NEW w \in Updaters, Merges(w) PROVE TypeOK'
  <2>1. step' \in [Tasks \cup Editors -> Steps]
    BY <1>5 DEF Merges, Goes, TypeOK, Steps, Ended
  <2>2. w \in Writers /\ fields[w] \in Updates
    BY DEF TypeOK, Writers
  <2>3. draft' \in [Writers -> Config \cup {Nothing}]
    BY <1>5, <2>2, MergedConfig DEF Merges, TypeOK
  <2> QED
    BY <1>5, <2>1, <2>3 DEF Merges, TypeOK, files
<1>6. ASSUME NEW w \in Setters, Sets(w) PROVE TypeOK'
  <2>1. step' \in [Tasks \cup Editors -> Steps]
    BY <1>6 DEF Sets, Goes, TypeOK, Steps, Ended
  <2>2. draft' \in [Writers -> Config \cup {Nothing}]
    BY <1>6 DEF Sets, TypeOK
  <2> QED
    BY <1>6, <2>1, <2>2 DEF Sets, TypeOK, files
<1>7. ASSUME NEW w \in Writers, Makes(w) \/ MakeFails(w) \/ Writes(w) \/ Chmods(w)
                                \/ Replaces(w) \/ Raises(w) \/ Unlinks(w) \/ UnlinkFails(w)
      PROVE  TypeOK'
  <2>1. step' \in [Tasks \cup Editors -> Steps]
    BY <1>7 DEF Makes, MakeFails, Writes, Chmods, Replaces, Raises, Unlinks, UnlinkFails,
                  Goes, TypeOK, Steps, Ended, Writing
  <2>2. w \in Files
    BY DEF Files
  <2>3. path' \in Files \cup {Nothing} /\ private' \subseteq Writers /\ temps' \subseteq Writers
    BY <1>7, <2>2 DEF Makes, MakeFails, Writes, Chmods, Replaces, Raises, Unlinks, UnlinkFails, TypeOK, files
  <2>4. held' \in [Files -> Config \cup {Garbage, Torn}]
    <3>1. Writes(w) => draft[w] \in Config
      BY DEF WriterSound, Writes, Goes
    <3> QED
      BY <1>7, <2>2, <3>1
         DEF Makes, MakeFails, Writes, Chmods, Replaces, Raises, Unlinks, UnlinkFails, TypeOK, files
  <2> QED
    BY <1>7, <2>1, <2>3, <2>4
       DEF Makes, MakeFails, Writes, Chmods, Replaces, Raises, Unlinks, UnlinkFails, TypeOK, files
<1>8. ASSUME NEW e \in Editors, Edits(e) PROVE TypeOK'
  <2>1. step' \in [Tasks \cup Editors -> Steps]
    BY <1>8 DEF Edits, Goes, TypeOK, Steps, Ended
  <2>2. e \in Files
    BY DEF Files
  <2>3. held' \in [Files -> Config \cup {Garbage, Torn}]
    BY <1>8, <2>2 DEF Edits, TypeOK
  <2> QED
    BY <1>8, <2>1, <2>2, <2>3 DEF Edits, TypeOK
<1>9. ASSUME NEW t \in Tasks, Crashes(t) PROVE TypeOK'
  BY <1>9 DEF Crashes, TypeOK, files, Steps, Ended
<1>10. ASSUME UNCHANGED vars PROVE TypeOK'
  BY <1>10 DEF vars, files, TypeOK
<1> QED
  BY <1>1, <1>2, <1>3, <1>4, <1>5, <1>6, <1>7, <1>8, <1>9, <1>10 DEF Next

(* The fact it rests on: a published file stays published, and as it is.   *)
LEMMA PublishedStays ==
  ASSUME ConfigInductive, [Next]_vars, NEW f \in Files, Published(f)
  PROVE  Published(f)' /\ held'[f] = held[f]
<1> USE DEF ConfigInductive
<1>1. ASSUME NEW t \in Tasks \cup Editors, step[t] # "done",
             \A u \in Tasks \cup Editors : u # t => step'[u] = step[u]
      PROVE  Published(f)'
  BY <1>1 DEF Published, Tasks
<1>2. ASSUME NEW t \in Tasks \cup Editors, NEW a, NEW b, Goes(t, a, b), a # "done"
      PROVE  Published(f)'
  BY <1>1, <1>2 DEF Goes, TypeOK
<1>3. CASE UNCHANGED vars
  BY <1>3 DEF vars, files, Published
<1>4. ASSUME NEW t \in Readers \cup Updaters, Opens(t) \/ OpenFails(t)
      PROVE  Published(f)' /\ held'[f] = held[f]
  <2>1. t \in Tasks
    BY DEF Tasks, Writers
  <2>2. CASE Opens(t)
    BY <1>2, <2>1, <2>2 DEF Opens, Start, files
  <2>3. CASE OpenFails(t)
    BY <1>1, <2>1, <2>3 DEF OpenFails, Start, files, TypeOK
  <2> QED
    BY <1>4, <2>2, <2>3
<1>5. ASSUME NEW r \in Readers, Takes(r) PROVE Published(f)' /\ held'[f] = held[f]
  BY <1>2, <1>5 DEF Takes, files, Tasks
<1>6. ASSUME NEW w \in Updaters, Asks(w) \/ Merges(w)
      PROVE  Published(f)' /\ held'[f] = held[f]
  <2>1. w \in Tasks
    BY DEF Tasks, Writers
  <2> QED
    BY <1>2, <1>6, <2>1 DEF Asks, Merges, files
<1>7. ASSUME NEW w \in Setters, Sets(w) PROVE Published(f)' /\ held'[f] = held[f]
  <2>1. w \in Tasks
    BY DEF Tasks, Writers
  <2> QED
    BY <1>2, <1>7, <2>1 DEF Sets, files
<1>8. ASSUME NEW w \in Writers, Makes(w) \/ MakeFails(w) \/ Writes(w) \/ Chmods(w)
                                \/ Replaces(w) \/ Raises(w) \/ Unlinks(w) \/ UnlinkFails(w)
      PROVE  Published(f)' /\ held'[f] = held[f]
  <2>1. w \in Tasks
    BY DEF Tasks
  <2>2. CASE Writes(w)
    <3>1. f # w
      BY <2>2 DEF Writes, Goes, Published, Writers
    <3> QED
      BY <1>2, <2>1, <2>2, <3>1 DEF Writes, TypeOK
  <2>3. CASE Raises(w)
    BY <1>1, <2>1, <2>3 DEF Raises, files, TypeOK
  <2> QED
    BY <1>2, <1>8, <2>1, <2>2, <2>3 DEF Makes, MakeFails, Chmods, Replaces, Unlinks, UnlinkFails, files
<1>9. ASSUME NEW e \in Editors, Edits(e) PROVE Published(f)' /\ held'[f] = held[f]
  <2>1. f # e
    BY <1>9 DEF Edits, Goes, Published
  <2> QED
    BY <1>2, <1>9, <2>1 DEF Edits, TypeOK
<1>10. ASSUME NEW t \in Tasks, Crashes(t) PROVE Published(f)' /\ held'[f] = held[f]
  BY <1>1, <1>10 DEF Crashes, Ended, files, TypeOK
<1> QED
  BY <1>3, <1>4, <1>5, <1>6, <1>7, <1>8, <1>9, <1>10 DEF Next

(* A task's step changes where that task is, and, but for the steps named, *)
(* nothing else that an invariant is about.                                *)
LEMMA StepCases ==
  ASSUME ConfigInductive, [Next]_vars
  PROVE  \/ UNCHANGED vars
         \/ \E t \in Readers \cup Updaters : Opens(t) \/ OpenFails(t)
         \/ \E r \in Readers : Takes(r)
         \/ \E w \in Updaters : Asks(w) \/ Merges(w)
         \/ \E w \in Setters : Sets(w)
         \/ \E w \in Writers : \/ Makes(w) \/ MakeFails(w) \/ Writes(w) \/ Chmods(w)
                               \/ Replaces(w) \/ Raises(w) \/ Unlinks(w) \/ UnlinkFails(w)
         \/ \E e \in Editors : Edits(e)
         \/ \E t \in Tasks : Crashes(t)
BY DEF Next

(* Who becomes "done", and which files become private. *)
LEMMA NewlyPublished ==
  ASSUME ConfigInductive, [Next]_vars, NEW f \in Files
  PROVE  /\ Published(f)' => \/ Published(f)
                             \/ f \in Writers /\ Replaces(f)
                             \/ f \in Editors /\ Edits(f)
         /\ Published(f) => (f \in private' => f \in private)
         /\ f \in Editors => (f \in private' => f \in private)
<1> USE DEF ConfigInductive
<1> DEFINE Same == step'[f] = step[f] \/ f = Original
           Goal == /\ Published(f)' => \/ Published(f)
                                       \/ f \in Writers /\ Replaces(f)
                                       \/ f \in Editors /\ Edits(f)
                   /\ Published(f) => (f \in private' => f \in private)
                   /\ f \in Editors => (f \in private' => f \in private)
<1>1. ASSUME Same, UNCHANGED private PROVE Goal
  BY <1>1 DEF Published
<1>2. ASSUME f # Original, step'[f] # "done", UNCHANGED private PROVE Goal
  BY <1>2 DEF Published
<1>3. f \in Writers \cup Editors => f \in Tasks \cup Editors /\ f \notin Readers
  BY DEF Tasks
<1>4. CASE UNCHANGED vars
  BY <1>1, <1>4 DEF vars, files
<1>5. ASSUME NEW t \in Readers \cup Updaters, Opens(t) \/ OpenFails(t) PROVE Goal
  BY <1>1, <1>2, <1>3, <1>5 DEF Opens, OpenFails, Goes, TypeOK, files, Files
<1>6. ASSUME NEW r \in Readers, Takes(r) PROVE Goal
  BY <1>1, <1>3, <1>6 DEF Takes, Goes, TypeOK, files, Files
<1>7. ASSUME NEW w \in Updaters, Asks(w) \/ Merges(w) PROVE Goal
  BY <1>1, <1>2, <1>3, <1>7 DEF Asks, Merges, Goes, TypeOK, files, Files
<1>8. ASSUME NEW w \in Setters, Sets(w) PROVE Goal
  BY <1>1, <1>2, <1>3, <1>8 DEF Sets, Goes, TypeOK, files, Files
<1>9. ASSUME NEW w \in Writers, MakeFails(w) \/ Writes(w) \/ Raises(w) \/ Unlinks(w) \/ UnlinkFails(w) PROVE Goal
  BY <1>1, <1>2, <1>3, <1>9 DEF MakeFails, Writes, Raises, Unlinks, UnlinkFails, Goes, TypeOK, files, Files
<1>10. ASSUME NEW w \in Writers, Replaces(w) PROVE Goal
  BY <1>1, <1>3, <1>10 DEF Replaces, Goes, TypeOK, Files, Published
<1>11. ASSUME NEW w \in Writers, Makes(w) \/ Chmods(w) PROVE Goal
  <2>1. step[w] # "done" /\ w \notin Editors /\ w # Original
    BY <1>11 DEF Makes, Chmods, Goes, Writers
  <2>2. CASE f = w
    BY <1>3, <1>11, <2>1, <2>2 DEF Makes, Chmods, Goes, TypeOK, Published, Tasks
  <2>3. CASE f # w
    BY <1>3, <1>11, <2>3 DEF Makes, Chmods, Goes, TypeOK, Published, Files
  <2> QED
    BY <2>2, <2>3
<1>12. ASSUME NEW e \in Editors, Edits(e) PROVE Goal
  BY <1>1, <1>3, <1>12 DEF Edits, Goes, TypeOK, Files, Published
<1>13. ASSUME NEW t \in Tasks, Crashes(t) PROVE Goal
  BY <1>1, <1>2, <1>3, <1>13 DEF Crashes, Ended, TypeOK, files, Files
<1> QED
  BY <1>4, <1>5, <1>6, <1>7, <1>8, <1>9, <1>10, <1>11, <1>12, <1>13, StepCases

LEMMA FilesStep == ASSUME ConfigInductive, [Next]_vars PROVE FilesSound'
<1> USE DEF ConfigInductive
<1>1. path' # Nothing => Published(path)'
  <2>1. CASE path' = path
    BY <2>1, PublishedStays DEF FilesSound, TypeOK
  <2>2. ASSUME NEW w \in Writers, Replaces(w) PROVE Published(path)'
    BY <2>2, Going DEF Replaces, Published, Steps, Ended, Tasks, Goes, TypeOK
  <2>3. ASSUME NEW e \in Editors, Edits(e) PROVE Published(path)'
    BY <2>3 DEF Edits, Published, Goes, TypeOK
  <2>4. \/ path' = path
        \/ \E w \in Writers : Replaces(w)
        \/ \E e \in Editors : Edits(e)
    BY StepCases DEF vars, files, Opens, OpenFails, Takes, Asks, Merges, Sets, Makes, MakeFails,
                     Writes, Chmods, Raises, Unlinks, UnlinkFails, Crashes
  <2> QED
    BY <2>1, <2>2, <2>3, <2>4
<1>2. ASSUME NEW t \in Tasks, opened'[t] # Nothing PROVE Published(opened[t])'
  <2>1. opened'[t] = opened[t] \/ (opened'[t] = path /\ path # Nothing)
    BY StepCases DEF vars, files, Opens, OpenFails, Takes, Asks, Merges, Sets, Makes, MakeFails,
                     Writes, Chmods, Raises, Unlinks, UnlinkFails, Crashes, Edits, Replaces, TypeOK
  <2>2. PICK f \in Files : f = opened'[t] /\ Published(f)
    BY <1>2, <2>1 DEF FilesSound, TypeOK
  <2>3. Published(f)'
    BY <2>2, PublishedStays
  <2> QED
    BY <2>2, <2>3 DEF Published
<1>3. ASSUME NEW f \in Files, Published(f)' PROVE held'[f] # Torn /\ f \notin private'
  <2>1. CASE Published(f)
    BY <2>1, PublishedStays, NewlyPublished DEF FilesSound
  <2>2. CASE f \in Writers /\ Replaces(f)
    BY <2>2 DEF Replaces, Goes, WriterSound, Torn
  <2>3. CASE f \in Editors /\ Edits(f)
    <3>1. f \notin private'
      BY <2>3 DEF Edits, TypeOK, Tasks
    <3>2. held'[f] \in Typed
      BY <2>3 DEF Edits, TypeOK
    <3> QED
      BY <3>1, <3>2 DEF Torn
  <2> QED
    BY <1>3, <2>1, <2>2, <2>3, NewlyPublished
<1> QED
  BY <1>1, <1>2, <1>3 DEF FilesSound

(* What a task has opened, and what that file holds, stays as it is.       *)
LEMMA OpenedStays ==
  ASSUME ConfigInductive, [Next]_vars, NEW t \in Tasks, opened[t] # Nothing,
         opened'[t] = opened[t]
  PROVE  held'[opened'[t]] = held[opened[t]]
<1> PICK f \in Files : f = opened[t] /\ Published(f)
  BY DEF ConfigInductive, FilesSound, TypeOK
<1> QED
  BY PublishedStays

LEMMA WriterStep == ASSUME ConfigInductive, [Next]_vars PROVE WriterSound'
<1> USE DEF ConfigInductive
<1> SUFFICES ASSUME NEW w \in Writers
             PROVE  /\ w \in temps' => step'[w] \in Writing \cup {"littered", "crashed"}
                    /\ step'[w] \in {"drafted", "writing", "written", "ready"} => draft'[w] \in Config
                    /\ step'[w] \in {"written", "ready"} => held'[w] = draft'[w]
                    /\ step'[w] = "ready" => w \notin private'
  BY DEF WriterSound
<1> DEFINE Goal == /\ w \in temps' => step'[w] \in Writing \cup {"littered", "crashed"}
                   /\ step'[w] \in {"drafted", "writing", "written", "ready"} => draft'[w] \in Config
                   /\ step'[w] \in {"written", "ready"} => held'[w] = draft'[w]
                   /\ step'[w] = "ready" => w \notin private'
<1>0. /\ w \in Tasks /\ w \in Files /\ w \notin Readers \cup Editors
      /\ w \in temps => step[w] \in Writing \cup {"littered", "crashed"}
      /\ step[w] \in {"drafted", "writing", "written", "ready"} => draft[w] \in Config
      /\ step[w] \in {"written", "ready"} => held[w] = draft[w]
      /\ step[w] = "ready" => w \notin private
  BY DEF WriterSound, Tasks, Files
<1>1. ASSUME step'[w] = step[w], draft'[w] = draft[w], held'[w] = held[w],
             w \in temps' => w \in temps, w \in private' => w \in private
      PROVE  Goal
  BY <1>0, <1>1
<1>2. CASE UNCHANGED vars
  BY <1>1, <1>2 DEF vars, files
<1>3. ASSUME NEW t \in Readers \cup Updaters, Opens(t) \/ OpenFails(t) PROVE Goal
  <2>1. CASE t = w
    BY <1>0, <1>3, <2>1 DEF Opens, OpenFails, Start, Goes, TypeOK, files, Writing
  <2>2. CASE t # w
    BY <1>0, <1>1, <1>3, <2>2 DEF Opens, OpenFails, Goes, TypeOK, files
  <2> QED
    BY <2>1, <2>2
<1>4. ASSUME NEW r \in Readers, Takes(r) PROVE Goal
  BY <1>0, <1>1, <1>4 DEF Takes, Goes, TypeOK, files
<1>5. ASSUME NEW u \in Updaters, Asks(u) \/ Merges(u) PROVE Goal
  <2>1. CASE u = w
    <3>1. CASE Asks(u)
      BY <1>0, <2>1, <3>1 DEF Asks, Goes, TypeOK, files, Writing
    <3>2. CASE Merges(u)
      <4>1. fields[w] \in Updates /\ draft \in [Writers -> Config \cup {Nothing}]
        BY DEF TypeOK
      <4>2. step'[w] = "drafted" => draft'[w] \in Config
        BY <1>0, <2>1, <3>2, <4>1, MergedConfig DEF Merges, Goes, TypeOK
      <4> QED
        BY <1>0, <2>1, <3>2, <4>2 DEF Merges, Goes, TypeOK, files, Writing
    <3> QED
      BY <1>5, <3>1, <3>2
  <2>2. CASE u # w
    BY <1>0, <1>1, <1>5, <2>2 DEF Asks, Merges, Goes, TypeOK, files
  <2> QED
    BY <2>1, <2>2
<1>6. ASSUME NEW u \in Setters, Sets(u) PROVE Goal
  <2>1. CASE u = w
    BY <1>0, <1>6, <2>1 DEF Sets, Goes, TypeOK, files, Writing
  <2>2. CASE u # w
    BY <1>0, <1>1, <1>6, <2>2 DEF Sets, Goes, TypeOK, files
  <2> QED
    BY <2>1, <2>2
<1>7. ASSUME NEW u \in Writers, \/ Makes(u) \/ MakeFails(u) \/ Writes(u) \/ Chmods(u)
                                \/ Replaces(u) \/ Raises(u) \/ Unlinks(u) \/ UnlinkFails(u)
      PROVE  Goal
  <2>1. CASE u = w
    <3>1. path \notin private
      <4>1. path \in private => path \in Files /\ path # Nothing
        BY DEF TypeOK, Files
      <4> QED
        BY <4>1 DEF FilesSound
    <3>2. CASE Makes(u) \/ MakeFails(u) \/ Writes(u)
      BY <1>0, <2>1, <3>2 DEF Makes, MakeFails, Writes, Goes, TypeOK, files, Writing
    <3>3. CASE Chmods(u) \/ Replaces(u)
      BY <1>0, <2>1, <3>1, <3>3 DEF Chmods, Replaces, Goes, TypeOK, files, Writing
    <3>4. CASE Raises(u) \/ Unlinks(u) \/ UnlinkFails(u)
      BY <1>0, <2>1, <3>4 DEF Raises, Unlinks, UnlinkFails, Goes, TypeOK, files, Writing
    <3> QED
      BY <1>7, <3>2, <3>3, <3>4
  <2>2. CASE u # w
    BY <1>0, <1>1, <1>7, <2>2
       DEF Makes, MakeFails, Writes, Chmods, Replaces, Raises, Unlinks, UnlinkFails, Goes, TypeOK, files
  <2> QED
    BY <2>1, <2>2
<1>8. ASSUME NEW e \in Editors, Edits(e) PROVE Goal
  BY <1>0, <1>1, <1>8 DEF Edits, Goes, TypeOK
<1>9. ASSUME NEW t \in Tasks, Crashes(t) PROVE Goal
  <2>1. CASE t = w
    BY <1>0, <1>9, <2>1 DEF Crashes, Ended, TypeOK, files, Writing
  <2>2. CASE t # w
    BY <1>0, <1>1, <1>9, <2>2 DEF Crashes, Ended, TypeOK, files
  <2> QED
    BY <2>1, <2>2
<1> QED
  BY <1>2, <1>3, <1>4, <1>5, <1>6, <1>7, <1>8, <1>9, StepCases

LEMMA ReaderStep == ASSUME ConfigInductive, [Next]_vars PROVE ReaderSound'
<1> USE DEF ConfigInductive
<1> SUFFICES ASSUME NEW r \in Readers
             PROVE  /\ step'[r] \in {"idle", "opened", "done", "failed", "crashed"}
                    /\ step'[r] = "idle" => opened'[r] = Nothing
                    /\ step'[r] = "opened" => opened'[r] # Nothing
  BY DEF ReaderSound
<1> DEFINE Goal == /\ step'[r] \in {"idle", "opened", "done", "failed", "crashed"}
                   /\ step'[r] = "idle" => opened'[r] = Nothing
                   /\ step'[r] = "opened" => opened'[r] # Nothing
<1>0. /\ r \in Tasks /\ r \notin Writers \cup Editors
      /\ step[r] \in {"idle", "opened", "done", "failed", "crashed"}
      /\ step[r] = "idle" => opened[r] = Nothing
      /\ step[r] = "opened" => opened[r] # Nothing
  BY DEF ReaderSound, Tasks
<1>1. ASSUME step'[r] = step[r], opened'[r] = opened[r] PROVE Goal
  BY <1>0, <1>1
<1>2. CASE UNCHANGED vars
  BY <1>1, <1>2 DEF vars
<1>3. ASSUME NEW t \in Readers \cup Updaters, Opens(t) \/ OpenFails(t) PROVE Goal
  <2>1. CASE t = r
    BY <1>0, <1>3, <2>1 DEF Opens, OpenFails, Start, Goes, TypeOK
  <2>2. CASE t # r
    BY <1>0, <1>1, <1>3, <2>2 DEF Opens, OpenFails, Goes, TypeOK
  <2> QED
    BY <2>1, <2>2
<1>4. ASSUME NEW q \in Readers, Takes(q) PROVE Goal
  BY <1>0, <1>4 DEF Takes, Goes, TypeOK
<1>5. ASSUME NEW u \in Updaters, Asks(u) \/ Merges(u) PROVE Goal
  BY <1>0, <1>1, <1>5 DEF Asks, Merges, Goes, TypeOK, Writers
<1>6. ASSUME NEW u \in Setters, Sets(u) PROVE Goal
  BY <1>0, <1>1, <1>6 DEF Sets, Goes, TypeOK, Writers
<1>7. ASSUME NEW u \in Writers, \/ Makes(u) \/ MakeFails(u) \/ Writes(u) \/ Chmods(u)
                                \/ Replaces(u) \/ Raises(u) \/ Unlinks(u) \/ UnlinkFails(u)
      PROVE  Goal
  BY <1>0, <1>1, <1>7
     DEF Makes, MakeFails, Writes, Chmods, Replaces, Raises, Unlinks, UnlinkFails, Goes, TypeOK
<1>8. ASSUME NEW e \in Editors, Edits(e) PROVE Goal
  BY <1>0, <1>1, <1>8 DEF Edits, Goes, TypeOK
<1>9. ASSUME NEW t \in Tasks, Crashes(t) PROVE Goal
  BY <1>0, <1>9 DEF Crashes, Ended, TypeOK
<1> QED
  BY <1>2, <1>3, <1>4, <1>5, <1>6, <1>7, <1>8, <1>9, StepCases

LEMMA UpdaterStep == ASSUME ConfigInductive, [Next]_vars PROVE UpdaterSound'
<1> USE DEF ConfigInductive
<1>1. ASSUME NEW w \in Setters PROVE opened'[w] = Nothing /\ step'[w] \notin {"opening", "opened"}
  <2>1. /\ w \in Tasks /\ w \in Writers /\ w \notin Readers \cup Editors \cup Updaters
        /\ opened[w] = Nothing /\ step[w] \notin {"opening", "opened"}
    BY DEF UpdaterSound, Tasks, Writers
  <2>2. opened'[w] = opened[w]
    BY <2>1, StepCases DEF vars, Opens, OpenFails, Takes, Asks, Merges, Sets, Makes, MakeFails,
                     Writes, Chmods, Raises, Unlinks, UnlinkFails, Crashes, Edits, Replaces, TypeOK
  <2>3. step'[w] \notin {"opening", "opened"}
    BY <2>1, StepCases DEF vars, Opens, OpenFails, Takes, Asks, Merges, Sets, Makes, MakeFails,
                     Writes, Chmods, Raises, Unlinks, UnlinkFails, Crashes, Edits, Replaces, Goes, TypeOK
  <2> QED
    BY <2>1, <2>2, <2>3
<1>2. ASSUME NEW w \in Updaters
      PROVE  /\ step'[w] \in {"opening", "opened"} => Valid(fields'[w])
             /\ step'[w] \in {"idle", "opening"} => opened'[w] = Nothing
             /\ step'[w] = "opened" => opened'[w] # Nothing
             /\ step'[w] \in {"drafted", "writing", "written", "ready"} =>
                  /\ opened'[w] # Nothing /\ held'[opened'[w]] \in Config
                  /\ draft'[w] = Merged(held'[opened'[w]], fields'[w])
  <2> DEFINE Goal == /\ step'[w] \in {"opening", "opened"} => Valid(fields'[w])
                     /\ step'[w] \in {"idle", "opening"} => opened'[w] = Nothing
                     /\ step'[w] = "opened" => opened'[w] # Nothing
                     /\ step'[w] \in {"drafted", "writing", "written", "ready"} =>
                          /\ opened'[w] # Nothing /\ held'[opened'[w]] \in Config
                          /\ draft'[w] = Merged(held'[opened'[w]], fields'[w])
  <2>0. /\ w \in Tasks /\ w \in Writers /\ w \notin Readers \cup Editors \cup Setters
        /\ step[w] \in {"opening", "opened"} => Valid(fields[w])
        /\ step[w] \in {"idle", "opening"} => opened[w] = Nothing
        /\ step[w] = "opened" => opened[w] # Nothing
        /\ step[w] \in {"drafted", "writing", "written", "ready"} =>
             /\ opened[w] # Nothing /\ held[opened[w]] \in Config
             /\ draft[w] = Merged(held[opened[w]], fields[w])
    BY DEF UpdaterSound, Tasks, Writers
  <2>1. ASSUME opened'[w] = opened[w], fields'[w] = fields[w], draft'[w] = draft[w],
               \/ step'[w] = step[w]
               \/ /\ step'[w] \notin {"idle", "opening", "opened"}
                  /\ step[w] \in {"drafted", "writing", "written", "ready"}
               \/ step'[w] \in {"unwinding"} \cup Ended
        PROVE  Goal
    <3>1. opened[w] # Nothing => held'[opened'[w]] = held[opened[w]]
      BY <2>0, <2>1, OpenedStays
    <3> QED
      BY <2>0, <2>1, <3>1 DEF Ended
  <2>2. CASE UNCHANGED vars
    BY <2>1, <2>2 DEF vars
  <2>3. ASSUME NEW t \in Readers \cup Updaters, Opens(t) \/ OpenFails(t) PROVE Goal
    <3>1. CASE t = w /\ Opens(t)
      BY <2>0, <3>1 DEF Opens, Start, Goes, TypeOK
    <3>2. CASE ~(t = w /\ Opens(t))
      BY <2>0, <2>1, <2>3, <3>2 DEF Opens, OpenFails, Goes, TypeOK
    <3> QED
      BY <3>1, <3>2
  <2>4. ASSUME NEW r \in Readers, Takes(r) PROVE Goal
    BY <2>0, <2>1, <2>4 DEF Takes, Goes, TypeOK
  <2>5. ASSUME NEW u \in Updaters, Asks(u) PROVE Goal
    <3>1. CASE u = w
      BY <2>0, <2>5, <3>1 DEF Asks, Goes, TypeOK
    <3>2. CASE u # w
      BY <2>0, <2>1, <2>5, <3>2 DEF Asks, Goes, TypeOK, Writers
    <3> QED
      BY <3>1, <3>2
  <2>6. ASSUME NEW u \in Updaters, Merges(u) PROVE Goal
    <3>1. CASE u = w
      BY <2>0, <2>6, <3>1 DEF Merges, Goes, TypeOK, files
    <3>2. CASE u # w
      BY <2>0, <2>1, <2>6, <3>2 DEF Merges, Goes, TypeOK, Writers
    <3> QED
      BY <3>1, <3>2
  <2>7. ASSUME NEW u \in Setters, Sets(u) PROVE Goal
    BY <2>0, <2>1, <2>7 DEF Sets, Goes, TypeOK, Writers
  <2>8. ASSUME NEW u \in Writers, \/ Makes(u) \/ MakeFails(u) \/ Writes(u) \/ Chmods(u)
                                  \/ Replaces(u) \/ Raises(u) \/ Unlinks(u) \/ UnlinkFails(u)
        PROVE  Goal
    <3>1. step' = [step EXCEPT ![u] = step'[u]] /\ u \in Tasks
      BY <2>8 DEF Makes, MakeFails, Writes, Chmods, Replaces, Raises, Unlinks, UnlinkFails,
                  Goes, TypeOK, Tasks
    <3>2. UNCHANGED <<opened, fields, draft>>
      BY <2>8 DEF Makes, MakeFails, Writes, Chmods, Replaces, Raises, Unlinks, UnlinkFails
    <3>3. CASE u = w
      BY <2>0, <2>1, <2>8, <3>2, <3>3
         DEF Makes, MakeFails, Writes, Chmods, Replaces, Raises, Unlinks, UnlinkFails, Goes, TypeOK
    <3>4. CASE u # w
      BY <2>0, <2>1, <3>1, <3>2, <3>4 DEF TypeOK
    <3> QED
      BY <3>3, <3>4
  <2>9. ASSUME NEW e \in Editors, Edits(e) PROVE Goal
    BY <2>0, <2>1, <2>9 DEF Edits, Goes, TypeOK
  <2>10. ASSUME NEW t \in Tasks, Crashes(t) PROVE Goal
    BY <2>0, <2>1, <2>10 DEF Crashes, Ended, TypeOK
  <2> QED
    BY <2>2, <2>3, <2>4, <2>5, <2>6, <2>7, <2>8, <2>9, <2>10, StepCases
<1> QED
  BY <1>1, <1>2 DEF UpdaterSound

LEMMA ConfigInit == ASSUME Init PROVE ConfigInductive
<1>1. PICK c \in Installed : held = [f \in Files |-> IF f = Original THEN c ELSE Torn]
  BY DEF Init
<1>2. Original \in Files /\ Updaters \cup Setters \subseteq Writers
  BY DEF Files, Writers
<1>3. held \in [Files -> Config \cup {Garbage, Torn}]
  BY <1>1
<1>4. TypeOK
  BY <1>2, <1>3 DEF Init, TypeOK, Steps, Ended, Updates
<1>5. \A t \in Tasks \cup Editors : step[t] = "idle"
  BY DEF Init
<1>6. FilesSound
  <2>1. \A t \in Tasks : opened[t] = Nothing
    BY DEF Init
  <2>2. \A f \in Files : Published(f) => f = Original
    BY <1>5 DEF Published, Tasks
  <2>3. held[Original] = c /\ c # Torn /\ Published(Original)
    BY <1>1, <1>2 DEF Torn, Published
  <2> QED
    BY <2>1, <2>2, <2>3 DEF FilesSound, Init
<1>7. WriterSound /\ UpdaterSound /\ ReaderSound
  <2>1. \A w \in Writers : step[w] = "idle" /\ w \notin temps /\ opened[w] = Nothing
    BY <1>5 DEF Init, Tasks
  <2>2. \A r \in Readers : step[r] = "idle" /\ opened[r] = Nothing
    BY <1>5 DEF Init, Tasks
  <2> QED
    BY <1>2, <2>1, <2>2 DEF WriterSound, UpdaterSound, ReaderSound
<1> QED
  BY <1>4, <1>6, <1>7 DEF ConfigInductive

LEMMA ConfigStep == ASSUME ConfigInductive, [Next]_vars PROVE ConfigInductive'
BY TypeStep, FilesStep, WriterStep, UpdaterStep, ReaderStep DEF ConfigInductive

(* The invariant of everything below, for any tasks and any configs.       *)
THEOREM ConfigSafe == Spec => []ConfigInductive
<1>1. Init => ConfigInductive
  BY ConfigInit
<1>2. ConfigInductive /\ [Next]_vars => ConfigInductive'
  BY ConfigStep
<1> QED
  BY <1>1, <1>2, PTL DEF Spec

(* write_config: whoever reads mode.json reads a whole file, and may read  *)
(* it, whatever writers there are and wherever they die.                   *)
THEOREM FilesWhole == Spec => []WholeFiles
<1>1. ConfigInductive => WholeFiles
  <2> SUFFICES ASSUME ConfigInductive PROVE WholeFiles
    OBVIOUS
  <2>1. \A f \in Files : Published(f) => held[f] # Torn /\ f \notin private
    BY DEF ConfigInductive, FilesSound
  <2>2. path # Nothing => path \in Files /\ Published(path)
    BY DEF ConfigInductive, FilesSound, TypeOK
  <2>3. \A t \in Tasks : opened[t] # Nothing => opened[t] \in Files /\ Published(opened[t])
    BY DEF ConfigInductive, FilesSound, TypeOK
  <2> QED
    BY <2>1, <2>2, <2>3 DEF WholeFiles
<1> QED
  BY <1>1, ConfigSafe, PTL

(* write_config's except: a write that raised before its rename leaves the *)
(* old config, and no temporary file that it could remove.                 *)
THEOREM FailedLeavesNothing == Spec => []NoLitter
<1>1. ConfigInductive => NoLitter
  <2> SUFFICES ASSUME ConfigInductive, NEW w \in Writers
               PROVE  /\ w \in temps => step[w] \in Writing \cup {"littered", "crashed"}
                      /\ step[w] \in Ended \ {"done"} => path # w
    BY DEF NoLitter
  <2>1. w \in temps => step[w] \in Writing \cup {"littered", "crashed"}
    BY DEF ConfigInductive, WriterSound
  <2>2. path = w => step[w] = "done"
    BY DEF ConfigInductive, FilesSound, Published, Files
  <2> QED
    BY <2>1, <2>2
<1> QED
  BY <1>1, ConfigSafe, PTL

LEMMA ReplacesOnly ==
  ASSUME ConfigInductive, [Next]_vars, NEW w \in Writers, path' = w, path # w
  PROVE  Replaces(w)
<1>1. \A e \in Editors : e # w
  OBVIOUS
<1>2. \A u \in Writers : Replaces(u) => u = w
  BY DEF Replaces
<1>3. \A e \in Editors : ~Edits(e)
  BY <1>1 DEF Edits
<1>4. path' = path \/ (\E u \in Writers : Replaces(u)) \/ \E e \in Editors : Edits(e)
  BY StepCases DEF vars, files, Opens, OpenFails, Takes, Asks, Merges, Sets, Makes, MakeFails,
                   Writes, Chmods, Raises, Unlinks, UnlinkFails, Crashes
<1> QED
  BY <1>2, <1>3, <1>4

(* _update keeps every key it does not name, if nobody wrote in between.   *)
THEOREM AloneKeeps == Spec => AloneKeepsRest
<1>1. ConfigInductive /\ [Next]_vars =>
        [\A w \in Updaters :
           path' = w /\ path = opened[w] /\ path # w =>
             held[path] \in Config /\ held'[w] = Merged(held[path], fields[w])]_vars
  <2> SUFFICES ASSUME ConfigInductive, [Next]_vars, NEW w \in Updaters,
                      path' = w, path = opened[w], path # w
               PROVE  held[path] \in Config /\ held'[w] = Merged(held[path], fields[w])
    OBVIOUS
  <2>1. w \in Writers
    BY DEF Writers
  <2>2. Replaces(w)
    BY <2>1, ReplacesOnly
  <2>3. step[w] = "ready" /\ held' = held
    BY <2>2 DEF Replaces, Goes
  <2> QED
    BY <2>1, <2>3 DEF ConfigInductive, WriterSound, UpdaterSound
<1> QED
  BY <1>1, ConfigSafe, PTL DEF Spec, AloneKeepsRest

-----------------------------------------------------------------------------
(* The register.                                                           *)

(* Its configs, updates and snapshots are the same.                        *)
LEMMA SameData ==
  /\ Register!Config = Config /\ Register!Updates = Updates
  /\ Register!Publishers = Writers
  /\ \A f : Register!Valid(f) <=> Valid(f)
  /\ \A c, f : Register!Merged(c, f) = Merged(c, f)
  /\ \A h : Register!TakeSnapshot(h) = TakeSnapshot(h)
BY DEF Register!Config, Register!Updates, Register!Publishers, Register!Valid, Register!Merged,
       Register!TakeSnapshot, Register!Or,
       Config, Updates, Writers, Valid, Merged, TakeSnapshot, Or

LEMMA CurrentSame ==
  ASSUME ConfigInductive, [Next]_vars, path' = path
  PROVE  (IF path = Nothing THEN Nothing ELSE held[path])'
           = IF path = Nothing THEN Nothing ELSE held[path]
BY PublishedStays DEF ConfigInductive, FilesSound, TypeOK

LEMMA TakingSame ==
  ASSUME ConfigInductive, [Next]_vars, NEW r \in Readers,
         step'[r] = step[r], opened'[r] = opened[r], snapshot'[r] = snapshot[r]
  PROVE  Taking(r)' = Taking(r)
<1>1. opened[r] # Nothing => held'[opened'[r]] = held[opened[r]]
  BY OpenedStays DEF Tasks
<1> QED
  BY <1>1 DEF Taking

LEMMA DraftingSame ==
  ASSUME ConfigInductive, [Next]_vars, NEW w \in Writers, opened'[w] = opened[w],
         step'[w] = step[w], fields'[w] = fields[w], draft'[w] = draft[w]
  PROVE  Drafting(w)' = Drafting(w)
<1>1. opened[w] # Nothing => held'[opened'[w]] = held[opened[w]]
  BY OpenedStays DEF Tasks
<1>2. step[w] = "opened" => opened[w] # Nothing
  BY DEF ConfigInductive, UpdaterSound, Writers
<1> QED
  BY <1>1, <1>2 DEF Drafting

(* An update or a write that is not over holds no Spent draft.             *)
LEMMA NotSpent ==
  ASSUME ConfigInductive, NEW w \in Writers,
         step[w] \notin {"unwinding"} \cup Ended
  PROVE  Drafting(w) # Spent
<1>1. step[w] \in Steps /\ fields[w] \in Updates
  BY DEF ConfigInductive, TypeOK, Tasks
<1>2. CASE step[w] \in {"idle", "opening"}
  BY <1>2 DEF Drafting
<1>3. CASE step[w] = "opened"
  BY <1>1, <1>3, MergedConfig DEF Drafting
<1>4. CASE step[w] \in {"drafted", "writing", "written", "ready"}
  BY <1>4 DEF Drafting, ConfigInductive, WriterSound
<1> QED
  BY <1>1, <1>2, <1>3, <1>4 DEF Steps, Ended, Writing

(* Only w's draft has changed, or only r's snapshot, or nothing has.       *)
OnlyDraft(w) == /\ \A u \in Writers : u # w => Drafting(u)' = Drafting(u)
                /\ \A r \in Readers : Taking(r)' = Taking(r)
OnlyTaken(r) == /\ \A u \in Writers : Drafting(u)' = Drafting(u)
                /\ \A q \in Readers : q # r => Taking(q)' = Taking(q)

LEMMA Stutters ==
  ASSUME ConfigInductive, [Next]_vars, path' = path,
         \A w \in Writers : Drafting(w)' = Drafting(w),
         \A r \in Readers : Taking(r)' = Taking(r)
  PROVE  UNCHANGED Register!registerVars
BY CurrentSame DEF Register!registerVars

LEMMA WriterOnly ==
  ASSUME ConfigInductive, [Next]_vars, NEW w \in Writers,
         step' = [step EXCEPT ![w] = step'[w]], opened' = [opened EXCEPT ![w] = opened'[w]],
         fields' = [fields EXCEPT ![w] = fields'[w]], draft' = [draft EXCEPT ![w] = draft'[w]],
         \A r \in Readers : snapshot'[r] = snapshot[r]
  PROVE  OnlyDraft(w)
<1>1. \A t \in Tasks : t # w => step'[t] = step[t] /\ opened'[t] = opened[t]
  BY DEF ConfigInductive, TypeOK
<1>2. \A u \in Writers : u # w => fields'[u] = fields[u] /\ draft'[u] = draft[u]
  BY DEF ConfigInductive, TypeOK
<1> QED
  BY <1>1, <1>2, DraftingSame, TakingSame DEF OnlyDraft, Tasks

LEMMA ReaderOnly ==
  ASSUME ConfigInductive, [Next]_vars, NEW r \in Readers,
         step' = [step EXCEPT ![r] = step'[r]], opened' = [opened EXCEPT ![r] = opened'[r]],
         \A q \in Readers : q # r => snapshot'[q] = snapshot[q],
         UNCHANGED <<fields, draft>>
  PROVE  OnlyTaken(r)
<1>1. \A t \in Tasks : t # r => step'[t] = step[t] /\ opened'[t] = opened[t]
  BY DEF ConfigInductive, TypeOK
<1> QED
  BY <1>1, DraftingSame, TakingSame DEF OnlyTaken, Tasks

LEMMA GivesUp ==
  ASSUME ConfigInductive, [Next]_vars, NEW w \in Writers, OnlyDraft(w), path' = path,
         step[w] \notin Ended,
         step'[w] \in {"unwinding", "failed", "littered", "crashed"}
  PROVE  [Register!Next]_(Register!registerVars)
<1>1. Drafting(w)' = Spent
  BY DEF Drafting
<1>2. CASE step[w] = "unwinding"
  BY <1>1, <1>2, Stutters DEF Drafting, OnlyDraft
<1>3. CASE step[w] # "unwinding"
  <2>1. Drafting(w) # Spent
    BY <1>3, NotSpent
  <2>2. Register!GiveUp(w)
    BY <1>1, <2>1, CurrentSame DEF OnlyDraft, Register!GiveUp
  <2> QED
    BY <2>2 DEF Register!Next, Register!Publishers, Writers
<1> QED
  BY <1>2, <1>3

LEMMA OpensRefines ==
  ASSUME ConfigInductive, [Next]_vars, NEW t \in Readers \cup Updaters, Opens(t)
  PROVE  [Register!Next]_(Register!registerVars)
<1>1. /\ step[t] = Start(t) /\ step'[t] = "opened" /\ path # Nothing /\ opened'[t] = path
      /\ path' = path /\ held' = held /\ UNCHANGED <<fields, draft, snapshot>>
      /\ step' = [step EXCEPT ![t] = step'[t]] /\ opened' = [opened EXCEPT ![t] = opened'[t]]
  BY DEF Opens, Goes, files, ConfigInductive, TypeOK, Tasks, Writers
<1>2. CASE t \in Readers
  <2>1. OnlyTaken(t)
    BY <1>1, <1>2, ReaderOnly
  <2>2. Taking(t) = Nothing
    BY <1>1, <1>2 DEF Start, Taking, ConfigInductive, ReaderSound
  <2>3. Taking(t)' = TakeSnapshot(held[path])
    BY <1>1 DEF Taking
  <2>4. Register!Take(t)
    BY <1>1, <1>2, <2>1, <2>2, <2>3, SameData DEF OnlyTaken, Register!Take
  <2> QED
    BY <1>2, <2>4 DEF Register!Next
<1>3. CASE t \in Updaters
  <2>0. t \in Writers /\ t \notin Readers /\ step[t] = "opening"
    BY <1>1, <1>3 DEF Start, Writers
  <2>1. OnlyDraft(t)
    BY <1>1, <2>0, WriterOnly DEF ConfigInductive, TypeOK
  <2>2. Drafting(t) = Nothing
    BY <2>0 DEF Drafting
  <2>3. Valid(fields[t]) /\ fields[t] \in Updates
    BY <1>3, <2>0 DEF ConfigInductive, UpdaterSound, TypeOK
  <2>4. CASE held[path] \in Config
    <3>1. Drafting(t)' = Merged(held[path], fields[t])
      BY <1>1, <2>4 DEF Drafting
    <3>3. [w \in Writers |-> Drafting(w)]'
            = [[w \in Writers |-> Drafting(w)] EXCEPT ![t] = Merged(held[path], fields[t])]
      BY <2>0, <2>1, <3>1 DEF OnlyDraft
    <3>4. [r \in Readers |-> Taking(r)]' = [r \in Readers |-> Taking(r)]
      BY <2>1 DEF OnlyDraft
    <3>2. Register!Draft(t)
      BY <1>1, <1>3, <2>0, <2>2, <2>3, <2>4, <3>3, <3>4, SameData DEF Register!Draft
    <3> QED
      BY <1>3, <3>2 DEF Register!Next, Register!Publishers
  <2>5. CASE held[path] \notin Config
    <3>1. Drafting(t)' = Nothing
      BY <1>1, <2>5 DEF Drafting
    <3> QED
      BY <1>1, <2>1, <2>2, <3>1, Stutters DEF OnlyDraft
  <2> QED
    BY <2>4, <2>5
<1> QED
  BY <1>2, <1>3

(* A reader fails or is killed: its snapshot, if it has opened the file,   *)
(* is never seen.                                                          *)
LEMMA ReaderStops ==
  ASSUME ConfigInductive, [Next]_vars, NEW r \in Readers, OnlyTaken(r), path' = path,
         opened'[r] = opened[r], step[r] \notin Ended,
         step'[r] \in {"failed", "crashed"}
  PROVE  [Register!Next]_(Register!registerVars)
<1>1. CASE opened[r] = Nothing
  <2>1. Taking(r) = Nothing /\ Taking(r)' = Failed
    BY <1>1 DEF Ended, Taking, ConfigInductive, ReaderSound
  <2>2. Register!GoWithout(r)
    BY <2>1, CurrentSame DEF OnlyTaken, Register!GoWithout
  <2> QED
    BY <2>2 DEF Register!Next
<1>2. CASE opened[r] # Nothing
  <2>1. held'[opened'[r]] = held[opened[r]]
    BY <1>2, OpenedStays DEF Tasks
  <2>2. Taking(r)' = Taking(r)
    BY <1>2, <2>1 DEF Ended, Taking
  <2> QED
    BY <2>2, Stutters DEF OnlyTaken
<1> QED
  BY <1>1, <1>2

LEMMA OpenFailsRefines ==
  ASSUME ConfigInductive, [Next]_vars, NEW t \in Readers \cup Updaters, OpenFails(t)
  PROVE  [Register!Next]_(Register!registerVars)
<1>1. /\ step[t] \in {Start(t), "opened"} /\ step'[t] = "failed"
      /\ path' = path /\ UNCHANGED <<opened, fields, draft>>
      /\ step' = [step EXCEPT ![t] = step'[t]]
      /\ opened' = [opened EXCEPT ![t] = opened'[t]]
      /\ \A q \in Readers : q # t => snapshot'[q] = snapshot[q]
  BY DEF OpenFails, files, ConfigInductive, TypeOK, Tasks, Writers
<1>2. CASE t \in Readers
  BY <1>1, <1>2, ReaderOnly, ReaderStops DEF Ended, Start
<1>3. CASE t \in Updaters
  <2>1. t \in Writers /\ t \notin Readers
    BY <1>3 DEF Writers
  <2>2. OnlyDraft(t)
    BY <1>1, <2>1, WriterOnly DEF ConfigInductive, TypeOK
  <2> QED
    BY <1>1, <2>1, <2>2, GivesUp DEF Ended, Start
<1> QED
  BY <1>2, <1>3

LEMMA TakesRefines ==
  ASSUME ConfigInductive, [Next]_vars, NEW r \in Readers, Takes(r)
  PROVE  [Register!Next]_(Register!registerVars)
<1>1. /\ step[r] = "opened" /\ step'[r] = "done"
      /\ snapshot'[r] = TakeSnapshot(held[opened[r]])
      /\ path' = path /\ UNCHANGED <<opened, fields, draft>>
      /\ step' = [step EXCEPT ![r] = step'[r]]
      /\ opened' = [opened EXCEPT ![r] = opened'[r]]
      /\ \A q \in Readers : q # r => snapshot'[q] = snapshot[q]
  BY DEF Takes, Goes, files, ConfigInductive, TypeOK, Tasks
<1>2. OnlyTaken(r)
  BY <1>1, ReaderOnly
<1>3. Taking(r)' = Taking(r)
  BY <1>1 DEF Taking, ConfigInductive, ReaderSound
<1> QED
  BY <1>1, <1>2, <1>3, Stutters DEF OnlyTaken

LEMMA DraftsRefine ==
  ASSUME ConfigInductive, [Next]_vars, NEW w \in Writers,
         \/ w \in Updaters /\ (Asks(w) \/ Merges(w))
         \/ w \in Setters /\ Sets(w)
  PROVE  [Register!Next]_(Register!registerVars)
<1>1. /\ path' = path /\ held' = held /\ UNCHANGED <<opened, snapshot>>
      /\ step' = [step EXCEPT ![w] = step'[w]] /\ opened' = [opened EXCEPT ![w] = opened'[w]]
      /\ fields' = [fields EXCEPT ![w] = fields'[w]] /\ draft' = [draft EXCEPT ![w] = draft'[w]]
  BY DEF Asks, Merges, Sets, Goes, files, ConfigInductive, TypeOK, Tasks
<1>2. OnlyDraft(w)
  BY <1>1, WriterOnly
<1>3. CASE w \in Updaters /\ Asks(w)
  <2>1. step[w] = "idle" /\ step'[w] \in {"opening", "failed"}
    BY <1>3 DEF Asks, Goes, ConfigInductive, TypeOK, Tasks
  <2>2. CASE step'[w] = "opening"
    BY <1>1, <1>2, <2>1, <2>2, Stutters DEF OnlyDraft, Drafting
  <2>3. CASE step'[w] = "failed"
    BY <1>1, <1>2, <2>1, <2>3, GivesUp DEF Ended
  <2> QED
    BY <2>1, <2>2, <2>3
<1>4. CASE w \in Updaters /\ Merges(w)
  <2>1. CASE held[opened[w]] \in Config
    <3>1. step[w] = "opened" /\ step'[w] = "drafted" /\ draft'[w] = Merged(held[opened[w]], fields[w])
      BY <1>4, <2>1 DEF Merges, Goes, ConfigInductive, TypeOK, Tasks
    <3>2. Drafting(w)' = Drafting(w)
      BY <2>1, <3>1 DEF Drafting
    <3> QED
      BY <1>1, <1>2, <3>2, Stutters DEF OnlyDraft
  <2>2. CASE held[opened[w]] \notin Config
    <3>1. step[w] = "opened" /\ step'[w] = "failed"
      BY <1>4, <2>2 DEF Merges, Goes, ConfigInductive, TypeOK, Tasks
    <3> QED
      BY <1>1, <1>2, <3>1, GivesUp DEF Ended
  <2> QED
    BY <2>1, <2>2
<1>5. CASE w \in Setters /\ Sets(w)
  <2>1. step[w] = "idle" /\ step'[w] = "drafted" /\ draft'[w] \in Config
    BY <1>5 DEF Sets, Goes, ConfigInductive, TypeOK, Tasks
  <2>2. Drafting(w) = Nothing /\ Drafting(w)' = draft'[w]
    BY <2>1 DEF Drafting
  <2>4. [u \in Writers |-> Drafting(u)]'
          = [[u \in Writers |-> Drafting(u)] EXCEPT ![w] = draft'[w]]
    BY <1>2, <2>2 DEF OnlyDraft
  <2>5. [r \in Readers |-> Taking(r)]' = [r \in Readers |-> Taking(r)]
    BY <1>2 DEF OnlyDraft
  <2>3. Register!Draft(w)
    BY <1>1, <1>5, <2>1, <2>2, <2>4, <2>5, SameData DEF Register!Draft
  <2> QED
    BY <2>3 DEF Register!Next, Register!Publishers, Writers
<1> QED
  BY <1>3, <1>4, <1>5

LEMMA WritesRefine ==
  ASSUME ConfigInductive, [Next]_vars, NEW w \in Writers,
         \/ Makes(w) \/ MakeFails(w) \/ Writes(w) \/ Chmods(w)
         \/ Replaces(w) \/ Raises(w) \/ Unlinks(w) \/ UnlinkFails(w)
  PROVE  [Register!Next]_(Register!registerVars)
<1>1. /\ UNCHANGED <<opened, fields, draft, snapshot>>
      /\ step' = [step EXCEPT ![w] = step'[w]] /\ opened' = [opened EXCEPT ![w] = opened'[w]]
      /\ fields' = [fields EXCEPT ![w] = fields'[w]] /\ draft' = [draft EXCEPT ![w] = draft'[w]]
  BY DEF Makes, MakeFails, Writes, Chmods, Replaces, Raises, Unlinks, UnlinkFails, Goes,
         ConfigInductive, TypeOK, Tasks
<1>2. OnlyDraft(w)
  BY <1>1, WriterOnly
<1>3. CASE Makes(w) \/ Writes(w) \/ Chmods(w)
  <2>1. /\ step[w] \in {"drafted", "writing", "written"} /\ path' = path
        /\ step'[w] \in {"writing", "written", "ready"}
    BY <1>3 DEF Makes, Writes, Chmods, Goes, ConfigInductive, TypeOK, Tasks
  <2>2. Drafting(w)' = Drafting(w)
    BY <1>1, <2>1 DEF Drafting
  <2> QED
    BY <1>2, <2>1, <2>2, Stutters DEF OnlyDraft
<1>4. CASE MakeFails(w) \/ Raises(w) \/ Unlinks(w) \/ UnlinkFails(w)
  <2>1. /\ step[w] \notin Ended /\ path' = path
        /\ step'[w] \in {"unwinding", "failed", "littered"}
    BY <1>4 DEF MakeFails, Raises, Unlinks, UnlinkFails, Goes, files, Ended,
             ConfigInductive, TypeOK, Tasks
  <2> QED
    BY <1>2, <2>1, GivesUp
<1>5. CASE Replaces(w)
  <2>1. step[w] = "ready" /\ step'[w] = "done" /\ path' = w /\ held' = held /\ w # Nothing
    BY <1>5 DEF Replaces, Goes, ConfigInductive, TypeOK, Tasks, Files
  <2>2. draft[w] \in Config /\ held[w] = draft[w]
    BY <2>1 DEF ConfigInductive, WriterSound
  <2>3. Drafting(w) = draft[w] /\ Drafting(w)' = Spent
    BY <2>1 DEF Drafting
  <2>4. Register!Publish(w)
    BY <1>2, <2>1, <2>2, <2>3, SameData DEF OnlyDraft, Register!Publish
  <2> QED
    BY <2>4 DEF Register!Next, Register!Publishers, Writers
<1> QED
  BY <1>3, <1>4, <1>5

LEMMA EditsRefine ==
  ASSUME ConfigInductive, [Next]_vars, NEW e \in Editors, Edits(e)
  PROVE  [Register!Next]_(Register!registerVars)
<1>1. /\ UNCHANGED <<opened, fields, draft, snapshot>> /\ path' = e /\ e # Nothing
      /\ \A t \in Tasks : step'[t] = step[t]
      /\ held'[e] \in Config \cup {Garbage}
  BY DEF Edits, Goes, ConfigInductive, TypeOK, Tasks, Files
<1>2. /\ \A w \in Writers : Drafting(w)' = Drafting(w)
      /\ \A r \in Readers : Taking(r)' = Taking(r)
  BY <1>1, DraftingSame, TakingSame DEF Tasks
<1>3. Register!Edit
  BY <1>1, <1>2, SameData DEF Register!Edit
<1> QED
  BY <1>3 DEF Register!Next

LEMMA CrashesRefine ==
  ASSUME ConfigInductive, [Next]_vars, NEW t \in Tasks, Crashes(t)
  PROVE  [Register!Next]_(Register!registerVars)
<1>1. /\ step[t] \notin Ended /\ step'[t] = "crashed"
      /\ path' = path /\ UNCHANGED <<opened, fields, draft, snapshot>>
      /\ step' = [step EXCEPT ![t] = step'[t]]
      /\ opened' = [opened EXCEPT ![t] = opened'[t]]
  BY DEF Crashes, Ended, files, ConfigInductive, TypeOK
<1>2. CASE t \in Readers
  BY <1>1, <1>2, ReaderOnly, ReaderStops
<1>3. CASE t \in Writers
  <2>1. OnlyDraft(t)
    BY <1>1, <1>3, WriterOnly DEF ConfigInductive, TypeOK
  <2> QED
    BY <1>1, <1>3, <2>1, GivesUp
<1> QED
  BY <1>2, <1>3 DEF Tasks

(* config.py is the register it promises to be: a config is published      *)
(* whole, once or not at all, and a snapshot is of one moment.             *)
THEOREM RefinesRegister == Spec => ImplementsRegister
<1>1. Init => Register!Init
  <2> SUFFICES ASSUME Init PROVE Register!Init
    OBVIOUS
  <2>1. (IF path = Nothing THEN Nothing ELSE held[path]) \in Config \cup {Nothing}
    BY DEF Init, Files
  <2>2. \A w \in Writers : Drafting(w) = Nothing
    BY DEF Init, Drafting, Tasks
  <2>3. \A r \in Readers : Taking(r) = Nothing
    BY DEF Init, Taking, Tasks
  <2> QED
    BY <2>1, <2>2, <2>3, SameData DEF Register!Init
<1>2. ConfigInductive /\ [Next]_vars => [Register!Next]_(Register!registerVars)
  <2> SUFFICES ASSUME ConfigInductive, [Next]_vars
               PROVE  [Register!Next]_(Register!registerVars)
    OBVIOUS
  <2>1. CASE UNCHANGED vars
    <3>1. UNCHANGED <<path, held, step, opened, fields, draft, snapshot>>
      BY <2>1 DEF vars, files
    <3>2. /\ \A w \in Writers : Drafting(w)' = Drafting(w)
          /\ \A r \in Readers : Taking(r)' = Taking(r)
      BY <3>1, DraftingSame, TakingSame
    <3> QED
      BY <3>1, <3>2, Stutters
  <2>2. Updaters \subseteq Writers /\ Setters \subseteq Writers
    BY DEF Writers
  <2> QED
    BY <2>1, <2>2, OpensRefines, OpenFailsRefines, TakesRefines, DraftsRefine, WritesRefine,
       EditsRefine, CrashesRefine, StepCases
<1> QED
  BY <1>1, <1>2, ConfigSafe, PTL DEF Spec, ImplementsRegister, Register!Spec
=============================================================================
