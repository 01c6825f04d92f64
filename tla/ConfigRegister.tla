--------------------------- MODULE ConfigRegister ---------------------------
(***************************************************************************)
(* What core/config.py promises of Global Config: a register that is       *)
(* written and read in one step.  An update is two steps, so that one may  *)
(* overwrite what came between; but whole, once, or not at all.            *)
(***************************************************************************)
EXTENDS ConfigFile

CONSTANTS Updaters, Setters, Editors, Readers

VARIABLES current,  \* what the file holds; Nothing, if there is none
          draft,    \* what each update or write is about to publish, or Spent
          taken     \* what each reader has taken

registerVars == <<current, draft, taken>>
Publishers   == Updaters \cup Setters

Init ==
  /\ current \in Config \cup {Nothing}
  /\ draft = [w \in Publishers |-> Nothing]
  /\ taken = [r \in Readers |-> Nothing]

Draft(w) ==
  /\ draft[w] = Nothing
  /\ \/ /\ w \in Updaters /\ current \in Config
        /\ \E f \in Updates : Valid(f) /\ draft' = [draft EXCEPT ![w] = Merged(current, f)]
     \/ w \in Setters /\ \E c \in Config : draft' = [draft EXCEPT ![w] = c]
  /\ UNCHANGED <<current, taken>>

Publish(w) ==
  /\ draft[w] \in Config
  /\ current' = draft[w]
  /\ draft' = [draft EXCEPT ![w] = Spent]
  /\ UNCHANGED taken

GiveUp(w) ==
  /\ draft[w] # Spent
  /\ draft' = [draft EXCEPT ![w] = Spent]
  /\ UNCHANGED <<current, taken>>

(* The operator, by hand. *)
Edit ==
  /\ current' \in Config \cup {Garbage}
  /\ UNCHANGED <<draft, taken>>

Take(r) ==
  /\ taken[r] = Nothing
  /\ taken' = [taken EXCEPT ![r] = TakeSnapshot(current)]
  /\ UNCHANGED <<current, draft>>

GoWithout(r) ==
  /\ taken[r] = Nothing
  /\ taken' = [taken EXCEPT ![r] = Failed]
  /\ UNCHANGED <<current, draft>>

Next == \/ \E w \in Publishers : Draft(w) \/ Publish(w) \/ GiveUp(w)
        \/ Editors # {} /\ Edit
        \/ \E r \in Readers : Take(r) \/ GoWithout(r)

Spec == Init /\ [][Next]_registerVars
=============================================================================
