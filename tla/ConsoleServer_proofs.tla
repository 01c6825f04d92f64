------------------------ MODULE ConsoleServer_proofs ------------------------
(***************************************************************************)
(* The safety of ConsoleServer for any number of sockets, changes, writes  *)
(* and upsets, and any unreadable configs: ServerInductive is an invariant.*)
(*                                                                         *)
(* A step of a broadcast either moves the cast with the lock, the first,   *)
(* or removes it; the first two sections settle what that leaves of the    *)
(* others.                                                                 *)
(***************************************************************************)
EXTENDS ConsoleServer, TLAPS

USE BoundsAssumption, ConfigAssumption

-----------------------------------------------------------------------------
(* Sequences.                                                              *)

(* Moving the first leaves the rest.                                       *)
LEMMA FirstMoved ==
  ASSUME NEW S, NEW q \in Seq(S), 1 \in DOMAIN q, NEW c \in S
  PROVE  /\ [q EXCEPT ![1] = c] \in Seq(S)
         /\ DOMAIN [q EXCEPT ![1] = c] = DOMAIN q
         /\ [q EXCEPT ![1] = c][1] = c
         /\ \A j \in DOMAIN q : j # 1 => [q EXCEPT ![1] = c][j] = q[j]
OBVIOUS

(* Removing the first shifts the rest.                                     *)
LEMMA FirstRemoved ==
  ASSUME NEW S, NEW q \in Seq(S), 1 \in DOMAIN q
  PROVE  /\ Without(q, 1) \in Seq(S)
         /\ \A k \in DOMAIN Without(q, 1) :
              k + 1 \in DOMAIN q /\ k + 1 # 1 /\ Without(q, 1)[k] = q[k + 1]
         /\ \A j \in DOMAIN q : j # 1 =>
              \E k \in DOMAIN Without(q, 1) : Without(q, 1)[k] = q[j]
<1> DEFINE r == Without(q, 1)
<1>1. Len(q) \in Nat /\ Len(q) >= 1
  OBVIOUS
<1>2. /\ r \in Seq(S) /\ Len(r) = Len(q) - 1 /\ DOMAIN r = 1..Len(q) - 1
      /\ \A k \in 1..Len(q) - 1 : r[k] = q[k + 1]
  BY <1>1 DEF Without
<1> HIDE DEF r
<1>3. ASSUME NEW j \in DOMAIN q, j # 1
      PROVE  j - 1 \in DOMAIN r /\ r[j - 1] = q[j]
  BY <1>1, <1>2, <1>3
<1>4. \A k \in DOMAIN r : k + 1 \in DOMAIN q /\ k + 1 # 1 /\ r[k] = q[k + 1]
  BY <1>1, <1>2
<1> QED
  BY <1>2, <1>3, <1>4 DEF r

(* Removing any leaves the others, none of them moved back.                *)
LEMMA OneRemoved ==
  ASSUME NEW S, NEW q \in Seq(S), NEW i \in DOMAIN q
  PROVE  /\ Without(q, i) \in Seq(S)
         /\ \A k \in DOMAIN Without(q, i) : k \in Nat /\
              \E j \in DOMAIN q : j # i /\ (j = 1 => k = 1) /\ Without(q, i)[k] = q[j]
<1> DEFINE r == Without(q, i)
<1>1. Len(q) \in Nat /\ i \in 1..Len(q) /\ DOMAIN q = 1..Len(q)
  OBVIOUS
<1>2. /\ r \in Seq(S) /\ DOMAIN r = 1..Len(q) - 1
      /\ \A k \in 1..Len(q) - 1 : r[k] = q[IF k < i THEN k ELSE k + 1]
  BY <1>1 DEF Without
<1> HIDE DEF r
<1>3. ASSUME NEW k \in DOMAIN r
      PROVE  k \in Nat /\ \E j \in DOMAIN q : j # i /\ (j = 1 => k = 1) /\ r[k] = q[j]
  <2>1. CASE k < i
    BY <1>1, <1>2, <2>1
  <2>2. CASE ~(k < i)
    <3>1. k + 1 \in DOMAIN q /\ k + 1 # i /\ k + 1 # 1 /\ r[k] = q[k + 1] /\ k \in Nat
      BY <1>1, <1>2, <2>2
    <3> QED
      BY <3>1
  <2> QED
    BY <2>1, <2>2
<1> QED
  BY <1>2, <1>3 DEF r

(* An append leaves those before it.                                       *)
LEMMA Appended ==
  ASSUME NEW S, NEW q \in Seq(S), NEW c \in S
  PROVE  /\ Append(q, c) \in Seq(S)
         /\ Len(q) + 1 \in DOMAIN Append(q, c) /\ Append(q, c)[Len(q) + 1] = c
         /\ \A j \in DOMAIN q : j \in DOMAIN Append(q, c) /\ Append(q, c)[j] = q[j]
         /\ \A k \in DOMAIN Append(q, c) : k \in DOMAIN q \/ Append(q, c)[k] = c
OBVIOUS

-----------------------------------------------------------------------------
(* Broadcasts.                                                             *)

(* Whoever is past waiting has the lock, and the lock is the first's.      *)
LEMMA OnlyTheFirst ==
  ASSUME ServerInductive, NEW i \in DOMAIN casts,
         Holds(i) \/ casts[i].step # "waiting"
  PROVE  i = 1
BY DEF ServerInductive, CastsInTurn, Holds

(* The end of the broadcast with the lock keeps the invariant, if whoever  *)
(* waits for news is owed it by another.                                   *)
LEMMA EndsStep ==
  ASSUME ServerInductive, NEW raised \in BOOLEAN, 1 \in DOMAIN casts, Ends(1, raised),
         UNCHANGED <<call, config, sockets, handler, read, closing, serving, toClose, line,
                     got, trouble>>,
         serving = "up" /\ 0..config \cap (Unreadable \cup Malformed) = {} =>
           \A s \in Sockets : Watching(s) /\ got[s].call # call =>
             \E j \in DOMAIN casts : j # 1 /\ Coming(casts[j], s)
  PROVE  ServerInductive'
<1>1. casts \in Seq(Casts)
  BY DEF ServerInductive, TypeOK
<1>2. /\ casts' \in Seq(Casts)
      /\ \A k \in DOMAIN casts' : /\ k + 1 \in DOMAIN casts /\ k + 1 # 1
                                  /\ casts'[k] = casts[k + 1]
      /\ \A j \in DOMAIN casts : j # 1 => \E k \in DOMAIN casts' : casts'[k] = casts[j]
  <2>1. casts' = Without(casts, 1)
    BY DEF Ends
  <2> QED
    BY <1>1, <2>1, FirstRemoved
<1>3. /\ pulse' \in {"sleeping", "casting", "dead", "off"}
      /\ serving # "up" => pulse' = pulse
  <2>1. pulse' \in {"sleeping", "casting", "dead", "off"}
    BY DEF Ends, ServerInductive, TypeOK
  <2>2. serving # "up" => pulse = "off"
    BY DEF ServerInductive, StopsInOrder
  <2>3. casts[1].by = "pulse" => pulse = "casting"
    BY Zenon DEF ServerInductive, OnePulse
  <2> QED
    BY <2>1, <2>2, <2>3 DEF Ends
<1>4. TypeOK'
  BY <1>2, <1>3 DEF ServerInductive, TypeOK
<1>5. CastsInTurn'
  BY <1>2 DEF ServerInductive, CastsInTurn
<1>5a. OnePulse'
  <2>1. \A k \in DOMAIN casts' : casts'[k].by = "pulse" => casts[1].by # "pulse"
    BY <1>2 DEF ServerInductive, OnePulse
  <2>2. \A k, l \in DOMAIN casts' :
          casts'[k].by = "pulse" /\ casts'[l].by = "pulse" => k + 1 = l + 1
    BY <1>2 DEF ServerInductive, OnePulse
  <2>3. \A k \in DOMAIN casts' : k \in Nat
    BY <1>2
  <2>4. CASE casts[1].by = "pulse"
    BY <2>1, <2>2, <2>3, <2>4 DEF Ends, OnePulse
  <2>5. CASE casts[1].by # "pulse"
    <3>1. pulse' = pulse
      BY <2>5 DEF Ends
    <3>2. (\E j \in DOMAIN casts : casts[j].by = "pulse")
            <=> \E k \in DOMAIN casts' : casts'[k].by = "pulse"
      BY <1>2, <2>5
    <3> QED
      BY <2>2, <2>3, <3>1, <3>2 DEF ServerInductive, OnePulse
  <2> QED
    BY <2>4, <2>5
<1>6. HandlersRegister' /\ GivenUpIsClosing'
  BY DEF ServerInductive, HandlersRegister, GivenUpIsClosing
<1>7. StopsInOrder'
  <2>1. serving \notin {"cleaning", "down"}
    BY DEF ServerInductive, StopsInOrder
  <2> QED
    BY <1>2, <1>3, <2>1 DEF ServerInductive, StopsInOrder
<1>8. NobodyLeftBehind'
  <2>1. SUFFICES ASSUME serving = "up", 0..config \cap (Unreadable \cup Malformed) = {},
                        NEW s \in Sockets, Watching(s), got[s].call # call
                 PROVE  \E k \in DOMAIN casts' : Coming(casts[k], s)'
    BY Zenon DEF NobodyLeftBehind, Watching
  <2>2. PICK j \in DOMAIN casts : j # 1 /\ Coming(casts[j], s)
    BY <2>1, Zenon
  <2>3. PICK k \in DOMAIN casts' : casts'[k] = casts[j]
    BY <1>2, <2>2
  <2> QED
    BY <2>2, <2>3 DEF Coming
<1>9. StoppedIsGone'
  BY DEF ServerInductive, StopsInOrder, StoppedIsGone
<1> QED
  BY <1>4, <1>5, <1>6, <1>7, <1>8, <1>9, <1>5a DEF ServerInductive

(* Moving the first cast on keeps the invariant, if it leaves nobody       *)
(* behind and whoever it drops is being closed.                            *)
LEMMA AdvanceStep ==
  ASSUME ServerInductive, NEW c \in Casts, 1 \in DOMAIN casts, Advance(1, c),
         c.by = casts[1].by, c.snapshot.config <= config,
         serving = "up" /\ c.step = "sending" /\ c.snapshot.call # call =>
           \E j \in DOMAIN casts : j # 1 /\ casts[j].step # "sending",
         UNCHANGED <<call, config, handler, read, serving, toClose, line, trouble>>,
         got' \in [Sockets -> Snapshots],
         sockets' \subseteq sockets, closing' \subseteq Sockets,
         sockets \cup closing \subseteq sockets' \cup closing',
         NobodyLeftBehind'
  PROVE  ServerInductive'
<1>1. casts \in Seq(Casts) /\ casts' = [casts EXCEPT ![1] = c] /\ pulse' = pulse
  BY DEF ServerInductive, TypeOK, Advance
<1>2. /\ casts' \in Seq(Casts) /\ DOMAIN casts' = DOMAIN casts /\ casts'[1] = c
      /\ \A j \in DOMAIN casts : j # 1 => casts'[j] = casts[j]
  BY <1>1, FirstMoved
<1>3. serving \in {"up", "stopping"}
  BY DEF ServerInductive, TypeOK, StopsInOrder
<1>4. TypeOK'
  BY <1>1, <1>2 DEF ServerInductive, TypeOK
<1>5. CastsInTurn'
  <2>1. \A i \in DOMAIN casts' : i # 1 => casts'[i].step = "waiting"
    BY <1>2 DEF ServerInductive, CastsInTurn
  <2>2. \A i \in DOMAIN casts' : casts'[i].snapshot.config <= config'
    BY <1>2 DEF ServerInductive, CastsInTurn
  <2>3. ASSUME serving' = "up", NEW i \in DOMAIN casts', casts'[i].step = "sending",
               casts'[i].snapshot.call # call'
        PROVE  \E j \in DOMAIN casts' : casts'[j].step # "sending"
    BY <1>2, <2>1, <2>3
  <2> QED
    BY <2>1, <2>2, <2>3 DEF CastsInTurn
<1>5a. OnePulse'
  <2>1. \A j \in DOMAIN casts : casts'[j].by = casts[j].by
    BY <1>2
  <2> QED
    BY <1>1, <1>2, <2>1 DEF ServerInductive, OnePulse
<1>6. HandlersRegister'
  BY DEF ServerInductive, HandlersRegister
<1>7. StopsInOrder'
  BY <1>1, <1>2, <1>3 DEF ServerInductive, StopsInOrder
<1>8. GivenUpIsClosing'
  BY DEF ServerInductive, GivenUpIsClosing
<1>9. StoppedIsGone'
  BY <1>3 DEF StoppedIsGone
<1> QED
  BY <1>4, <1>5, <1>6, <1>7, <1>8, <1>9, <1>5a DEF ServerInductive

(* One step of one broadcast.                                              *)
LEMMA CastingStep ==
  ASSUME ServerInductive, NEW i \in DOMAIN casts, Casting(i)
  PROVE  ServerInductive'
<1>1. /\ casts \in Seq(Casts) /\ i = 1
      /\ casts[1] \in Casts /\ casts[1].snapshot.config <= config
      /\ casts[1].by \in {"change", "pulse"}
      /\ casts[1].snapshot \in Snapshots /\ casts[1].targets \subseteq Sockets
  <2>1. casts \in Seq(Casts) /\ casts[i] \in Casts
    BY DEF ServerInductive, TypeOK
  <2>2. Holds(i) \/ casts[i].step # "waiting"
    BY DEF Casting, BeginCast, CastReads, CastBuilds, Sends, SendFails, SentTo, CastEnds
  <2>3. i = 1
    BY <2>2, OnlyTheFirst
  <2>4. casts[1].snapshot.config <= config
    BY <2>3 DEF ServerInductive, CastsInTurn
  <2> QED
    BY <2>1, <2>3, <2>4 DEF Casts
<1>2. config \in 0..MaxWrites /\ call \in 0..MaxChanges /\ got \in [Sockets -> Snapshots]
      /\ sockets \subseteq Sockets /\ closing \subseteq Sockets
  BY DEF ServerInductive, TypeOK
<1>3. ASSUME NEW c \in Casts, casts' = [casts EXCEPT ![1] = c]
      PROVE  /\ DOMAIN casts' = DOMAIN casts /\ casts'[1] = c
             /\ \A j \in DOMAIN casts : j # 1 => casts'[j] = casts[j]
  BY <1>1, <1>3, FirstMoved
<1>4. CASE BeginCast(1)
  <2>1. CASE sockets = {}
    BY <1>1, <1>4, <2>1, EndsStep DEF BeginCast, Watching
  <2>2. CASE sockets # {}
    <3> DEFINE c == [casts[1] EXCEPT !.step = "reading"]
    <3>1. c \in Casts /\ c.by = casts[1].by /\ c.step = "reading"
          /\ c.snapshot = casts[1].snapshot
      BY <1>1 DEF Casts
    <3>2. /\ Advance(1, c)
          /\ UNCHANGED <<call, config, sockets, handler, read, closing, serving, toClose,
                         line, got, trouble>>
      BY <1>4, <2>2 DEF BeginCast
    <3> HIDE DEF c
    <3>3. DOMAIN casts' = DOMAIN casts /\ casts'[1] = c
      BY <1>3, <3>1, <3>2 DEF Advance
    <3>4. NobodyLeftBehind'
      BY <1>1, <3>1, <3>3 DEF NobodyLeftBehind, Coming
    <3> QED
      BY <1>1, <1>2, <3>1, <3>2, <3>4, AdvanceStep
  <2> QED
    BY <2>1, <2>2
<1>5. CASE CastReads(1)
  <2> DEFINE c == [casts[1] EXCEPT !.step = "read", !.snapshot.config = config]
  <2>1. c \in Casts /\ c.by = casts[1].by /\ c.step = "read" /\ c.snapshot.config = config
    BY <1>1, <1>2 DEF Casts, Snapshots
  <2>2. /\ Advance(1, c)
        /\ UNCHANGED <<call, config, sockets, handler, read, closing, serving, toClose,
                       line, got, trouble>>
    BY <1>5 DEF CastReads
  <2> HIDE DEF c
  <2>3. DOMAIN casts' = DOMAIN casts /\ casts'[1] = c
    BY <1>3, <2>1, <2>2 DEF Advance
  <2>4. NobodyLeftBehind'
    BY <1>1, <2>1, <2>3 DEF NobodyLeftBehind, Coming
  <2> QED
    BY <1>1, <1>2, <2>1, <2>2, <2>4, AdvanceStep
<1>6. CASE CastBuilds(1)
  <2>1. CASE casts[1].snapshot.config \in Unreadable \cup Malformed
    <3>1. casts[1].snapshot.config \in 0..config
      BY <1>1, <1>2 DEF Snapshots
    <3> DEFINE raised == casts[1].snapshot.config \in Malformed
    <3>2. raised \in BOOLEAN
      OBVIOUS
    <3>3. /\ Ends(1, raised)
          /\ UNCHANGED <<call, config, sockets, handler, read, closing, serving, toClose, line,
                         got, trouble>>
      BY <1>6, <2>1 DEF CastBuilds
    <3>4. 0..config \cap (Unreadable \cup Malformed) # {}
      BY <2>1, <3>1
    <3> HIDE DEF raised
    <3> QED
      BY <1>1, <3>2, <3>3, <3>4, EndsStep
  <2>2. CASE casts[1].snapshot.config \notin Unreadable \cup Malformed
    <3> DEFINE c == [casts[1] EXCEPT !.step = "sending", !.snapshot.call = call,
                                     !.targets = sockets]
    <3>1. /\ c \in Casts /\ c.by = casts[1].by /\ c.step = "sending"
          /\ c.snapshot.config = casts[1].snapshot.config
          /\ c.snapshot.call = call /\ c.targets = sockets
      BY <1>1, <1>2 DEF Casts, Snapshots
    <3>2. /\ Advance(1, c)
          /\ UNCHANGED <<call, config, sockets, handler, read, closing, serving, toClose,
                         line, got, trouble>>
      BY <1>6, <2>2 DEF CastBuilds
    <3> HIDE DEF c
    <3>3. DOMAIN casts' = DOMAIN casts /\ casts'[1] = c
      BY <1>3, <3>1, <3>2 DEF Advance
    <3>4. NobodyLeftBehind'
      BY <1>1, <3>1, <3>2, <3>3 DEF NobodyLeftBehind, Watching, Coming
    <3> QED
      BY <1>1, <1>2, <3>1, <3>2, <3>4, AdvanceStep
  <2> QED
    BY <2>1, <2>2
<1>7. CASE CastEnds(1)
  <2>1. casts[1].step = "sending" /\ casts[1].targets = {}
    BY <1>7 DEF CastEnds
  <2>2. \A s \in Sockets : ~Coming(casts[1], s)
    BY <2>1 DEF Coming
  <2>3. serving = "up" /\ 0..config \cap (Unreadable \cup Malformed) = {} =>
          \A s \in Sockets : Watching(s) /\ got[s].call # call =>
            \E j \in DOMAIN casts : j # 1 /\ Coming(casts[j], s)
    BY <2>2, Zenon DEF ServerInductive, NobodyLeftBehind
  <2> QED
    BY <1>1, <1>7, <2>3, EndsStep DEF CastEnds
<1>8. ASSUME NEW s0 \in Sockets, Sends(1, s0) \/ SendFails(1, s0)
      PROVE  ServerInductive'
  <2> DEFINE c == [casts[1] EXCEPT !.targets = @ \ {s0}]
  <2>1. /\ c \in Casts /\ c.by = casts[1].by /\ c.step = "sending"
        /\ casts[1].step = "sending" /\ c.snapshot = casts[1].snapshot
        /\ c.targets = casts[1].targets \ {s0}
    BY <1>1, <1>8 DEF Casts, Sends, SendFails, SentTo
  <2>2. /\ Advance(1, c)
        /\ UNCHANGED <<call, config, handler, read, serving, toClose, line, trouble>>
    BY <1>8 DEF Sends, SendFails, SentTo
  <2> HIDE DEF c
  <2>3. /\ DOMAIN casts' = DOMAIN casts /\ casts'[1] = c
        /\ \A j \in DOMAIN casts : j # 1 => casts'[j] = casts[j]
    BY <1>3, <2>1, <2>2 DEF Advance
  <2>4. serving = "up" /\ casts[1].snapshot.call # call =>
          \E j \in DOMAIN casts : j # 1 /\ casts[j].step # "sending"
    BY <2>1 DEF ServerInductive, CastsInTurn
  <2>5. \/ sockets' = sockets /\ closing' = closing
           /\ got' = [got EXCEPT ![s0] = casts[1].snapshot]
        \/ sockets' = sockets \ {s0} /\ closing' = closing \cup {s0} /\ got' = got
    BY <1>8 DEF Sends, SendFails
  <2>6. NobodyLeftBehind'
    <3>1. SUFFICES ASSUME serving = "up", 0..config \cap (Unreadable \cup Malformed) = {},
                          NEW s \in Sockets, Watching(s)', got'[s].call # call
                   PROVE  \E k \in DOMAIN casts' : Coming(casts[k], s)'
      BY <2>2 DEF NobodyLeftBehind
    <3>2. CASE s = s0
      <4>1. casts[1].snapshot.call # call
        BY <1>2, <2>5, <3>1, <3>2 DEF Watching
      <4>2. PICK j \in DOMAIN casts : j # 1 /\ casts[j].step # "sending"
        BY <2>4, <3>1, <4>1
      <4> QED
        BY <2>3, <4>2 DEF Coming
    <3>3. CASE s # s0
      <4>1. Watching(s) /\ got[s].call # call
        BY <1>2, <2>2, <2>5, <3>1, <3>3 DEF Watching
      <4>2. PICK j \in DOMAIN casts : Coming(casts[j], s)
        BY <3>1, <4>1, Zenon DEF ServerInductive, NobodyLeftBehind
      <4>3. CASE j = 1
        BY <2>1, <2>2, <2>3, <3>3, <4>2, <4>3 DEF Coming
      <4>4. CASE j # 1
        BY <2>2, <2>3, <4>2, <4>4 DEF Coming
      <4> QED
        BY <4>3, <4>4
    <3> QED
      BY <3>2, <3>3
  <2>7. /\ got' \in [Sockets -> Snapshots] /\ sockets' \subseteq sockets
        /\ closing' \subseteq Sockets /\ sockets \cup closing \subseteq sockets' \cup closing'
    BY <1>1, <1>2, <2>5
  <2> QED
    BY <1>1, <2>1, <2>2, <2>4, <2>6, <2>7, AdvanceStep
<1> QED
  BY <1>1, <1>4, <1>5, <1>6, <1>7, <1>8 DEF Casting

(* A new broadcast queues behind the others, and whoever waits for news    *)
(* has it coming.                                                          *)
LEMMA AppendStep ==
  ASSUME ServerInductive, serving = "up", NEW by \in {"change", "pulse"},
         casts' = Append(casts, Cast(by)),
         by = "pulse" => pulse # "casting",
         pulse' = IF by = "pulse" THEN "casting" ELSE pulse,
         call' \in 0..MaxChanges,
         UNCHANGED <<config, sockets, handler, read, closing, serving, toClose, line, got,
                     trouble>>
  PROVE  ServerInductive'
<1> DEFINE c == Cast(by)
<1>1. /\ c \in Casts /\ c.by = by /\ c.step = "waiting" /\ c.snapshot.config = 0
      /\ casts \in Seq(Casts) /\ config \in Nat
  BY DEF ServerInductive, TypeOK, Cast, Casts, Nothing, Snapshots
<1> HIDE DEF c
<1>2. casts' = Append(casts, c)
  BY DEF c
<1>3. /\ casts' \in Seq(Casts)
      /\ Len(casts) + 1 \in DOMAIN casts' /\ casts'[Len(casts) + 1] = c
      /\ \A j \in DOMAIN casts : j \in DOMAIN casts' /\ casts'[j] = casts[j]
      /\ \A k \in DOMAIN casts' : k \in DOMAIN casts \/ casts'[k] = c
  BY <1>1, <1>2, Appended
<1>4. PICK n \in DOMAIN casts' : casts'[n] = c
  BY <1>3
<1>5. TypeOK'
  BY <1>3 DEF ServerInductive, TypeOK
<1>6. OnePulse'
  <2>1. CASE by = "pulse"
    <3>1. \A j \in DOMAIN casts : casts[j].by # "pulse"
      BY <2>1 DEF ServerInductive, OnePulse
    <3>2. \A k \in DOMAIN casts' : casts'[k].by = "pulse" => k = Len(casts) + 1
      BY <1>1, <1>2, <1>3, <3>1
    <3> QED
      BY <1>1, <1>3, <2>1, <3>2 DEF OnePulse
  <2>2. CASE by # "pulse"
    <3>1. \A k \in DOMAIN casts' : casts'[k].by = "pulse" => k \in DOMAIN casts
      BY <1>1, <1>3, <2>2
    <3> QED
      BY <1>3, <2>2, <3>1 DEF ServerInductive, OnePulse
  <2> QED
    BY <2>1, <2>2
<1>7. CastsInTurn'
  <2>1. \A k \in DOMAIN casts' : k # 1 => casts'[k].step = "waiting"
    BY <1>1, <1>3 DEF ServerInductive, CastsInTurn
  <2>2. \A k \in DOMAIN casts' : casts'[k].snapshot.config <= config'
    BY <1>1, <1>3 DEF ServerInductive, CastsInTurn
  <2> QED
    BY <1>1, <1>4, <2>1, <2>2 DEF CastsInTurn
<1>8. HandlersRegister' /\ StopsInOrder' /\ GivenUpIsClosing' /\ StoppedIsGone'
  BY DEF ServerInductive, HandlersRegister, StopsInOrder, GivenUpIsClosing, StoppedIsGone
<1>9. NobodyLeftBehind'
  <2>1. \A s \in Sockets : Coming(casts[n], s)'
    BY <1>1, <1>4 DEF Coming
  <2> QED
    BY <1>4, <2>1 DEF NobodyLeftBehind
<1> QED
  BY <1>5, <1>6, <1>7, <1>8, <1>9 DEF ServerInductive

-----------------------------------------------------------------------------
(* Handlers, the world and the stop.                                       *)

(* A step that leaves the broadcasts alone keeps what is said of them.     *)
LEMMA CastsAlone ==
  ASSUME ServerInductive, UNCHANGED <<casts, pulse, call, serving>>, config' \in Nat,
         config <= config'
  PROVE  /\ OnePulse' /\ CastsInTurn'
         /\ \A s, i : Coming(casts[i], s)' <=> Coming(casts[i], s)
<1>1. OnePulse'
  BY DEF ServerInductive, OnePulse
<1>2. config \in Nat /\ \A i \in DOMAIN casts : casts[i].snapshot.config \in Nat
  <2>1. config \in Nat /\ casts \in Seq(Casts)
    BY DEF ServerInductive, TypeOK
  <2>2. \A i \in DOMAIN casts : casts[i] \in Casts
    BY <2>1
  <2> QED
    BY <2>1, <2>2 DEF Casts, Snapshots
<1>3. \A i \in DOMAIN casts : casts[i].snapshot.config <= config
  BY DEF ServerInductive, CastsInTurn
<1>4. \A i \in DOMAIN casts' : casts'[i].snapshot.config <= config'
  BY <1>2, <1>3
<1>5. CastsInTurn'
  BY <1>4, Zenon DEF ServerInductive, CastsInTurn
<1>6. \A s, i : Coming(casts[i], s)' <=> Coming(casts[i], s)
  BY DEF Coming
<1> QED
  BY <1>1, <1>5, <1>6

(* What a handler, a browser or an Operator does while nothing is cast.    *)
LEMMA QuietStep ==
  ASSUME ServerInductive, UNCHANGED <<casts, pulse, call, serving>>, config' \in Nat,
         config <= config', TypeOK', HandlersRegister', GivenUpIsClosing', StoppedIsGone',
         toClose' \subseteq toClose, sockets' = {} \/ serving \in {"up", "stopping"},
         closing' \subseteq closing, serving = "down" => handler' = handler,
         \A s \in Sockets : Watching(s)' /\ got'[s].call # call =>
                             Watching(s) /\ got[s].call # call
  PROVE  ServerInductive'
<1>1. /\ OnePulse' /\ CastsInTurn'
      /\ \A s, i : Coming(casts[i], s)' <=> Coming(casts[i], s)
  BY CastsAlone
<1>2. StopsInOrder'
  <2>1. StopsInOrder
    BY DEF ServerInductive
  <2>2. toClose = {} => toClose' = {}
    OBVIOUS
  <2>3. closing = {} => closing' = {}
    OBVIOUS
  <2>4. serving \in {"cleaning", "down"} => sockets' = {}
    OBVIOUS
  <2> QED
    BY <2>1, <2>2, <2>3, <2>4 DEF StopsInOrder
<1>3. 0..config \subseteq 0..config'
  BY DEF ServerInductive, TypeOK
<1>4. NobodyLeftBehind'
  <2>1. SUFFICES ASSUME serving = "up", 0..config' \cap (Unreadable \cup Malformed) = {},
                        NEW s \in Sockets, Watching(s)', got'[s].call # call
                 PROVE  \E k \in DOMAIN casts' : Coming(casts[k], s)'
    BY DEF NobodyLeftBehind
  <2>2. 0..config \cap (Unreadable \cup Malformed) = {}
    BY <1>3, <2>1
  <2>3. PICK k \in DOMAIN casts : Coming(casts[k], s)
    BY <2>1, <2>2 DEF ServerInductive, NobodyLeftBehind
  <2> QED
    BY <1>1, <2>3
<1> QED
  BY <1>1, <1>2, <1>4 DEF ServerInductive

LEMMA ConfigWrittenStep ==
  ASSUME ServerInductive, ConfigWritten
  PROVE  ServerInductive'
<1>1. /\ config \in Nat /\ config' = config + 1 /\ config' \in 0..MaxWrites
      /\ \A s \in Sockets : read[s] \in Nat
  BY DEF ServerInductive, TypeOK, ConfigWritten
<1>2. TypeOK' /\ GivenUpIsClosing' /\ StoppedIsGone'
  BY <1>1 DEF ServerInductive, TypeOK, GivenUpIsClosing, StoppedIsGone, ConfigWritten, serverVars
<1>3. HandlersRegister'
  <2>1. \A s \in Sockets : read'[s] <= config'
    BY <1>1 DEF ServerInductive, HandlersRegister, ConfigWritten, serverVars
  <2> QED
    BY <2>1 DEF ServerInductive, HandlersRegister, ConfigWritten, serverVars
<1>4. sockets' = {} \/ serving \in {"up", "stopping"}
  BY DEF ServerInductive, TypeOK, StopsInOrder, ConfigWritten, serverVars
<1> QED
  BY <1>1, <1>2, <1>3, <1>4, QuietStep DEF ConfigWritten, serverVars, Watching

(* Only connections change: a socket closes, or a stalled one moves on.    *)
LEMMA LineStep ==
  ASSUME ServerInductive, NEW s0 \in Sockets, NEW to \in {"up", "stalled", "closed"},
         line' = [line EXCEPT ![s0] = to],
         to = "closed" \/ line[s0] \in {"up", "stalled"},
         UNCHANGED <<call, config, sockets, handler, read, casts, pulse, serving, got>>,
         trouble' \in 0..MaxTrouble, toClose' \subseteq toClose, closing' \subseteq closing,
         \A s \in closing \ closing' : s = s0 /\ to = "closed"
  PROVE  ServerInductive'
<1>1. TypeOK' /\ HandlersRegister'
  BY DEF ServerInductive, TypeOK, HandlersRegister
<1>2. GivenUpIsClosing'
  BY DEF ServerInductive, TypeOK, GivenUpIsClosing
<1>3. StoppedIsGone'
  BY DEF ServerInductive, TypeOK, StoppedIsGone, StopsInOrder
<1>4. config \in Nat /\ (sockets' = {} \/ serving \in {"up", "stopping"})
  BY DEF ServerInductive, TypeOK, StopsInOrder
<1> QED
  BY <1>1, <1>2, <1>3, <1>4, QuietStep DEF Watching

LEMMA ConnectionsStep ==
  ASSUME ServerInductive, NEW s \in Sockets,
         Stalls(s) \/ Resumes(s) \/ Leaves(s) \/ CloseQuietly(s) \/ StopCloses(s)
  PROVE  ServerInductive'
<1>1. trouble \in 0..MaxTrouble /\ (trouble > 0 => trouble - 1 \in 0..MaxTrouble)
  <2>1. trouble \in 0..MaxTrouble /\ MaxTrouble \in Nat
    BY DEF ServerInductive, TypeOK
  <2> QED
    BY <2>1
<1>2. CASE Stalls(s)
  BY <1>1, <1>2, LineStep DEF Stalls, serverVars
<1>3. CASE Resumes(s)
  BY <1>1, <1>3, LineStep DEF Resumes, serverVars
<1>4. CASE Leaves(s)
  BY <1>1, <1>4, LineStep DEF Leaves, serverVars
<1>5. CASE CloseQuietly(s)
  BY <1>1, <1>5, LineStep DEF CloseQuietly
<1>6. CASE StopCloses(s)
  BY <1>1, <1>6, LineStep DEF StopCloses
<1> QED
  BY <1>2, <1>3, <1>4, <1>5, <1>6

LEMMA HandlerStep ==
  ASSUME ServerInductive, NEW s \in Sockets, Attach(s) \/ Handlers(s)
  PROVE  ServerInductive'
<1>1. /\ config \in Nat /\ config <= config /\ call \in 0..MaxChanges
      /\ config \in 0..MaxWrites
      /\ handler \in [Sockets -> {"none", "reading", "read", "open", "closing", "gone"}]
      /\ line \in [Sockets -> {"fresh", "up", "stalled", "closed"}]
      /\ got \in [Sockets -> Snapshots] /\ read \in [Sockets -> 0..MaxWrites]
      /\ Nothing \in Snapshots
  BY DEF ServerInductive, TypeOK, Nothing, Snapshots
<1>2. serving = "down" => handler[s] \in {"none", "gone"}
  BY DEF ServerInductive, StopsInOrder
<1>3. serving \in {"cleaning", "down"} => sockets = {}
  BY DEF ServerInductive, StopsInOrder
<1>4. CASE Attach(s)
  <2>1. TypeOK' /\ HandlersRegister' /\ GivenUpIsClosing' /\ StoppedIsGone'
    BY <1>1, <1>4 DEF ServerInductive, TypeOK, HandlersRegister, GivenUpIsClosing,
       StoppedIsGone, Attach
  <2>2. \A t \in Sockets : Watching(t)' /\ got'[t].call # call =>
                            Watching(t) /\ got[t].call # call
    BY <1>1, <1>4 DEF Watching, Attach
  <2> QED
    BY <1>1, <1>4, <2>1, <2>2, QuietStep DEF Attach
<1>5. CASE HandlerReads(s)
  <2>1. TypeOK' /\ HandlersRegister' /\ GivenUpIsClosing' /\ StoppedIsGone'
    BY <1>1, <1>5 DEF ServerInductive, TypeOK, HandlersRegister, GivenUpIsClosing,
       StoppedIsGone, HandlerReads
  <2>2. \A t \in Sockets : Watching(t)' /\ got'[t].call # call =>
                            Watching(t) /\ got[t].call # call
    BY <1>1, <1>5 DEF Watching, HandlerReads
  <2>3. sockets' = {} \/ serving \in {"up", "stopping"}
    BY <1>3, <1>5 DEF HandlerReads, ServerInductive, TypeOK
  <2> QED
    BY <1>1, <1>2, <1>5, <2>1, <2>2, <2>3, QuietStep DEF HandlerReads
<1>6. CASE HandlerEnds(s)
  <2>1. TypeOK' /\ HandlersRegister' /\ GivenUpIsClosing' /\ StoppedIsGone'
    BY <1>1, <1>6 DEF ServerInductive, TypeOK, HandlersRegister, GivenUpIsClosing,
       StoppedIsGone, HandlerEnds, Detach
  <2>2. \A t \in Sockets : Watching(t)' /\ got'[t].call # call =>
                            Watching(t) /\ got[t].call # call
    BY <1>1, <1>6 DEF Watching, HandlerEnds, Detach
  <2>3. sockets' = {} \/ serving \in {"up", "stopping"}
    BY <1>3, <1>6 DEF HandlerEnds, Detach, ServerInductive, TypeOK
  <2> QED
    BY <1>1, <1>2, <1>6, <2>1, <2>2, <2>3, QuietStep DEF HandlerEnds, Detach
<1>7. CASE FirstSnapshot(s)
  <2> DEFINE snap == [config |-> read[s], call |-> call]
  <2>1. snap \in Snapshots /\ snap.call = call
    BY <1>1 DEF Snapshots
  <2>2. \/ Detach(s) /\ line' = [line EXCEPT ![s] = "closed"]
        \/ /\ handler' = [handler EXCEPT ![s] = "open"]
           /\ got' = [got EXCEPT ![s] = snap]
           /\ UNCHANGED <<sockets, line>>
        \/ /\ handler' = [handler EXCEPT ![s] = "closing"]
           /\ line' = [line EXCEPT ![s] = "closed"]
           /\ UNCHANGED <<sockets, got>>
    BY <1>7 DEF FirstSnapshot
  <2>3. /\ handler[s] = "read" /\ read' = [read EXCEPT ![s] = 0]
        /\ UNCHANGED <<call, config, casts, pulse, closing, serving, toClose, trouble>>
    BY <1>7 DEF FirstSnapshot
  <2> HIDE DEF snap
  <2>4. TypeOK'
    <3>1. /\ handler' \in [Sockets -> {"none", "reading", "read", "open", "closing", "gone"}]
          /\ line' \in [Sockets -> {"fresh", "up", "stalled", "closed"}]
          /\ got' \in [Sockets -> Snapshots]
      BY <1>1, <2>1, <2>2 DEF Detach
    <3>2. read' \in [Sockets -> 0..MaxWrites]
      <4>1. 0 \in 0..MaxWrites
        OBVIOUS
      <4> QED
        BY <1>1, <2>3, <4>1
    <3>3. sockets' \subseteq Sockets
      BY <2>2 DEF Detach, ServerInductive, TypeOK
    <3> QED
      BY <2>3, <3>1, <3>2, <3>3 DEF ServerInductive, TypeOK
  <2>5. HandlersRegister'
    BY <1>1, <2>2, <2>3 DEF ServerInductive, HandlersRegister, Detach
  <2>6. GivenUpIsClosing' /\ StoppedIsGone'
    BY <1>1, <1>2, <2>2, <2>3 DEF ServerInductive, GivenUpIsClosing, StoppedIsGone, Detach
  <2>7. \A t \in Sockets : Watching(t)' /\ got'[t].call # call =>
                            Watching(t) /\ got[t].call # call
    BY <1>1, <2>1, <2>2, <2>3 DEF Watching, Detach
  <2>8. sockets' = {} \/ serving \in {"up", "stopping"}
    BY <1>3, <2>2, <2>3 DEF Detach, ServerInductive, TypeOK
  <2> QED
    BY <1>1, <1>2, <2>2, <2>3, <2>4, <2>5, <2>6, <2>7, <2>8, QuietStep
<1> QED
  BY <1>4, <1>5, <1>6, <1>7 DEF Handlers

LEMMA StopBeginsStep ==
  ASSUME ServerInductive, StopBegins
  PROVE  ServerInductive'
<1>1. /\ casts \in Seq(Casts) /\ serving = "up" /\ serving' = "stopping" /\ pulse' = "off"
      /\ trouble \in 0..MaxTrouble /\ MaxTrouble \in Nat /\ trouble > 0
  BY DEF ServerInductive, TypeOK, StopBegins
<1>2. /\ casts' \in Seq(Casts)
      /\ \A k \in DOMAIN casts' : \E j \in DOMAIN casts :
           casts[j].by # "pulse" /\ (j = 1 => k = 1) /\ casts'[k] = casts[j]
  <2>1. CASE pulse = "casting"
    <3>1. PICK i \in DOMAIN casts : casts[i].by = "pulse" /\ casts' = Without(casts, i)
      BY <2>1 DEF StopBegins
    <3>2. \A j \in DOMAIN casts : j # i => casts[j].by # "pulse"
      BY <3>1 DEF ServerInductive, OnePulse
    <3> QED
      BY <1>1, <3>1, <3>2, OneRemoved
  <2>2. CASE pulse # "casting"
    <3>1. casts' = casts
      BY <2>2 DEF StopBegins
    <3>2. \A j \in DOMAIN casts : casts[j].by # "pulse"
      BY <2>2 DEF ServerInductive, OnePulse
    <3> QED
      BY <1>1, <3>1, <3>2
  <2> QED
    BY <2>1, <2>2
<1>3. TypeOK'
  <2>1. trouble' \in 0..MaxTrouble
    BY <1>1 DEF StopBegins
  <2> QED
    BY <1>1, <1>2, <2>1 DEF ServerInductive, TypeOK, StopBegins
<1>4. OnePulse'
  <2>1. \A k \in DOMAIN casts' : casts'[k].by # "pulse"
    BY <1>2
  <2> QED
    BY <1>1, <2>1 DEF OnePulse
<1>5. CastsInTurn'
  <2>1. \A k \in DOMAIN casts' : k # 1 => casts'[k].step = "waiting"
    BY <1>2 DEF ServerInductive, CastsInTurn
  <2>2. \A k \in DOMAIN casts' : casts'[k].snapshot.config <= config'
    BY <1>2 DEF ServerInductive, CastsInTurn, StopBegins
  <2> QED
    BY <1>1, <2>1, <2>2 DEF CastsInTurn
<1>6. HandlersRegister' /\ GivenUpIsClosing'
  BY DEF ServerInductive, HandlersRegister, GivenUpIsClosing, StopBegins
<1>7. StopsInOrder' /\ NobodyLeftBehind' /\ StoppedIsGone'
  BY <1>1 DEF StopsInOrder, NobodyLeftBehind, StoppedIsGone
<1> QED
  BY <1>3, <1>4, <1>5, <1>6, <1>7 DEF ServerInductive

LEMMA StopClearsStep ==
  ASSUME ServerInductive, StopClears
  PROVE  ServerInductive'
<1>1. serving' = "cleaning" /\ casts' = <<>> /\ sockets' = {} /\ closing' = {} /\ toClose' = {}
  BY DEF StopClears
<1>2. pulse' = "off"
  BY DEF ServerInductive, StopsInOrder, StopClears
<1>3. casts' \in Seq(Casts) /\ DOMAIN casts' = {}
  BY <1>1
<1>4. TypeOK'
  BY <1>1, <1>3 DEF ServerInductive, TypeOK, StopClears
<1>5. OnePulse' /\ CastsInTurn'
  BY <1>1, <1>2, <1>3 DEF OnePulse, CastsInTurn
<1>6. HandlersRegister' /\ StopsInOrder'
  BY <1>1, <1>2 DEF ServerInductive, HandlersRegister, StopsInOrder, StopClears
<1>7. NobodyLeftBehind' /\ GivenUpIsClosing' /\ StoppedIsGone'
  BY <1>1 DEF NobodyLeftBehind, GivenUpIsClosing, StoppedIsGone
<1> QED
  BY <1>4, <1>5, <1>6, <1>7 DEF ServerInductive

LEMMA StopEndsStep ==
  ASSUME ServerInductive, StopEnds
  PROVE  ServerInductive'
<1>1. /\ serving' = "down" /\ casts = <<>> /\ sockets = {} /\ closing = {} /\ toClose = {}
      /\ pulse = "off"
      /\ UNCHANGED <<call, config, sockets, read, casts, pulse, closing, toClose, got, trouble>>
  BY DEF ServerInductive, StopsInOrder, StopEnds
<1>2. /\ line' \in [Sockets -> {"fresh", "closed"}] /\ handler' \in [Sockets -> {"none", "gone"}]
      /\ \A s \in Sockets : line'[s] = "fresh" => handler'[s] = "none"
  BY DEF StopEnds, ServerInductive, HandlersRegister
<1>3. TypeOK'
  BY <1>1, <1>2 DEF ServerInductive, TypeOK
<1>4. OnePulse' /\ CastsInTurn'
  BY <1>1 DEF OnePulse, CastsInTurn
<1>5. HandlersRegister'
  BY <1>1, <1>2 DEF ServerInductive, HandlersRegister
<1>6. StopsInOrder' /\ NobodyLeftBehind' /\ GivenUpIsClosing' /\ StoppedIsGone'
  BY <1>1, <1>2 DEF StopsInOrder, NobodyLeftBehind, GivenUpIsClosing, StoppedIsGone
<1> QED
  BY <1>3, <1>4, <1>5, <1>6 DEF ServerInductive

-----------------------------------------------------------------------------
(* The theorems.                                                           *)

LEMMA ServerInit == Init => ServerInductive
<1> SUFFICES ASSUME Init PROVE ServerInductive
  OBVIOUS
<1>1. TypeOK
  <2>1. Nothing \in Snapshots /\ 0 \in 0..MaxWrites /\ MaxTrouble \in 0..MaxTrouble
    BY DEF Nothing, Snapshots
  <2> QED
    BY <2>1 DEF Init, TypeOK
<1>2. OnePulse /\ CastsInTurn /\ HandlersRegister /\ StopsInOrder
  BY DEF Init, OnePulse, CastsInTurn, HandlersRegister, StopsInOrder
<1>3. NobodyLeftBehind /\ GivenUpIsClosing /\ StoppedIsGone
  BY DEF Init, NobodyLeftBehind, Watching, GivenUpIsClosing, StoppedIsGone
<1> QED
  BY <1>1, <1>2, <1>3 DEF ServerInductive

LEMMA ServerNext == ServerInductive /\ [Next]_vars => ServerInductive'
<1> SUFFICES ASSUME ServerInductive, [Next]_vars PROVE ServerInductive'
  OBVIOUS
<1>1. CASE EngineChanges
  <2>1. call' \in 0..MaxChanges
    BY <1>1 DEF EngineChanges, ServerInductive, TypeOK
  <2>2. CASE serving = "up"
    BY <1>1, <2>1, <2>2, AppendStep DEF EngineChanges
  <2>3. CASE serving # "up"
    <3>1. UNCHANGED <<config, sockets, handler, read, casts, pulse, closing, serving, toClose,
                      line, got, trouble>>
      BY <1>1, <2>3 DEF EngineChanges
    <3> QED
      BY <2>1, <2>3, <3>1 DEF ServerInductive, TypeOK, OnePulse, CastsInTurn, HandlersRegister,
         StopsInOrder, NobodyLeftBehind, GivenUpIsClosing, StoppedIsGone
  <2> QED
    BY <2>2, <2>3
<1>2. CASE ConfigWritten
  BY <1>2, ConfigWrittenStep
<1>3. CASE StopBegins
  BY <1>3, StopBeginsStep
<1>4. CASE Stopping
  BY <1>4, StopClearsStep, StopEndsStep, ConnectionsStep DEF Stopping
<1>5. CASE PulseFires
  <2>1. serving = "up" /\ call \in 0..MaxChanges
    BY <1>5 DEF PulseFires, ServerInductive, StopsInOrder, TypeOK
  <2> QED
    BY <1>5, <2>1, AppendStep DEF PulseFires
<1>6. CASE \E i \in DOMAIN casts : Casting(i)
  BY <1>6, CastingStep
<1>7. ASSUME NEW s \in Sockets,
             \/ Attach(s) \/ Handlers(s) \/ CloseQuietly(s)
             \/ Stalls(s) \/ Resumes(s) \/ Leaves(s)
      PROVE  ServerInductive'
  BY <1>7, HandlerStep, ConnectionsStep
<1>8. CASE UNCHANGED vars
  BY <1>8 DEF vars, serverVars, ServerInductive, TypeOK, OnePulse, CastsInTurn, HandlersRegister,
     StopsInOrder, NobodyLeftBehind, Watching, Coming, GivenUpIsClosing, StoppedIsGone
<1> QED
  BY <1>1, <1>2, <1>3, <1>4, <1>5, <1>6, <1>7, <1>8 DEF Next, World

(* The inductive invariant of the telemetry server.                        *)
THEOREM ServerInvariant == Spec => []ServerInductive
<1> QED
  BY ServerInit, ServerNext, PTL DEF Spec

(* Whoever watches an earlier state of the call has news coming, however   *)
(* broadcasts, attaches, stalls and departures interleave.                 *)
THEOREM NobodyIsLeftBehind == Spec => []NobodyLeftBehind
<1>1. ServerInductive => NobodyLeftBehind
  BY DEF ServerInductive
<1> QED
  BY <1>1, ServerInvariant, PTL

(* A browser whose connection still stands is registered, or being closed. *)
THEOREM TheGivenUpAreClosed == Spec => []GivenUpIsClosing
<1>1. ServerInductive => GivenUpIsClosing
  BY DEF ServerInductive
<1> QED
  BY <1>1, ServerInvariant, PTL

(* After stop() nothing of the server is left, and nothing comes back.     *)
THEOREM StopIsComplete == Spec => []StoppedIsGone
<1>1. ServerInductive => StoppedIsGone
  BY DEF ServerInductive
<1> QED
  BY <1>1, ServerInvariant, PTL
=============================================================================
