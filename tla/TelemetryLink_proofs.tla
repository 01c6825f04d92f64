------------------------- MODULE TelemetryLink_proofs -------------------------
(***************************************************************************)
(* The safety of TelemetryLink for any amount of trouble and any number of *)
(* starts, stops and wakes: LinkInductive is an invariant.                 *)
(*                                                                         *)
(* Nearly every callback either concerns a generation that is past, and    *)
(* then moves only that socket's own phase, or retires the generation it   *)
(* concerns.  The first section settles what a new generation leaves of    *)
(* the sockets; the second has one lemma per kind of callback.             *)
(***************************************************************************)
EXTENDS TelemetryLink, TLAPS

USE BudgetAssumption DEF Connections, Phases

-----------------------------------------------------------------------------
(* Generations.                                                            *)

(* Letting go of the held socket leaves every phase a phase, and no socket *)
(* in use.                                                                 *)
LEMMA LettingGo ==
  ASSUME LinkInductive
  PROVE  /\ LetGo \in [1..generation -> Phases]
         /\ \A g \in 1..generation : LetGo[g] \notin {"connecting", "open", "dead"}
<1>1. CASE socket = 0
  BY <1>1 DEF LinkInductive, TypeOK, NoSocketLeaks, Sockets, InUse, LetGo
<1>2. CASE socket # 0
  BY <1>2 DEF LinkInductive, TypeOK, NoSocketLeaks, Sockets, InUse, LetGo, Hung
<1> QED
  BY <1>1, <1>2

(* A new generation is the last, and leaves the earlier phases as they are.*)
LEMMA NextGeneration ==
  ASSUME generation \in Nat, NEW n \in [1..generation -> Phases], NEW p \in Phases
  PROVE  /\ NextNet(n, p) \in [1..generation + 1 -> Phases]
         /\ \A g \in 1..generation : NextNet(n, p)[g] = n[g]
         /\ NextNet(n, p)[generation + 1] = p
         /\ 1..generation \subseteq 1..generation + 1
         /\ 0..generation \subseteq 0..generation + 1
         /\ generation + 1 \in 1..generation + 1
         /\ generation + 1 \notin 1..generation
         /\ \A g \in 1..generation + 1 : g \in 1..generation \/ g = generation + 1
BY DEF NextNet

-----------------------------------------------------------------------------
(* The steps.                                                              *)

(* Connecting keeps the invariant, if no retry is pending any more.        *)
LEMMA ConnectStep ==
  ASSUME LinkInductive, Connect, running' = TRUE, retryTimer' = FALSE,
         attempt' \in Nat, signedIn' = signedIn, trouble' = trouble,
         nudges' \in 0..MaxNudges
  PROVE  LinkInductive'
<1>1. /\ LetGo \in [1..generation -> Phases]
      /\ \A g \in 1..generation : LetGo[g] \notin {"connecting", "open", "dead"}
  BY LettingGo
<1>2. generation \in Nat /\ generation + 1 # 0
  BY DEF LinkInductive, TypeOK
<1>3. TypeOK'
  <2>1. net' \in [1..generation' -> Phases]
    BY <1>1, <1>2, NextGeneration DEF Connect
  <2>2. /\ probes' \subseteq 1..generation' /\ opened' \subseteq 1..generation'
        /\ snapshot' \in 0..generation' /\ socket' \in 0..generation'
    BY <1>2 DEF LinkInductive, TypeOK, Connect
  <2>3. /\ stale' \in BOOLEAN /\ signedIn' \in BOOLEAN /\ running' \in BOOLEAN
        /\ retryTimer' \in BOOLEAN /\ silenceTimer' \in BOOLEAN /\ retryAt' \in BOOLEAN
    BY Zenon DEF LinkInductive, TypeOK, Connect, Remembering
  <2>4. /\ generation' \in Nat /\ connection' \in Connections
        /\ trouble' \in 0..MaxTrouble
    BY <1>2 DEF LinkInductive, TypeOK, Connect
  <2> QED
    BY <2>1, <2>2, <2>3, <2>4, Zenon DEF TypeOK
<1>4. HoldsItsOwn'
  BY <1>2 DEF Connect, HoldsItsOwn
<1>5. NoMemoryAsNews'
  BY DEF Connect, NoMemoryAsNews, Remembering
<1>6. NoSocketLeaks'
  BY <1>1, <1>2, NextGeneration DEF Connect, NoSocketLeaks, Sockets, InUse
<1>7. OneThingAwaited'
  <2>1. generation + 1 \notin probes
    BY <1>2 DEF LinkInductive, TypeOK
  <2>2. Awaited' = {"socket"}
    BY <1>2, <2>1 DEF Connect, Awaited
  <2> QED
    BY <2>2 DEF Connect, OneThingAwaited
<1>8. LoginOnlyWhenForgotten'
  BY DEF Connect, LoginOnlyWhenForgotten
<1> QED
  BY <1>3, <1>4, <1>5, <1>6, <1>7, <1>8 DEF LinkInductive

(* Retiring the current generation keeps the invariant, when the link      *)
(* comes to be lost and to await its retry, or is not running.             *)
LEMMA RetireStep ==
  ASSUME LinkInductive, NEW n \in [1..generation -> Phases],
         \A g \in 1..generation : n[g] \notin {"connecting", "open", "dead"},
         generation' = generation + 1, net' = NextNet(n, "never"),
         socket' = 0, silenceTimer' = FALSE,
         opened' = opened, snapshot' = snapshot, signedIn' = signedIn,
         running' \in BOOLEAN, retryTimer' \in BOOLEAN, stale' \in BOOLEAN,
         retryAt' \in BOOLEAN, attempt' \in Nat, connection' \in Connections,
         trouble' \in 0..MaxTrouble, nudges' \in 0..MaxNudges,
         probes' = probes \/ probes' = probes \cup {generation'},
         ~running' => ~retryTimer',
         connection' = "unauthorized" => connection = "unauthorized",
         running' => /\ connection' = "lost" /\ stale' = Remembering
                     /\ retryAt' = retryTimer'
                     /\ probes' = probes <=> retryTimer'
  PROVE  LinkInductive'
<1>1. generation \in Nat /\ generation + 1 # 0 /\ generation + 1 \notin probes
  BY DEF LinkInductive, TypeOK
<1>2. /\ net' \in [1..generation' -> Phases]
      /\ \A g \in 1..generation' : net'[g] \notin {"connecting", "open", "dead"}
      /\ net'[generation'] = "never"
  BY <1>1, NextGeneration
<1>3. TypeOK'
  <2>1. /\ generation' \in Nat
        /\ snapshot' \in 0..generation' /\ socket' \in 0..generation'
    BY <1>1 DEF LinkInductive, TypeOK
  <2>2. opened' \subseteq 1..generation' /\ probes \subseteq 1..generation'
    BY <1>1 DEF LinkInductive, TypeOK
  <2>3. generation' \in 1..generation'
    BY <1>1
  <2>4. probes' \subseteq 1..generation'
    BY <2>2, <2>3, Zenon
  <2>5. signedIn' \in BOOLEAN /\ silenceTimer' \in BOOLEAN
    BY Zenon DEF LinkInductive, TypeOK
  <2> QED
    BY <1>2, <2>1, <2>2, <2>4, <2>5, Zenon DEF TypeOK
<1>4. HoldsItsOwn'
  BY <1>2 DEF HoldsItsOwn
<1>5. NoMemoryAsNews'
  BY DEF NoMemoryAsNews, Remembering
<1>6. NoSocketLeaks'
  BY <1>2 DEF NoSocketLeaks, Sockets, InUse
<1>7. OneThingAwaited'
  <2>1. ASSUME running', probes' = probes
        PROVE  retryTimer' /\ Awaited' = {"retry"}
    <3>1. generation' \notin probes'
      BY <1>1, <2>1
    <3>2. retryTimer'
      BY <2>1, Zenon
    <3> QED
      BY <3>1, <3>2 DEF Awaited
  <2>2. ASSUME running', probes' # probes
        PROVE  ~retryTimer' /\ Awaited' = {"probe"}
    <3>1. generation' \in probes'
      BY <1>1, <2>2
    <3>2. ~retryTimer'
      BY <2>2, Zenon
    <3> QED
      BY <3>1, <3>2 DEF Awaited
  <2> QED
    BY <2>1, <2>2, Zenon DEF OneThingAwaited
<1>8. LoginOnlyWhenForgotten'
  BY DEF LinkInductive, LoginOnlyWhenForgotten
<1> QED
  BY <1>3, <1>4, <1>5, <1>6, <1>7, <1>8 DEF LinkInductive

(* A step that moves only sockets' phases keeps the invariant, if it puts  *)
(* none in use that was not and leaves generations without one without.    *)
LEMMA PhaseStep ==
  ASSUME LinkInductive, UNCHANGED <<linkVars, stateVars>>,
         nudges' = nudges, trouble' \in 0..MaxTrouble, signedIn' \in BOOLEAN,
         signedIn' => signedIn,
         net' \in [1..generation -> Phases],
         \A g \in 1..generation :
           /\ net'[g] \in {"connecting", "open", "dead"} =>
                net[g] \in {"connecting", "open", "dead"}
           /\ net[g] = "never" => net'[g] = "never"
  PROVE  LinkInductive'
<1> USE DEF linkVars, stateVars
<1>1. TypeOK'
  BY DEF LinkInductive, TypeOK
<1>2. HoldsItsOwn'
  <2>1. generation # 0 => generation \in 1..generation
    BY DEF LinkInductive, TypeOK
  <2> QED
    BY <2>1 DEF LinkInductive, HoldsItsOwn
<1>3. NoMemoryAsNews'
  BY DEF LinkInductive, NoMemoryAsNews, Remembering
<1>4. NoSocketLeaks'
  BY DEF LinkInductive, TypeOK, NoSocketLeaks, Sockets, InUse
<1>5. OneThingAwaited' /\ LoginOnlyWhenForgotten'
  BY DEF LinkInductive, OneThingAwaited, Awaited, LoginOnlyWhenForgotten
<1> QED
  BY <1>1, <1>2, <1>3, <1>4, <1>5 DEF LinkInductive

-----------------------------------------------------------------------------
(* What the invariant says of the socket and of what is awaited.           *)

(* A socket in use is the current one, and the one held.                   *)
LEMMA InUseIsCurrent ==
  ASSUME LinkInductive, NEW g \in 1..generation,
         net[g] \in {"connecting", "open", "dead"}
  PROVE  g = generation /\ g = socket /\ running
BY DEF LinkInductive, TypeOK, HoldsItsOwn, NoSocketLeaks, Sockets, InUse

(* Of socket, probe and retry a running link awaits one, or after being    *)
(* sent to log in none.                                                    *)
LEMMA Awaiting ==
  ASSUME LinkInductive, running
  PROVE  /\ socket # 0 => /\ ~retryTimer /\ generation \notin probes
                          /\ connection # "unauthorized"
         /\ generation \in probes => /\ socket = 0 /\ ~retryTimer
                                     /\ connection # "unauthorized"
         /\ retryTimer => /\ socket = 0 /\ generation \notin probes
                          /\ connection # "unauthorized"
         /\ retryAt = retryTimer
<1>1. CASE connection = "unauthorized"
  <2>1. Awaited = {} /\ retryAt = retryTimer
    BY <1>1, Zenon DEF LinkInductive, OneThingAwaited
  <2>2. "socket" \notin Awaited /\ "probe" \notin Awaited /\ "retry" \notin Awaited
    BY <2>1
  <2>3. socket = 0 /\ generation \notin probes /\ ~retryTimer
    BY <2>2 DEF Awaited
  <2> QED
    BY <2>1, <2>3, Zenon
<1>2. CASE connection # "unauthorized"
  <2>1. retryAt = retryTimer /\ \E w \in Awaited : Awaited = {w}
    BY <1>2, Zenon DEF LinkInductive, OneThingAwaited
  <2>2. PICK w \in Awaited : Awaited = {w}
    BY <2>1
  <2>3. /\ "socket" \in Awaited => w = "socket"
        /\ "probe" \in Awaited => w = "probe"
        /\ "retry" \in Awaited => w = "retry"
    BY <2>2
  <2>4. /\ "socket" \in Awaited <=> socket # 0
        /\ "probe" \in Awaited <=> generation \in probes
        /\ "retry" \in Awaited <=> retryTimer
    BY DEF Awaited
  <2>5. /\ socket # 0 => ~retryTimer /\ generation \notin probes
        /\ generation \in probes => socket = 0 /\ ~retryTimer
        /\ retryTimer => socket = 0 /\ generation \notin probes
    BY <2>3, <2>4
  <2> QED
    BY <1>2, <2>1, <2>5, Zenon
<1> QED
  BY <1>1, <1>2

-----------------------------------------------------------------------------
(* The callbacks.                                                          *)

(* A closed socket is of the past, and then only its phase moves, or it is *)
(* the one held, and its generation is retired.                            *)
LEMMA OnCloseStep ==
  ASSUME LinkInductive, NEW g \in 1..generation, NEW phase \in {"failed", "closed"},
         net[g] # "never", OnClose(g, phase),
         signedIn' = signedIn, trouble' \in 0..MaxTrouble, nudges' = nudges
  PROVE  LinkInductive'
<1> DEFINE n == [net EXCEPT ![g] = phase]
<1>1. /\ n \in [1..generation -> Phases]
      /\ \A h \in 1..generation : h # g => n[h] = net[h]
      /\ n[g] = phase
  BY DEF LinkInductive, TypeOK
<1>2. CASE g # generation
  <2>1. UNCHANGED <<linkVars, stateVars>> /\ net' = n
    BY <1>2 DEF OnClose, linkVars, stateVars
  <2>2. \A h \in 1..generation :
          /\ net'[h] \in {"connecting", "open", "dead"} =>
               net[h] \in {"connecting", "open", "dead"}
          /\ net[h] = "never" => net'[h] = "never"
    BY <1>1, <2>1
  <2>3. signedIn' \in BOOLEAN /\ (signedIn' => signedIn)
    BY Zenon DEF LinkInductive, TypeOK
  <2> QED
    BY <1>1, <2>1, <2>2, <2>3, PhaseStep
<1>3. CASE g = generation
  <2> HIDE DEF n
  <2>1. \A h \in 1..generation : n[h] \notin {"connecting", "open", "dead"}
    BY <1>1, <1>3, InUseIsCurrent
  <2>2. /\ generation' = generation + 1 /\ net' = NextNet(n, "never")
        /\ socket' = 0 /\ silenceTimer' = FALSE
        /\ Lost(g \in opened)
        /\ opened' = opened /\ snapshot' = snapshot /\ running' = running
    BY <1>3 DEF OnClose, n
  <2>3. socket # 0
    BY <1>3 DEF LinkInductive, TypeOK, HoldsItsOwn
  <2>4. /\ running \in BOOLEAN /\ retryTimer \in BOOLEAN /\ stale \in BOOLEAN
        /\ retryAt \in BOOLEAN /\ attempt \in Nat /\ connection \in Connections
        /\ nudges' \in 0..MaxNudges
    BY Zenon DEF LinkInductive, TypeOK
  <2>5. CASE ~running
    <3>1. /\ retryTimer' = retryTimer /\ stale' = stale /\ retryAt' = retryAt
          /\ attempt' = attempt /\ connection' = connection /\ probes' = probes
      BY <2>2, <2>5, Zenon DEF Lost
    <3>2. ~retryTimer
      BY <2>5, Zenon DEF LinkInductive, HoldsItsOwn
    <3> QED
      BY <1>1, <2>1, <2>2, <2>4, <2>5, <3>1, <3>2, RetireStep
  <2>6. CASE running /\ g \in opened
    <3>1. /\ retryTimer' = TRUE /\ stale' = Remembering /\ retryAt' = TRUE
          /\ attempt' = attempt + 1 /\ connection' = "lost" /\ probes' = probes
      BY <2>2, <2>6, Zenon DEF Lost, ScheduleRetry
    <3>2. attempt' \in Nat /\ connection' \in Connections
      BY <2>4, <3>1
    <3>3. stale' \in BOOLEAN
      BY <3>1, Zenon DEF Remembering
    <3> QED
      BY <1>1, <2>1, <2>2, <2>4, <2>6, <3>1, <3>2, <3>3, RetireStep
  <2>7. CASE running /\ g \notin opened
    <3>1. /\ retryTimer' = retryTimer /\ stale' = Remembering /\ retryAt' = retryAt
          /\ attempt' = attempt /\ connection' = "lost"
          /\ probes' = probes \cup {generation'}
      BY <2>2, <2>7, Zenon DEF Lost
    <3>2. ~retryTimer /\ retryAt = retryTimer
      BY <2>3, <2>7, Awaiting, Zenon
    <3>3. generation' \notin probes
      BY <2>2 DEF LinkInductive, TypeOK
    <3>4. probes' # probes
      BY <3>1, <3>3
    <3>5. stale' \in BOOLEAN
      BY <3>1, Zenon DEF Remembering
    <3> QED
      BY <1>1, <2>1, <2>2, <2>4, <2>7, <3>1, <3>2, <3>4, <3>5, RetireStep
  <2> QED
    BY <2>4, <2>5, <2>6, <2>7, Zenon
<1> QED
  BY <1>2, <1>3

(* The upgrade succeeds: the socket is the current one, and still awaited. *)
LEMMA AcceptedStep ==
  ASSUME LinkInductive, NEW g \in 1..generation, Accepted(g)
  PROVE  LinkInductive'
<1>1. g = generation /\ g = socket /\ running /\ socket # 0
  BY InUseIsCurrent DEF Accepted
<1>2. ~retryTimer /\ generation \notin probes
  BY <1>1, Awaiting, Zenon
<1>3. /\ net' = [net EXCEPT ![g] = "open"] /\ opened' = opened \cup {g}
      /\ connection' = "live" /\ stale' = Remembering
      /\ attempt' = 0 /\ retryAt' = FALSE /\ silenceTimer' = TRUE
      /\ UNCHANGED <<running, generation, socket, retryTimer, probes, snapshot,
                     signedIn, trouble, nudges>>
  BY <1>1 DEF Accepted
<1>4. TypeOK'
  <2>1. net' \in [1..generation' -> Phases]
    BY <1>3 DEF LinkInductive, TypeOK
  <2>2. /\ opened' \subseteq 1..generation'
        /\ connection' \in Connections /\ attempt' \in Nat
    BY <1>3 DEF LinkInductive, TypeOK
  <2>3. stale' \in BOOLEAN
    BY <1>3, Zenon DEF Remembering
  <2> QED
    BY <1>3, <2>1, <2>2, <2>3, Zenon DEF LinkInductive, TypeOK
<1>5. HoldsItsOwn'
  BY <1>1, <1>3 DEF HoldsItsOwn
<1>6. NoMemoryAsNews'
  BY <1>3 DEF NoMemoryAsNews, Remembering
<1>7. NoSocketLeaks'
  BY <1>1, <1>3 DEF LinkInductive, TypeOK, NoSocketLeaks, Sockets, InUse
<1>8. OneThingAwaited'
  <2>1. Awaited' = {"socket"}
    BY <1>1, <1>2, <1>3 DEF Awaited
  <2>2. retryAt' = retryTimer' /\ connection' # "unauthorized"
    <3>1. retryTimer = FALSE
      BY <1>2, Zenon DEF LinkInductive, TypeOK
    <3> QED
      BY <1>3, <3>1
  <2> QED
    BY <2>1, <2>2 DEF OneThingAwaited
<1>9. LoginOnlyWhenForgotten'
  BY <1>3 DEF LoginOnlyWhenForgotten
<1> QED
  BY <1>4, <1>5, <1>6, <1>7, <1>8, <1>9 DEF LinkInductive

(* A message comes by the current socket alone.                            *)
LEMMA PushedStep ==
  ASSUME LinkInductive, NEW g \in 1..generation, NEW parses \in BOOLEAN,
         Pushed(g, parses)
  PROVE  LinkInductive'
<1>1. g = generation /\ g = socket /\ running /\ socket # 0
  BY InUseIsCurrent DEF Pushed
<1>2. ~retryTimer /\ generation \notin probes /\ connection # "unauthorized"
      /\ retryAt = retryTimer
  BY <1>1, Awaiting, Zenon
<1>3. /\ trouble' \in 0..MaxTrouble /\ silenceTimer' \in BOOLEAN
      /\ UNCHANGED <<running, generation, socket, retryTimer, probes, opened, retryAt,
                     attempt, net, signedIn, nudges>>
  <2>1. trouble' \in 0..MaxTrouble
    BY DEF Pushed, Troubled, LinkInductive, TypeOK
  <2> QED
    BY <1>1, <2>1, Zenon DEF Pushed
<1>4. \/ connection' = "live" /\ snapshot' = g /\ stale' = FALSE
      \/ UNCHANGED <<connection, snapshot, stale>>
  BY Zenon DEF Pushed
<1>5. TypeOK'
  <2>1. snapshot' \in 0..generation' /\ connection' \in Connections
    BY <1>3, <1>4 DEF LinkInductive, TypeOK
  <2>2. stale' \in BOOLEAN
    BY <1>4, Zenon DEF LinkInductive, TypeOK
  <2> QED
    BY <1>3, <2>1, <2>2, Zenon DEF LinkInductive, TypeOK
<1>6. HoldsItsOwn'
  BY <1>1, <1>3 DEF HoldsItsOwn
<1>7. NoMemoryAsNews'
  BY <1>1, <1>3, <1>4 DEF LinkInductive, NoMemoryAsNews, Remembering
<1>8. NoSocketLeaks'
  BY <1>1, <1>3 DEF LinkInductive, NoSocketLeaks, Sockets, InUse
<1>9. OneThingAwaited'
  <2>1. Awaited' = {"socket"}
    BY <1>1, <1>2, <1>3 DEF Awaited
  <2>2. connection' # "unauthorized"
    BY <1>2, <1>4
  <2>3. retryAt' = retryTimer'
    BY <1>2, <1>3
  <2> QED
    BY <2>1, <2>2, <2>3 DEF OneThingAwaited
<1>10. LoginOnlyWhenForgotten'
  BY <1>2, <1>4 DEF LoginOnlyWhenForgotten
<1> QED
  BY <1>5, <1>6, <1>7, <1>8, <1>9, <1>10 DEF LinkInductive

(* An answer sends to log in or schedules the retry if it is the one       *)
(* awaited, and does nothing otherwise.                                    *)
LEMMA ProbedStep ==
  ASSUME LinkInductive, NEW g \in 1..generation, Probed(g)
  PROVE  LinkInductive'
<1>1. PICK result \in {"ok", "unauthorized", "unreachable"} :
        /\ ProbeAnswers(g, result)
        /\ result = "unauthorized" => ~signedIn
  BY DEF Probed
<1>2. /\ g \in probes /\ probes' = probes \ {g} /\ trouble' \in 0..MaxTrouble
      /\ UNCHANGED <<running, generation, socket, silenceTimer, opened, snapshot, stale,
                     net, signedIn, nudges>>
  <2>1. trouble' \in 0..MaxTrouble
    BY DEF Probed, Troubled, LinkInductive, TypeOK
  <2> QED
    BY <1>1, <2>1, Zenon DEF Probed, ProbeAnswers
<1>3. CASE ~running \/ g # generation
  <2>1. UNCHANGED <<connection, retryAt, retryTimer, attempt>>
    BY <1>1, <1>3, Zenon DEF ProbeAnswers
  <2>2. TypeOK'
    <3>1. probes' \subseteq 1..generation'
      BY <1>2 DEF LinkInductive, TypeOK
    <3> QED
      BY <1>2, <2>1, <3>1, Zenon DEF LinkInductive, TypeOK
  <2>3. HoldsItsOwn' /\ NoMemoryAsNews' /\ NoSocketLeaks' /\ LoginOnlyWhenForgotten'
    BY <1>2, <2>1 DEF LinkInductive, HoldsItsOwn, NoMemoryAsNews, Remembering,
                      NoSocketLeaks, Sockets, InUse, LoginOnlyWhenForgotten
  <2>4. OneThingAwaited'
    <3>1. ASSUME running
          PROVE  Awaited' = Awaited
      <4>1. generation' \in probes' <=> generation \in probes
        BY <1>2, <1>3, <3>1
      <4>2. socket' = socket /\ (retryTimer' <=> retryTimer)
        BY <1>2, <2>1
      <4> QED
        BY <4>1, <4>2 DEF Awaited
    <3> QED
      BY <1>2, <2>1, <3>1, Zenon DEF LinkInductive, OneThingAwaited
  <2> QED
    BY <2>2, <2>3, <2>4 DEF LinkInductive
<1>4. CASE running /\ g = generation
  <2>1. socket = 0 /\ ~retryTimer /\ retryAt = retryTimer
    BY <1>2, <1>4, Awaiting, Zenon
  <2>2. generation' \notin probes' /\ generation # 0
    BY <1>2, <1>4 DEF LinkInductive, TypeOK
  <2>3. \/ /\ result = "unauthorized" /\ connection' = "unauthorized" /\ retryAt' = FALSE
           /\ retryTimer' = retryTimer /\ attempt' = attempt
        \/ /\ connection' = connection /\ retryAt' = TRUE /\ retryTimer' = TRUE
           /\ attempt' = attempt + 1
    BY <1>1, <1>4, Zenon DEF ProbeAnswers, ScheduleRetry
  <2>4. connection # "unauthorized"
    BY <1>2, <1>4, Awaiting, Zenon
  <2>5. TypeOK'
    <3>1. /\ probes' \subseteq 1..generation' /\ connection' \in Connections
          /\ attempt' \in Nat
      BY <1>2, <2>3 DEF LinkInductive, TypeOK
    <3>2. retryAt' \in BOOLEAN /\ retryTimer' \in BOOLEAN
      BY <2>3, Zenon DEF LinkInductive, TypeOK
    <3> QED
      BY <1>2, <3>1, <3>2, Zenon DEF LinkInductive, TypeOK
  <2>6. HoldsItsOwn'
    BY <1>2, <1>4 DEF LinkInductive, HoldsItsOwn
  <2>7. NoMemoryAsNews'
    BY <1>2, <1>4, <2>1, <2>2 DEF LinkInductive, NoMemoryAsNews, Remembering
  <2>8. NoSocketLeaks'
    BY <1>2 DEF LinkInductive, NoSocketLeaks, Sockets, InUse
  <2>9. OneThingAwaited'
    <3>1. CASE connection' = "unauthorized"
      <4>1. ~retryTimer' /\ ~retryAt'
        BY <2>1, <2>3, <2>4, <3>1
      <4>2. Awaited' = {}
        BY <1>2, <2>1, <2>2, <4>1 DEF Awaited
      <4>3. retryAt' = retryTimer'
        <5>1. retryTimer = FALSE
          BY <2>1, Zenon DEF LinkInductive, TypeOK
        <5> QED
          BY <2>3, <2>4, <3>1, <5>1
      <4> QED
        BY <3>1, <4>2, <4>3 DEF OneThingAwaited
    <3>2. CASE connection' # "unauthorized"
      <4>1. retryTimer' = TRUE /\ retryAt' = TRUE
        BY <2>3, <3>2
      <4>2. Awaited' = {"retry"}
        BY <1>2, <2>1, <2>2, <4>1 DEF Awaited
      <4> QED
        BY <3>2, <4>1, <4>2 DEF OneThingAwaited
    <3> QED
      BY <3>1, <3>2
  <2>10. LoginOnlyWhenForgotten'
    BY <1>1, <1>2, <2>3, <2>4 DEF LoginOnlyWhenForgotten
  <2> QED
    BY <2>5, <2>6, <2>7, <2>8, <2>9, <2>10 DEF LinkInductive
<1> QED
  BY <1>3, <1>4

-----------------------------------------------------------------------------
(* The outside world, the timers and the network.                          *)

(* Start, stop and wake: the first and last connect with no retry pending, *)
(* stop retires the generation.                                            *)
LEMMA UserStep ==
  ASSUME LinkInductive, User
  PROVE  LinkInductive'
<1>1. /\ running \in BOOLEAN /\ retryTimer \in BOOLEAN /\ stale \in BOOLEAN
      /\ retryAt \in BOOLEAN /\ attempt \in Nat /\ connection \in Connections
      /\ trouble \in 0..MaxTrouble
  BY Zenon DEF LinkInductive, TypeOK
<1>2. nudges' \in 0..MaxNudges
  BY DEF User, Start, Stop, Wake, Nudged, LinkInductive, TypeOK
<1>3. CASE Start
  <2>1. /\ Connect /\ running' = TRUE /\ retryTimer' = retryTimer /\ attempt' = attempt
        /\ signedIn' = signedIn /\ trouble' = trouble /\ ~running
    BY <1>3, Zenon DEF Start
  <2>2. retryTimer' = FALSE
    BY <1>1, <2>1, Zenon DEF LinkInductive, HoldsItsOwn
  <2> QED
    BY <1>1, <1>2, <2>1, <2>2, ConnectStep
<1>4. CASE Wake
  <2>1. /\ Connect /\ running' = running /\ running /\ retryTimer' = FALSE /\ attempt' = 0
        /\ signedIn' = signedIn /\ trouble' = trouble
    BY <1>4, Zenon DEF Wake
  <2>2. running' = TRUE /\ attempt' \in Nat
    BY <1>1, <2>1
  <2> QED
    BY <1>2, <2>1, <2>2, ConnectStep
<1>5. CASE Stop
  <2>1. /\ running' = FALSE /\ generation' = generation + 1
        /\ net' = NextNet(LetGo, "never") /\ socket' = 0
        /\ retryTimer' = FALSE /\ silenceTimer' = FALSE
        /\ UNCHANGED <<probes, opened, connection, snapshot, stale, retryAt, attempt,
                       signedIn, trouble>>
    BY <1>5 DEF Stop, stateVars
  <2>2. connection' = "unauthorized" => connection = "unauthorized"
    BY <2>1
  <2>3. /\ LetGo \in [1..generation -> Phases]
        /\ \A g \in 1..generation : LetGo[g] \notin {"connecting", "open", "dead"}
    BY LettingGo
  <2> QED
    BY <1>1, <1>2, <2>1, <2>2, <2>3, RetireStep
<1> QED
  BY <1>3, <1>4, <1>5 DEF User

(* The retry connects; silence retires the held socket's generation.       *)
LEMMA TimersStep ==
  ASSUME LinkInductive, Timers
  PROVE  LinkInductive'
<1>1. /\ running \in BOOLEAN /\ retryTimer \in BOOLEAN /\ stale \in BOOLEAN
      /\ retryAt \in BOOLEAN /\ attempt \in Nat /\ connection \in Connections
      /\ nudges \in 0..MaxNudges /\ trouble \in 0..MaxTrouble
  BY Zenon DEF LinkInductive, TypeOK
<1>2. CASE RetryFires
  <2>1. running
    BY <1>2, Zenon DEF RetryFires, LinkInductive, HoldsItsOwn
  <2>2. /\ Connect /\ running' = running /\ retryTimer' = FALSE /\ attempt' = attempt
        /\ signedIn' = signedIn /\ trouble' = trouble /\ nudges' = nudges
    BY <1>2, <2>1, Zenon DEF RetryFires
  <2>3. running' = TRUE
    BY <1>1, <2>1, <2>2
  <2> QED
    BY <1>1, <2>2, <2>3, ConnectStep
<1>3. CASE SilenceNoticed \/ SilenceMistaken
  <2>1. SilenceFires /\ trouble' \in 0..MaxTrouble
    BY <1>3 DEF SilenceNoticed, SilenceMistaken, Troubled, LinkInductive, TypeOK
  <2>2. running
    BY <2>1, Zenon DEF SilenceFires, LinkInductive, HoldsItsOwn
  <2>3. /\ generation' = generation + 1 /\ net' = NextNet(LetGo, "never")
        /\ socket' = 0 /\ silenceTimer' = FALSE
        /\ connection' = "lost" /\ stale' = Remembering
        /\ retryTimer' = TRUE /\ retryAt' = TRUE /\ attempt' = attempt + 1
        /\ UNCHANGED <<running, probes, opened, snapshot, signedIn, nudges>>
    BY <2>1, <2>2, Zenon DEF SilenceFires, ScheduleRetry
  <2>4. /\ LetGo \in [1..generation -> Phases]
        /\ \A g \in 1..generation : LetGo[g] \notin {"connecting", "open", "dead"}
    BY LettingGo
  <2>5. attempt' \in Nat /\ connection' \in Connections
    BY <1>1, <2>3
  <2>6. stale' \in BOOLEAN
    BY <2>3, Zenon DEF Remembering
  <2> QED
    BY <1>1, <2>1, <2>2, <2>3, <2>4, <2>5, <2>6, RetireStep
<1> QED
  BY <1>2, <1>3 DEF Timers

(* Each callback of a socket or a probe keeps the invariant.               *)
LEMMA CallbacksStep ==
  ASSUME LinkInductive, NEW g \in 1..generation, Callbacks(g)
  PROVE  LinkInductive'
<1>1. CASE Accepted(g)
  BY <1>1, AcceptedStep
<1>2. CASE Pushed(g, TRUE) \/ Pushed(g, FALSE)
  BY <1>2, PushedStep
<1>3. CASE Refused(g)
  <2>1. trouble' \in 0..MaxTrouble
    BY <1>3 DEF Refused, LinkInductive, TypeOK
  <2> QED
    BY <1>3, <2>1, OnCloseStep DEF Refused
<1>4. CASE Broken(g)
  <2>1. trouble' \in 0..MaxTrouble
    BY <1>4 DEF Broken, Troubled, LinkInductive, TypeOK
  <2> QED
    BY <1>4, <2>1, OnCloseStep DEF Broken
<1>5. CASE Closed(g)
  <2>1. trouble' \in 0..MaxTrouble
    BY <1>5 DEF Closed, Troubled, LinkInductive, TypeOK
  <2> QED
    BY <1>5, <2>1, OnCloseStep DEF Closed
<1>6. CASE Probed(g)
  BY <1>6, ProbedStep
<1> QED
  BY <1>1, <1>2, <1>3, <1>4, <1>5, <1>6 DEF Callbacks

(* What network and engine do by themselves moves only sockets' phases and *)
(* the session.                                                            *)
LEMMA NetworkStep ==
  ASSUME LinkInductive, SignedOut \/ \E g \in 1..generation : Network(g)
  PROVE  LinkInductive'
<1>1. CASE SignedOut
  <2>1. /\ trouble' \in 0..MaxTrouble /\ signedIn' = FALSE /\ nudges' = nudges
        /\ UNCHANGED <<linkVars, stateVars>>
    BY <1>1 DEF SignedOut, Troubled, LinkInductive, TypeOK
  <2>2. /\ net' \in [1..generation -> Phases]
        /\ \A g \in 1..generation :
             /\ net'[g] \in {"connecting", "open", "dead"} =>
                  net[g] \in {"connecting", "open", "dead"}
             /\ net[g] = "never" => net'[g] = "never"
    BY <1>1 DEF SignedOut, LinkInductive, TypeOK
  <2> QED
    BY <2>1, <2>2, PhaseStep
<1>2. ASSUME NEW g \in 1..generation, Network(g)
      PROVE  LinkInductive'
  <2>1. /\ trouble' \in 0..MaxTrouble /\ signedIn' = signedIn /\ nudges' = nudges
        /\ UNCHANGED <<linkVars, stateVars>>
    BY <1>2 DEF Network, Dies, Forgotten, Troubled, LinkInductive, TypeOK
  <2>2. /\ net' \in [1..generation -> Phases]
        /\ \A h \in 1..generation :
             /\ net'[h] \in {"connecting", "open", "dead"} =>
                  net[h] \in {"connecting", "open", "dead"}
             /\ net[h] = "never" => net'[h] = "never"
    BY <1>2 DEF Network, Dies, Forgotten, LinkInductive, TypeOK
  <2>3. signedIn' \in BOOLEAN /\ (signedIn' => signedIn)
    BY <2>1, Zenon DEF LinkInductive, TypeOK
  <2> QED
    BY <2>1, <2>2, <2>3, PhaseStep
<1> QED
  BY <1>1, <1>2

-----------------------------------------------------------------------------
(* The theorems.                                                           *)

(* A link that was never started satisfies the invariant.                  *)
LEMMA LinkStarts == Init => LinkInductive
<1> SUFFICES ASSUME Init PROVE LinkInductive
  OBVIOUS
<1>1. TypeOK
  <2>1. /\ generation \in Nat /\ attempt \in Nat /\ connection \in Connections
        /\ socket \in 0..generation /\ snapshot \in 0..generation
        /\ probes \subseteq 1..generation /\ opened \subseteq 1..generation
        /\ trouble \in 0..MaxTrouble /\ nudges \in 0..MaxNudges
    BY DEF Init
  <2>2. net \in [1..generation -> Phases]
    BY DEF Init
  <2>3. /\ running \in BOOLEAN /\ retryTimer \in BOOLEAN /\ silenceTimer \in BOOLEAN
        /\ stale \in BOOLEAN /\ retryAt \in BOOLEAN /\ signedIn \in BOOLEAN
    BY Zenon DEF Init
  <2> QED
    BY <2>1, <2>2, <2>3, Zenon DEF TypeOK
<1>2. HoldsItsOwn /\ NoMemoryAsNews /\ OneThingAwaited /\ LoginOnlyWhenForgotten
  <2>1. HoldsItsOwn
    BY DEF Init, HoldsItsOwn
  <2>2. NoMemoryAsNews /\ OneThingAwaited
    BY Zenon DEF Init, NoMemoryAsNews, OneThingAwaited
  <2>3. LoginOnlyWhenForgotten
    BY DEF Init, LoginOnlyWhenForgotten
  <2> QED
    BY <2>1, <2>2, <2>3
<1>3. NoSocketLeaks
  BY DEF Init, NoSocketLeaks, Sockets
<1> QED
  BY <1>1, <1>2, <1>3 DEF LinkInductive

(* So does every state a step leads to from one that does.                 *)
LEMMA LinkContinues == LinkInductive /\ [Next]_vars => LinkInductive'
<1> SUFFICES ASSUME LinkInductive, [Next]_vars PROVE LinkInductive'
  OBVIOUS
<1>1. CASE User
  BY <1>1, UserStep
<1>2. CASE Timers
  BY <1>2, TimersStep
<1>3. CASE SignedOut
  BY <1>3, NetworkStep
<1>4. CASE \E g \in Sockets : Callbacks(g)
  BY <1>4, CallbacksStep DEF Sockets
<1>5. CASE \E g \in Sockets : Network(g)
  BY <1>5, NetworkStep DEF Sockets
<1>6. CASE UNCHANGED vars
  <2> USE <1>6 DEF vars, linkVars, stateVars
  <2>1. TypeOK'
    BY DEF LinkInductive, TypeOK
  <2>2. HoldsItsOwn' /\ NoMemoryAsNews' /\ NoSocketLeaks'
    BY DEF LinkInductive, HoldsItsOwn, NoMemoryAsNews, Remembering, NoSocketLeaks,
           Sockets, InUse
  <2>3. OneThingAwaited' /\ LoginOnlyWhenForgotten'
    BY DEF LinkInductive, OneThingAwaited, Awaited, LoginOnlyWhenForgotten
  <2> QED
    BY <2>1, <2>2, <2>3 DEF LinkInductive
<1> QED
  BY <1>1, <1>2, <1>3, <1>4, <1>5, <1>6 DEF Next

(* link.ts, in any amount of trouble and however often it is started,      *)
(* stopped and woken, keeps the strengthened invariant.                    *)
THEOREM LinkInvariant == Spec => []LinkInductive
<1>1. Init => LinkInductive
  BY LinkStarts
<1>2. LinkInductive /\ [Next]_vars => LinkInductive'
  BY LinkContinues
<1> QED
  BY <1>1, <1>2, PTL DEF Spec

(* What the Console shows undimmed came by the socket it holds (stale).    *)
THEOREM NewsIsNew == Spec => []NoMemoryAsNews
<1>1. LinkInductive => NoMemoryAsNews
  BY DEF LinkInductive
<1> QED
  BY <1>1, LinkInvariant, PTL

(* No socket but the held one is left open at the engine (closeSocket).    *)
THEOREM NoSocketIsLeaked == Spec => []NoSocketLeaks
<1>1. LinkInductive => NoSocketLeaks
  BY DEF LinkInductive
<1> QED
  BY <1>1, LinkInvariant, PTL

(* A running link that may still connect awaits exactly one of socket,     *)
(* probe and retry, whatever late closes, answers and timers do.           *)
THEOREM NeverStrandedNorDoubled == Spec => []OneThingAwaited
<1>1. LinkInductive => OneThingAwaited
  BY DEF LinkInductive
<1> QED
  BY <1>1, LinkInvariant, PTL

(* The login page is for those the engine has forgotten (lost, line 279).  *)
THEOREM LoginIsDeserved == Spec => []LoginOnlyWhenForgotten
<1>1. LinkInductive => LoginOnlyWhenForgotten
  BY DEF LinkInductive
<1> QED
  BY <1>1, LinkInvariant, PTL
=============================================================================
