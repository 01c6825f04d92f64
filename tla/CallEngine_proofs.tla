-------------------------- MODULE CallEngine_proofs --------------------------
(***************************************************************************)
(* Theorems about CallEngine, for every value of its constants: any number *)
(* of callers, any Config Snapshots, any attempt limit and walk bound, any *)
(* combination of failures, with or without the afterglow.                 *)
(*                                                                         *)
(* The argument is in two layers, the invariants Inductive and OnCourse of *)
(* CallEngineInvariant.  Inductive is proved step by step: the queues first*)
(* (what a Tail, an Append or a dropped socket leaves of an order), then   *)
(* the operations the actions share, then one lemma per action.  OnCourse  *)
(* is proved on top of it call by call: a step moves the one call it is    *)
(* about, and leaves every other Undisturbed.  The theorems follow: those  *)
(* the two invariants give at once; that no wakeup is lost and nobody left *)
(* behind, each inductive with them; that every call only comes nearer to  *)
(* its end; and the refinement: what the Operator can see of each step.    *)
(***************************************************************************)
EXTENDS CallEngineBooth, CallEngineInvariant, GameFlow_proofs, SequenceTheorems

USE DEF Modes, FlowOutcomes

-----------------------------------------------------------------------------
(* Queues.                                                                 *)

(* The head of a queue is one of its items, and its tail has no others.    *)
LEMMA HeadAndTail ==
  ASSUME NEW S, NEW q \in Seq(S), q # <<>>
  PROVE  /\ Head(q) \in Range(q) /\ Head(q) \in S
         /\ Tail(q) \in Seq(S)
         /\ DOMAIN q = 1..Len(q) /\ DOMAIN Tail(q) = 1..(Len(q) - 1)
         /\ \A i \in DOMAIN Tail(q) : i + 1 \in DOMAIN q /\ Tail(q)[i] = q[i + 1]
         /\ Range(Tail(q)) \subseteq Range(q)
<1>1. /\ Head(q) \in S /\ Tail(q) \in Seq(S) /\ Len(Tail(q)) = Len(q) - 1
      /\ \A i \in 1..Len(Tail(q)) : Tail(q)[i] = q[i + 1]
  BY HeadTailProperties
<1>2. Len(q) \in Nat \ {0} /\ DOMAIN q = 1..Len(q) /\ DOMAIN Tail(q) = 1..Len(Tail(q))
  BY <1>1, EmptySeq, LenProperties
<1>3. Head(q) = q[1]
  OBVIOUS
<1>4. Head(q) \in Range(q)
  BY <1>2, <1>3 DEF Range
<1>5. \A i \in DOMAIN Tail(q) : i + 1 \in DOMAIN q /\ Tail(q)[i] = q[i + 1]
  BY <1>1, <1>2
<1>6. Range(Tail(q)) \subseteq Range(q)
  BY <1>5 DEF Range
<1> QED
  BY <1>1, <1>2, <1>4, <1>5, <1>6

(* Items joining a queue join its range, behind the others.                *)
LEMMA Joined ==
  ASSUME NEW S, NEW q \in Seq(S), NEW p \in Seq(S)
  PROVE  /\ q \o p \in Seq(S)
         /\ Range(q \o p) = Range(q) \cup Range(p)
         /\ DOMAIN q = 1..Len(q) /\ DOMAIN p = 1..Len(p)
         /\ \A i \in DOMAIN (q \o p) :
              \/ i \in DOMAIN q /\ (q \o p)[i] = q[i]
              \/ /\ i > Len(q) /\ i - Len(q) \in DOMAIN p
                 /\ (q \o p)[i] = p[i - Len(q)]
<1>1. /\ q \o p \in Seq(S) /\ Len(q \o p) = Len(q) + Len(p)
      /\ \A i \in 1..(Len(q) + Len(p)) :
           (q \o p)[i] = IF i <= Len(q) THEN q[i] ELSE p[i - Len(q)]
  BY ConcatProperties
<1>2. /\ Len(q) \in Nat /\ Len(p) \in Nat
      /\ DOMAIN q = 1..Len(q) /\ DOMAIN p = 1..Len(p)
      /\ DOMAIN (q \o p) = 1..(Len(q) + Len(p))
  BY <1>1, LenProperties
<1>3. Range(q \o p) = Range(q) \cup Range(p)
  BY RangeConcatenation
<1> QED
  BY <1>1, <1>2, <1>3

(* A start read off the wire has no second copy behind it.                 *)
LEMMA StartsOnceTail ==
  ASSUME NEW w \in Seq(Events), w # <<>>, StartsOnce(w)
  PROVE  /\ StartsOnce(Tail(w))
         /\ IsStart(Head(w)) => Head(w) \notin Range(Tail(w))
<1>1. /\ DOMAIN w = 1..Len(w) /\ DOMAIN Tail(w) = 1..(Len(w) - 1)
      /\ \A i \in DOMAIN Tail(w) : i + 1 \in DOMAIN w /\ Tail(w)[i] = w[i + 1]
  BY HeadAndTail
<1>2. StartsOnce(Tail(w))
  <2> SUFFICES ASSUME NEW i \in DOMAIN Tail(w), NEW j \in DOMAIN Tail(w),
                      IsStart(Tail(w)[i]), Tail(w)[j] = Tail(w)[i]
               PROVE  i = j
    BY DEF StartsOnce
  <2>1. i + 1 = j + 1
    BY <1>1 DEF StartsOnce
  <2> QED
    BY <2>1, <1>1
<1>3. ASSUME IsStart(Head(w)), Head(w) \in Range(Tail(w)) PROVE FALSE
  <2>1. PICK i \in DOMAIN Tail(w) : Head(w) = Tail(w)[i]
    BY <1>3 DEF Range
  <2>2. Len(w) \in Nat \ {0} /\ Head(w) = w[1]
    BY EmptySeq
  <2>3. 1 \in DOMAIN w /\ i + 1 \in DOMAIN w /\ w[i + 1] = w[1] /\ IsStart(w[1])
    BY <1>1, <1>3, <2>1, <2>2
  <2>4. i + 1 = 1
    BY <2>3 DEF StartsOnce
  <2> QED
    BY <1>1, <2>1, <2>4
<1> QED
  BY <1>2, <1>3

(* Starts stay single when events join that are none, or a new one.        *)
LEMMA StartsOnceJoined ==
  ASSUME NEW w \in Seq(Events), NEW e \in Events, StartsOnce(w),
         IsStart(e) => e \notin Range(w)
  PROVE  /\ w \o <<e>> \in Seq(Events)
         /\ Range(w \o <<e>>) = Range(w) \cup {e}
         /\ StartsOnce(w \o <<e>>)
<1> DEFINE v == w \o <<e>>
<1>1. <<e>> \in Seq(Events) /\ DOMAIN <<e>> = {1} /\ <<e>>[1] = e
  OBVIOUS
<1>2. \A i \in DOMAIN v : \/ i \in DOMAIN w /\ v[i] = w[i]
                          \/ i = Len(w) + 1 /\ v[i] = e
  <2>1. \A i \in DOMAIN v : \/ i \in DOMAIN w /\ v[i] = w[i]
                            \/ /\ i > Len(w) /\ i - Len(w) \in DOMAIN <<e>>
                               /\ v[i] = <<e>>[i - Len(w)]
    BY <1>1, Joined
  <2>2. Len(w) \in Nat /\ DOMAIN v \subseteq Nat
    BY <1>1, LenProperties, ConcatProperties
  <2> QED
    BY <1>1, <2>1, <2>2
<1>3. ASSUME NEW i \in DOMAIN w, IsStart(e), w[i] = e PROVE FALSE
  BY <1>3 DEF Range
<1>4. v \in Seq(Events) /\ Range(v) = Range(w) \cup {e}
  <2>1. Range(<<e>>) = {e}
    BY <1>1 DEF Range
  <2> QED
    BY <1>1, <2>1, Joined
<1> HIDE DEF v
<1>5. ASSUME NEW i \in DOMAIN v, NEW j \in DOMAIN v, IsStart(v[i]), v[j] = v[i]
      PROVE  i = j
  BY <1>2, <1>3, <1>5 DEF StartsOnce
<1>6. StartsOnce(v)
  BY <1>5 DEF StartsOnce
<1> QED
  BY <1>4, <1>6 DEF v

(* A socket that drops loses the end of what was on it.                    *)
LEMMA Truncated ==
  ASSUME NEW w \in Seq(Events), NEW n \in 0..Len(w), StartsOnce(w)
  PROVE  /\ SubSeq(w, 1, n) \in Seq(Events)
         /\ Range(SubSeq(w, 1, n)) \subseteq Range(w)
         /\ StartsOnce(SubSeq(w, 1, n))
<1> DEFINE v == SubSeq(w, 1, n)
<1>1. Len(w) \in Nat /\ DOMAIN w = 1..Len(w)
  BY LenProperties
<1>2. v \in Seq(Events) /\ DOMAIN v = 1..n /\ \A i \in 1..n : v[i] = w[i]
  BY <1>1
<1>3. \A i \in DOMAIN v : i \in DOMAIN w /\ v[i] = w[i]
  BY <1>1, <1>2
<1> HIDE DEF v
<1>4. Range(v) \subseteq Range(w) /\ StartsOnce(v)
  BY <1>3 DEF Range, StartsOnce
<1> QED
  BY <1>2, <1>4 DEF v

(* The loop takes a call's command or result only when it has nothing else *)
(* of that call's left.                                                    *)
LEMMA ProgressFirstTail ==
  ASSUME NEW q \in Seq(Callbacks), q # <<>>, ProgressFirst(q)
  PROVE  /\ ProgressFirst(Tail(q))
         /\ Head(q).kind # "progress" =>
              \A cb \in Range(Tail(q)) : cb.call # Head(q).call
<1>1. /\ DOMAIN q = 1..Len(q) /\ DOMAIN Tail(q) = 1..(Len(q) - 1)
      /\ \A i \in DOMAIN Tail(q) : i + 1 \in DOMAIN q /\ Tail(q)[i] = q[i + 1]
  BY HeadAndTail
<1>2. Len(q) \in Nat \ {0} /\ Head(q) = q[1]
  BY EmptySeq
<1>3. ProgressFirst(Tail(q))
  BY <1>1, <1>2 DEF ProgressFirst
<1>4. ASSUME NEW cb \in Range(Tail(q)), cb.call = Head(q).call PROVE Head(q).kind = "progress"
  <2>1. PICK i \in DOMAIN Tail(q) : cb = Tail(q)[i]
    BY DEF Range
  <2>2. 1 \in DOMAIN q /\ i + 1 \in DOMAIN q /\ 1 < i + 1 /\ q[i + 1] = cb
    BY <1>1, <1>2, <2>1
  <2> QED
    BY <1>2, <1>4, <2>2 DEF ProgressFirst
<1> QED
  BY <1>3, <1>4

(* A thread whose earlier words are all progress may add one.              *)
LEMMA ProgressFirstJoined ==
  ASSUME NEW q \in Seq(Callbacks), NEW cb \in Callbacks, ProgressFirst(q),
         \A d \in Range(q) : d.call = cb.call => d.kind = "progress"
  PROVE  /\ q \o <<cb>> \in Seq(Callbacks)
         /\ Range(q \o <<cb>>) = Range(q) \cup {cb}
         /\ ProgressFirst(q \o <<cb>>)
<1> DEFINE v == q \o <<cb>>
<1>1. <<cb>> \in Seq(Callbacks) /\ DOMAIN <<cb>> = {1} /\ <<cb>>[1] = cb /\ Range(<<cb>>) = {cb}
  BY DEF Range
<1>2. v \in Seq(Callbacks) /\ Range(v) = Range(q) \cup {cb}
  BY <1>1, Joined
<1>3. Len(q) \in Nat /\ DOMAIN q = 1..Len(q) /\ DOMAIN v \subseteq Nat
  BY <1>1, <1>2, LenProperties
<1>4. \A i \in DOMAIN v : \/ i \in DOMAIN q /\ v[i] = q[i]
                          \/ i = Len(q) + 1 /\ v[i] = cb
  <2>1. \A i \in DOMAIN v : \/ i \in DOMAIN q /\ v[i] = q[i]
                            \/ /\ i > Len(q) /\ i - Len(q) \in DOMAIN <<cb>>
                               /\ v[i] = <<cb>>[i - Len(q)]
    BY <1>1, Joined
  <2> QED
    BY <1>1, <1>3, <2>1
<1>5. \A i \in DOMAIN q : q[i].call = cb.call => q[i].kind = "progress"
  BY DEF Range
<1> HIDE DEF v
<1>6. ProgressFirst(v)
  BY <1>3, <1>4, <1>5 DEF ProgressFirst
<1> QED
  BY <1>2, <1>6 DEF v

-----------------------------------------------------------------------------
(* The operations the actions share keep to their types.                   *)

(* An abandoned session, and a completed one, are sessions that are over,  *)
(* with an outcome; the ending takes nothing else from them.               *)
LEMMA AbandonEnds ==
  ASSUME NEW s \in Sessions
  PROVE  Abandon(s) \in Sessions /\ IsOver(Abandon(s)) /\ Abandon(s).outcome # "none"
<1>1. AttemptsFinished(s) \in Int
  BY DEF AttemptsFinished, Sessions
<1> QED
  BY <1>1 DEF Abandon, IsOver, Sessions, TerminalStates, Outcomes

(* A handler's outcome ends the session, with that outcome.                *)
LEMMA CompleteEnds ==
  ASSUME NEW s \in Sessions, NEW outcome \in FlowOutcomes, NEW n \in Int
  PROVE  /\ Complete(s, outcome, n) \in Sessions /\ IsOver(Complete(s, outcome, n))
         /\ Complete(s, outcome, n).mode = s.mode
<1>1. StateByOutcome(outcome) \in TerminalStates
  BY DEF StateByOutcome, TerminalStates
<1> QED
  BY <1>1 DEF Complete, IsOver, Sessions, Outcomes

(* A request changes channels only to later states, puts no start on the   *)
(* wire, and leaves its answer with the call that made it.                 *)
LEMMA RequestType ==
  ASSUME TypeOK, StartsOnce(wire), NEW c \in Calls, NEW at, Request(c, at)
  PROVE  /\ chan' \in [Calls -> ChannelStates]
         /\ \A d \in Calls : chan'[d] = "unborn" <=> chan[d] = "unborn"
         /\ wire' \in Seq(Events) /\ StartsOnce(wire')
         /\ \A e \in Range(wire') : IsStart(e) => e \in Range(wire)
         /\ \E answer \in {"ok", "failed"} : io' = [io EXCEPT ![c] = answer]
<1>1. \E answer \in {"ok", "failed"} : io' = [io EXCEPT ![c] = answer]
  BY DEF Request
<1>2. CASE UNCHANGED <<chan, wire>>
  BY <1>1, <1>2 DEF TypeOK
<1>3. CASE Executed(c, at)
  <2>1. /\ chan' \in [Calls -> ChannelStates]
        /\ \A d \in Calls : chan'[d] = "unborn" <=> chan[d] = "unborn"
    BY <1>3 DEF Executed, Accepts, ChannelAfter, TypeOK, ChannelStates
  <2>2. wire' = wire \/ wire' = wire \o <<>> \/ wire' = wire \o <<GoneEvent(c)>>
    BY <1>3 DEF Executed, Emitted, Departure
  <2>3. CASE wire' = wire \/ wire' = wire \o <<>>
    <3>1. wire' = wire
      BY <2>3, ConcatEmptySeq DEF TypeOK
    <3> QED
      BY <1>1, <2>1, <3>1 DEF TypeOK
  <2>4. CASE wire' = wire \o <<GoneEvent(c)>>
    <3>1. GoneEvent(c) \in Events /\ ~IsStart(GoneEvent(c)) /\ wire \in Seq(Events)
      BY DEF GoneEvent, Events, IsStart, TypeOK
    <3> DEFINE g == GoneEvent(c)
    <3> HIDE DEF g
    <3>2. /\ wire \o <<g>> \in Seq(Events) /\ StartsOnce(wire \o <<g>>)
          /\ Range(wire \o <<g>>) = Range(wire) \cup {g}
      BY <3>1, StartsOnceJoined DEF g
    <3> QED
      BY <1>1, <2>1, <2>4, <3>1, <3>2 DEF g
  <2> QED
    BY <2>2, <2>3, <2>4
<1> QED
  BY <1>2, <1>3 DEF Request

-----------------------------------------------------------------------------
(* The steps: Asterisk and the callers.                                    *)

(* Lifting the handset keeps the invariant: the channel's one StasisStart. *)
LEMMA DialStep ==
  ASSUME Inductive, NEW c \in Calls, Dial(c)
  PROVE  Inductive'
<1> DEFINE e == [type |-> "StasisStart", call |-> c]
<1>1. e \in Events /\ wire \in Seq(Events) /\ wire' = wire \o <<e>>
  BY AppendIsConcat DEF Inductive, TypeOK, Dial, Events
<1>2. e \notin Range(wire)
  BY DEF Inductive, PickedUpOnce, Dial, IsStart
<1>3. wire' \in Seq(Events) /\ StartsOnce(wire') /\ Range(wire') = Range(wire) \cup {e}
  BY <1>1, <1>2, StartsOnceJoined DEF Inductive, PickedUpOnce
<1>4. TypeOK'
  BY <1>3 DEF Inductive, TypeOK, Dial, stopVars, recordVars, ChannelStates
<1>5. PickedUpOnce'
  BY <1>1, <1>3 DEF Inductive, TypeOK, PickedUpOnce, Dial
<1>6. /\ StateFollowsTask' /\ ThreadOnLoop' /\ ThreadInMode' /\ LingersWhenDone'
      /\ EndingToWrite' /\ OneCaller' /\ HistoryAgrees'
  BY DEF Inductive, Dial, recordVars, StateFollowsTask, ThreadOnLoop, ThreadInMode,
         LingersWhenDone, EndingToWrite, OneCaller, HistoryAgrees, Live, Over
<1> QED
  BY <1>4, <1>5, <1>6 DEF Inductive

(* Putting it down keeps the invariant: at most a ChannelGone is emitted.  *)
LEMMA HangUpStep ==
  ASSUME Inductive, NEW c \in Calls, HangUp(c)
  PROVE  Inductive'
<1> DEFINE g == GoneEvent(c)
<1>1. g \in Events /\ ~IsStart(g) /\ wire \in Seq(Events) /\ StartsOnce(wire)
  BY DEF Inductive, TypeOK, PickedUpOnce, GoneEvent, Events, IsStart
<1>2. wire' = wire \/ wire' = wire \o <<g>>
  BY DEF HangUp, Emitted, Departure
<1> HIDE DEF g
<1>3. /\ wire' \in Seq(Events) /\ StartsOnce(wire')
      /\ Range(wire') \subseteq Range(wire) \cup {g}
  BY <1>1, <1>2, StartsOnceJoined
<1>4. TypeOK'
  BY <1>3 DEF Inductive, TypeOK, HangUp, stopVars, recordVars, ChannelStates
<1>5. PickedUpOnce'
  BY <1>1, <1>3 DEF Inductive, TypeOK, PickedUpOnce, HangUp
<1>6. /\ StateFollowsTask' /\ ThreadOnLoop' /\ ThreadInMode' /\ LingersWhenDone'
      /\ EndingToWrite' /\ OneCaller' /\ HistoryAgrees'
  BY DEF Inductive, HangUp, recordVars, StateFollowsTask, ThreadOnLoop, ThreadInMode,
         LingersWhenDone, EndingToWrite, OneCaller, HistoryAgrees, Live, Over
<1> QED
  BY <1>4, <1>5, <1>6 DEF Inductive

(* Losing the WebSocket, or having it back, keeps the invariant.           *)
LEMMA SocketStep ==
  ASSUME Inductive, SocketDrops \/ Reconnect
  PROVE  Inductive'
<1>1. /\ wire' \in Seq(Events) /\ StartsOnce(wire') /\ Range(wire') \subseteq Range(wire)
  BY Truncated DEF Inductive, TypeOK, PickedUpOnce, SocketDrops, Reconnect
<1>2. TypeOK'
  BY <1>1 DEF Inductive, TypeOK, SocketDrops, Reconnect, stopVars, recordVars
<1>3. PickedUpOnce'
  BY <1>1 DEF Inductive, PickedUpOnce, SocketDrops, Reconnect
<1>4. /\ StateFollowsTask' /\ ThreadOnLoop' /\ ThreadInMode' /\ LingersWhenDone'
      /\ EndingToWrite' /\ OneCaller' /\ HistoryAgrees'
  BY DEF Inductive, SocketDrops, Reconnect, recordVars, StateFollowsTask, ThreadOnLoop,
         ThreadInMode, LingersWhenDone, EndingToWrite, OneCaller, HistoryAgrees, Live, Over
<1> QED
  BY <1>2, <1>3, <1>4 DEF Inductive

-----------------------------------------------------------------------------
(* The steps: the ARI reader.                                              *)

(* What is left on the wire once an event is read off it.                  *)
LEMMA EventRead ==
  ASSUME Inductive, NEW type, NEW c \in Calls, NextEvent(type, c)
  PROVE  /\ Tail(wire) \in Seq(Events) /\ StartsOnce(Tail(wire))
         /\ Range(Tail(wire)) \subseteq Range(wire)
         /\ type = "StasisStart" =>
              /\ task[c] = "none" /\ chan[c] # "unborn"
              /\ \A e \in Range(Tail(wire)) : IsStart(e) => e.call # c
<1>1. wire \in Seq(Events) /\ wire # <<>> /\ StartsOnce(wire)
  BY DEF Inductive, TypeOK, PickedUpOnce, NextEvent
<1>2. /\ Head(wire) \in Range(wire) /\ Tail(wire) \in Seq(Events)
      /\ Range(Tail(wire)) \subseteq Range(wire)
  BY <1>1, HeadAndTail
<1>3. StartsOnce(Tail(wire)) /\ (IsStart(Head(wire)) => Head(wire) \notin Range(Tail(wire)))
  BY <1>1, StartsOnceTail
<1>4. ASSUME type = "StasisStart"
      PROVE  /\ task[c] = "none" /\ chan[c] # "unborn"
             /\ \A e \in Range(Tail(wire)) : IsStart(e) => e.call # c
  <2>1. Head(wire) = [type |-> "StasisStart", call |-> c] /\ IsStart(Head(wire))
    BY <1>4 DEF NextEvent, IsStart
  <2>2. task[c] = "none" /\ chan[c] # "unborn"
    BY <1>2, <2>1 DEF Inductive, PickedUpOnce
  <2>3. ASSUME NEW e \in Range(Tail(wire)), IsStart(e), e.call = c PROVE FALSE
    <3>1. e \in Events
      BY <1>2, RangeOfSeq
    <3>2. e = Head(wire)
      BY <2>1, <2>3, <3>1 DEF Events, IsStart
    <3> QED
      BY <1>3, <2>1, <2>3, <3>2
  <2> QED
    BY <2>2, <2>3
<1> QED
  BY <1>1, <1>2, <1>3, <1>4

(* Picking a caller up keeps the invariant: the slot was free.             *)
LEMMA AcceptStep ==
  ASSUME Inductive, NEW c \in Calls, AcceptCall(c)
  PROVE  Inductive'
<1>1. /\ wire' \in Seq(Events) /\ StartsOnce(wire') /\ Range(wire') \subseteq Range(wire)
      /\ task[c] = "none" /\ chan[c] # "unborn"
      /\ \A e \in Range(wire') : IsStart(e) => e.call # c
  BY EventRead DEF AcceptCall
<1>2. [NewSession EXCEPT !.state = "answering"] \in Sessions
  <2>1. NewSession \in Sessions
    BY DEF NewSession, Sessions, Outcomes
  <2> QED
    BY <2>1 DEF Sessions, LiveStates
<1>3. TypeOK'
  BY <1>1, <1>2 DEF Inductive, TypeOK, AcceptCall, TaskStates, stopVars, recordVars
<1>4. StateFollowsTask'
  BY <1>2 DEF Inductive, TypeOK, StateFollowsTask, AcceptCall, Over, IsOver, NewSession
<1>5. PickedUpOnce'
  BY <1>1 DEF Inductive, TypeOK, PickedUpOnce, AcceptCall
<1>6. ThreadOnLoop' /\ ThreadInMode' /\ LingersWhenDone' /\ EndingToWrite'
  BY <1>1 DEF Inductive, TypeOK, ThreadOnLoop, ThreadInMode, LingersWhenDone, EndingToWrite,
              AcceptCall
<1>7. OneCaller'
  <2>1. \A d \in Calls : ~Live(d)
    BY NoCallAssumption DEF Inductive, OneCaller, AcceptCall, Busy, Live, Over, IsOver,
           LiveStates, TerminalStates
  <2> QED
    BY <2>1 DEF Inductive, TypeOK, OneCaller, AcceptCall, Live
<1>8. HistoryAgrees'
  <2>1. ~Over(c)
    BY <1>1 DEF Inductive, StateFollowsTask, Over, IsOver, TerminalStates
  <2>2. \A d \in Calls \ {c} : session'[d] = session[d] /\ task'[d] = task[d]
    BY DEF AcceptCall, Inductive, TypeOK
  <2>3. task'[c] # "done" /\ store' = store
    BY DEF AcceptCall, Inductive, TypeOK, recordVars
  <2>4. \A r \in store : r.call \in Calls
    BY DEF Inductive, TypeOK, Rows
  <2> QED
    BY <2>1, <2>2, <2>3, <2>4 DEF Inductive, HistoryAgrees, Over, IsOver
<1> QED
  BY <1>3, <1>4, <1>5, <1>6, <1>7, <1>8 DEF Inductive

(* Refusing a caller keeps the invariant: no session is made.              *)
LEMMA RefuseStep ==
  ASSUME Inductive, NEW c \in Calls, RefuseCall(c)
  PROVE  Inductive'
<1> DEFINE g == GoneEvent(c)
<1>1. /\ Tail(wire) \in Seq(Events) /\ StartsOnce(Tail(wire))
      /\ Range(Tail(wire)) \subseteq Range(wire)
  BY EventRead DEF RefuseCall
<1>2. g \in Events /\ ~IsStart(g)
  BY DEF GoneEvent, Events, IsStart
<1>3. wire' = Tail(wire) \/ wire' = Tail(wire) \o <<g>>
  BY DEF RefuseCall, Emitted, Departure
<1> HIDE DEF g
<1>4. /\ wire' \in Seq(Events) /\ StartsOnce(wire')
      /\ Range(wire') \subseteq Range(wire) \cup {g}
  BY <1>1, <1>2, <1>3, StartsOnceJoined
<1>5. /\ chan' \in [Calls -> ChannelStates]
      /\ \A d \in Calls : chan'[d] = "unborn" <=> chan[d] = "unborn"
  BY DEF Inductive, TypeOK, RefuseCall, ChannelStates
<1>6. TypeOK'
  BY <1>4, <1>5 DEF Inductive, TypeOK, RefuseCall, stopVars, recordVars
<1>7. PickedUpOnce'
  <2>1. \A e \in Range(wire') : IsStart(e) => e \in Range(wire)
    BY <1>2, <1>4
  <2>2. \A e \in Range(wire) : e.call \in Calls
    <3>1. \A e \in Range(wire) : e \in Events
      BY RangeOfSeq DEF Inductive, TypeOK
    <3> QED
      BY <3>1 DEF Events
  <2> QED
    BY <1>4, <1>5, <2>1, <2>2 DEF Inductive, PickedUpOnce, RefuseCall
<1>8. /\ StateFollowsTask' /\ ThreadOnLoop' /\ ThreadInMode' /\ LingersWhenDone'
      /\ EndingToWrite' /\ OneCaller' /\ HistoryAgrees'
  BY DEF Inductive, RefuseCall, recordVars, StateFollowsTask, ThreadOnLoop, ThreadInMode,
         LingersWhenDone, EndingToWrite, OneCaller, HistoryAgrees, Live, Over
<1> QED
  BY <1>6, <1>7, <1>8 DEF Inductive

(* The end of a refusal keeps the invariant.                               *)
LEMMA RefusalAnsweredStep ==
  ASSUME Inductive, RefusalAnswered
  PROVE  Inductive'
<1>1. TypeOK'
  BY DEF Inductive, TypeOK, RefusalAnswered, stopVars, recordVars
<1>2. /\ PickedUpOnce' /\ StateFollowsTask' /\ ThreadOnLoop' /\ ThreadInMode'
      /\ LingersWhenDone' /\ EndingToWrite' /\ OneCaller' /\ HistoryAgrees'
  BY DEF Inductive, RefusalAnswered, recordVars, PickedUpOnce, StateFollowsTask,
         ThreadOnLoop, ThreadInMode, LingersWhenDone, EndingToWrite, OneCaller,
         HistoryAgrees, Live, Over
<1> QED
  BY <1>1, <1>2 DEF Inductive

(* Hearing that a channel left keeps the invariant.                        *)
LEMMA ChannelGoneStep ==
  ASSUME Inductive, NEW c \in Calls, ChannelGone(c)
  PROVE  Inductive'
<1>1. /\ wire' \in Seq(Events) /\ StartsOnce(wire') /\ Range(wire') \subseteq Range(wire)
  BY EventRead DEF ChannelGone
<1>2. /\ session' \in [Calls -> Sessions]
      /\ \A d \in Calls : /\ session'[d].state = session[d].state
                          /\ session'[d].outcome = session[d].outcome
                          /\ session'[d].mode = session[d].mode
                          /\ Over(d) => session'[d] = session[d]
  <2>1. CASE UNCHANGED session
    BY <2>1 DEF Inductive, TypeOK
  <2>2. CASE ~Over(c) /\ session' = [session EXCEPT ![c].gone = TRUE]
    <3> DEFINE s == [session[c] EXCEPT !.gone = TRUE]
    <3>1. session[c] \in Sessions
      BY DEF Inductive, TypeOK
    <3>2. /\ s \in Sessions /\ s.state = session[c].state
          /\ s.outcome = session[c].outcome /\ s.mode = session[c].mode
      BY <3>1 DEF Sessions
    <3>3. session' = [session EXCEPT ![c] = s]
      BY <2>2
    <3> HIDE DEF s
    <3> QED
      BY <2>2, <3>2, <3>3 DEF Inductive, TypeOK
  <2> QED
    BY <2>1, <2>2 DEF ChannelGone
<1>3. TypeOK'
  BY <1>1, <1>2 DEF Inductive, TypeOK, ChannelGone, stopVars, recordVars
<1>4. StateFollowsTask' /\ OneCaller' /\ EndingToWrite'
  BY <1>2 DEF Inductive, StateFollowsTask, OneCaller, EndingToWrite, ChannelGone, Live, Over,
              IsOver
<1>5. PickedUpOnce' /\ ThreadOnLoop' /\ ThreadInMode' /\ LingersWhenDone'
  BY <1>1 DEF Inductive, PickedUpOnce, ThreadOnLoop, ThreadInMode, LingersWhenDone, ChannelGone
<1>6. HistoryAgrees'
  <2>1. \A r \in store : r.call \in Calls
    BY DEF Inductive, TypeOK, Rows
  <2>2. \A d \in Calls : task[d] = "done" => Over(d)
    BY DEF Inductive, StateFollowsTask
  <2> QED
    BY <1>2, <2>1, <2>2 DEF Inductive, HistoryAgrees, ChannelGone, Over, IsOver, recordVars
<1> QED
  BY <1>3, <1>4, <1>5, <1>6 DEF Inductive

-----------------------------------------------------------------------------
(* The steps: the call task.                                               *)

(* A live call's task moves on to t, leaving the session at s.             *)
LEMMA CallMoves ==
  ASSUME Inductive, NEW c \in Calls, task[c] \in {"snapshot", "answer", "mode"},
         NEW s \in Sessions, NEW t \in {"answer", "mode", "hangup", "persist"},
         t = "answer" => s.state = "answering",
         t = "mode" => s.state = "in_mode",
         t \in {"hangup", "persist"} => IsOver(s),
         t = "hangup" => s.outcome # "none",
         t # "hangup" => s.mode # "none",
         session' = [session EXCEPT ![c] = s], task' = [task EXCEPT ![c] = t],
         UNCHANGED <<active, glow, store>>
  PROVE  /\ session' \in [Calls -> Sessions] /\ task' \in [Calls -> TaskStates]
         /\ StateFollowsTask' /\ LingersWhenDone' /\ EndingToWrite'
         /\ OneCaller' /\ HistoryAgrees'
<1>1. /\ session' \in [Calls -> Sessions] /\ session'[c] = s
      /\ task' \in [Calls -> TaskStates] /\ task'[c] = t
      /\ \A d \in Calls \ {c} : session'[d] = session[d] /\ task'[d] = task[d]
  BY DEF Inductive, TypeOK, TaskStates
<1>2. ~Over(c) /\ Live(c) /\ active = c
  BY DEF Inductive, StateFollowsTask, OneCaller, Live, Over, IsOver, LiveStates, TerminalStates
<1>3. StateFollowsTask'
  BY <1>1 DEF Inductive, StateFollowsTask, Over
<1>4. LingersWhenDone' /\ EndingToWrite'
  BY <1>1 DEF Inductive, LingersWhenDone, EndingToWrite
<1>5. OneCaller'
  BY <1>1, <1>2 DEF Inductive, OneCaller, Live
<1>6. HistoryAgrees'
  <2>1. \A r \in store : r.call \in Calls /\ r.call # c
    BY <1>2 DEF Inductive, TypeOK, HistoryAgrees, Rows
  <2> QED
    BY <1>1, <2>1 DEF Inductive, HistoryAgrees, Over
<1> QED
  BY <1>1, <1>3, <1>4, <1>5, <1>6

(* The same, with a request to Asterisk on the way.                        *)
LEMMA RequestMoves ==
  ASSUME Inductive, NEW c \in Calls, NEW at, Request(c, at), task[c] # "none",
         NEW t \in TaskStates \ {"none"}, task' = [task EXCEPT ![c] = t]
  PROVE  /\ chan' \in [Calls -> ChannelStates] /\ wire' \in Seq(Events)
         /\ io' \in [Calls -> IOStates] /\ io'[c] \in {"ok", "failed"}
         /\ \A d \in Calls \ {c} : io'[d] = io[d]
         /\ PickedUpOnce'
<1>1. /\ chan' \in [Calls -> ChannelStates]
      /\ \A d \in Calls : chan'[d] = "unborn" <=> chan[d] = "unborn"
      /\ wire' \in Seq(Events) /\ StartsOnce(wire')
      /\ \A e \in Range(wire') : IsStart(e) => e \in Range(wire)
      /\ \E answer \in {"ok", "failed"} : io' = [io EXCEPT ![c] = answer]
  BY RequestType DEF Inductive, PickedUpOnce
<1>2. /\ io' \in [Calls -> IOStates] /\ io'[c] \in {"ok", "failed"}
      /\ \A d \in Calls \ {c} : io'[d] = io[d]
  BY <1>1 DEF Inductive, TypeOK, IOStates, Replies
<1>3. \A e \in Range(wire) : e.call \in Calls
  <2>1. \A e \in Range(wire) : e \in Events
    BY RangeOfSeq DEF Inductive, TypeOK
  <2> QED
    BY <2>1 DEF Events
<1>4. PickedUpOnce'
  BY <1>1, <1>3 DEF Inductive, TypeOK, PickedUpOnce
<1> QED
  BY <1>1, <1>2, <1>4

(* A call whose thread is not running has nothing on the loop.             *)
LEMMA NothingOnLoop ==
  ASSUME Inductive, NEW c \in Calls, task[c] # "mode"
  PROVE  \A cb \in Range(ready) : cb.call \in Calls \ {c}
<1>1. \A cb \in Range(ready) : cb \in Callbacks
  BY RangeOfSeq DEF Inductive, TypeOK
<1> QED
  BY <1>1 DEF Inductive, ThreadOnLoop, Callbacks

(* Reading the config keeps the invariant: the call has its Mode.          *)
LEMMA SnapshotTakenStep ==
  ASSUME Inductive, NEW c \in Calls, SnapshotTaken(c)
  PROVE  Inductive'
<1>1. PICK cfg \in Configs :
        /\ session' = [session EXCEPT ![c].mode = cfg.mode]
        /\ flow' = [flow EXCEPT ![c] = NewFlow(cfg.mode, cfg.limit)]
  BY DEF SnapshotTaken
<1>2. cfg.mode \in Modes /\ cfg.limit \in Int
  BY ConfigsAssumption
<1>3. task[c] = "snapshot" /\ task' = [task EXCEPT ![c] = "answer"] /\ Request(c, "answer")
  BY DEF SnapshotTaken, Resumes
<1> DEFINE s == [session[c] EXCEPT !.mode = cfg.mode]
<1>4. session[c] \in Sessions /\ session[c].state = "answering"
  BY <1>3 DEF Inductive, TypeOK, StateFollowsTask
<1>5. s \in Sessions /\ s.state = "answering" /\ s.mode # "none"
  BY <1>2, <1>4 DEF Sessions
<1>6. session' = [session EXCEPT ![c] = s]
  BY <1>1
<1> HIDE DEF s
<1>7. /\ session' \in [Calls -> Sessions] /\ task' \in [Calls -> TaskStates]
      /\ StateFollowsTask' /\ LingersWhenDone' /\ EndingToWrite'
      /\ OneCaller' /\ HistoryAgrees'
  BY <1>3, <1>5, <1>6, CallMoves DEF SnapshotTaken, recordVars
<1>8. /\ chan' \in [Calls -> ChannelStates] /\ wire' \in Seq(Events)
      /\ io' \in [Calls -> IOStates] /\ io'[c] \in {"ok", "failed"}
      /\ \A d \in Calls \ {c} : io'[d] = io[d]
      /\ PickedUpOnce'
  BY <1>3, RequestMoves DEF TaskStates
<1>9. TypeOK'
  <2>1. NewFlow(cfg.mode, cfg.limit) \in Flow
    BY <1>2 DEF NewFlow, Flow, Locations
  <2> QED
    BY <1>1, <1>7, <1>8, <2>1 DEF Inductive, TypeOK, SnapshotTaken, stopVars, recordVars
<1>10. ThreadOnLoop'
  <2>1. \A d \in Calls \ {c} : task'[d] = task[d]
    BY <1>3 DEF Inductive, TypeOK
  <2>2. ready' = ready /\ \A cb \in Range(ready) : cb.call \in Calls \ {c}
    BY <1>3, NothingOnLoop DEF SnapshotTaken
  <2> QED
    BY <1>8, <2>1, <2>2 DEF Inductive, ThreadOnLoop
<1>11. ThreadInMode'
  BY <1>3, <1>8 DEF Inductive, TypeOK, ThreadInMode
<1> QED
  BY <1>7, <1>8, <1>9, <1>10, <1>11 DEF Inductive

(* The exception path, wherever in the call it is entered from.            *)
LEMMA FailMoves ==
  ASSUME Inductive, NEW c \in Calls, task[c] \in {"snapshot", "answer", "mode"}, Fail(c),
         UNCHANGED <<active, glow, store>>
  PROVE  /\ session' \in [Calls -> Sessions] /\ task' \in [Calls -> TaskStates]
         /\ chan' \in [Calls -> ChannelStates] /\ wire' \in Seq(Events)
         /\ io' \in [Calls -> IOStates] /\ io'[c] \in {"ok", "failed"}
         /\ \A d \in Calls \ {c} : io'[d] = io[d] /\ task'[d] = task[d]
         /\ StateFollowsTask' /\ PickedUpOnce' /\ LingersWhenDone' /\ EndingToWrite'
         /\ OneCaller' /\ HistoryAgrees'
<1> DEFINE s == Abandon(session[c])
<1>1. /\ session' = [session EXCEPT ![c] = s] /\ task' = [task EXCEPT ![c] = "hangup"]
      /\ Request(c, "bye")
  BY DEF Fail
<1>2. session[c] \in Sessions
  BY DEF Inductive, TypeOK
<1>3. s \in Sessions /\ IsOver(s) /\ s.outcome # "none"
  BY <1>2, AbandonEnds
<1> HIDE DEF s
<1>4. /\ session' \in [Calls -> Sessions] /\ task' \in [Calls -> TaskStates]
      /\ StateFollowsTask' /\ LingersWhenDone' /\ EndingToWrite'
      /\ OneCaller' /\ HistoryAgrees'
  BY <1>1, <1>3, CallMoves
<1>5. /\ chan' \in [Calls -> ChannelStates] /\ wire' \in Seq(Events)
      /\ io' \in [Calls -> IOStates] /\ io'[c] \in {"ok", "failed"}
      /\ \A d \in Calls \ {c} : io'[d] = io[d]
      /\ PickedUpOnce'
  BY <1>1, RequestMoves DEF TaskStates
<1>6. \A d \in Calls \ {c} : task'[d] = task[d]
  BY <1>1 DEF Inductive, TypeOK
<1> QED
  BY <1>4, <1>5, <1>6

(* Failing before the Mode started keeps the invariant.                    *)
LEMMA EarlyFailureStep ==
  ASSUME Inductive, NEW c \in Calls, SnapshotFails(c) \/ AnswerFails(c)
  PROVE  Inductive'
<1>1. /\ task[c] \in {"snapshot", "answer"} /\ Fail(c)
      /\ UNCHANGED <<socket, reader, active, flow, ready, glow, latest, stopVars, recordVars>>
  BY DEF SnapshotFails, AnswerFails, Resumes
<1>2. /\ session' \in [Calls -> Sessions] /\ task' \in [Calls -> TaskStates]
      /\ chan' \in [Calls -> ChannelStates] /\ wire' \in Seq(Events)
      /\ io' \in [Calls -> IOStates] /\ io'[c] \in {"ok", "failed"}
      /\ \A d \in Calls \ {c} : io'[d] = io[d] /\ task'[d] = task[d]
      /\ StateFollowsTask' /\ PickedUpOnce' /\ LingersWhenDone' /\ EndingToWrite'
      /\ OneCaller' /\ HistoryAgrees'
  BY <1>1, FailMoves DEF recordVars
<1>3. TypeOK'
  BY <1>1, <1>2 DEF Inductive, TypeOK, stopVars, recordVars
<1>4. ThreadOnLoop'
  BY <1>1, <1>2, NothingOnLoop DEF Inductive, ThreadOnLoop
<1>5. ThreadInMode'
  BY <1>2 DEF Inductive, ThreadInMode
<1> QED
  BY <1>2, <1>3, <1>4, <1>5 DEF Inductive

(* What a callback taken off the loop's queue says of its call, and leaves.*)
LEMMA CallbackTaken ==
  ASSUME Inductive, NEW kind, NEW c \in Calls, NextCallback(kind, c)
  PROVE  /\ Head(ready) \in Callbacks
         /\ Tail(ready) \in Seq(Callbacks) /\ ProgressFirst(Tail(ready))
         /\ Range(Tail(ready)) \subseteq Range(ready)
         /\ task[c] = "mode" /\ io[c] \in Waiting
         /\ kind = "command" => io[c] = "queued"
         /\ kind = "result" => io[c] # "queued"
         /\ kind # "progress" => \A cb \in Range(Tail(ready)) : cb.call \in Calls \ {c}
<1>1. ready \in Seq(Callbacks) /\ ready # <<>> /\ ProgressFirst(ready)
  BY DEF Inductive, TypeOK, ThreadOnLoop, NextCallback
<1>2. /\ Head(ready) \in Range(ready) /\ Head(ready) \in Callbacks
      /\ Tail(ready) \in Seq(Callbacks) /\ Range(Tail(ready)) \subseteq Range(ready)
  BY <1>1, HeadAndTail
<1>3. /\ ProgressFirst(Tail(ready))
      /\ Head(ready).kind # "progress" =>
           \A cb \in Range(Tail(ready)) : cb.call # Head(ready).call
  BY <1>1, ProgressFirstTail
<1>4. Head(ready).kind = kind /\ Head(ready).call = c
  BY DEF NextCallback
<1>5. \A cb \in Range(Tail(ready)) : cb.call \in Calls
  <2>1. \A cb \in Range(Tail(ready)) : cb \in Callbacks
    BY <1>2, RangeOfSeq
  <2> QED
    BY <2>1 DEF Callbacks
<1>6. /\ task[c] = "mode" /\ io[c] \in Waiting
      /\ kind = "command" => io[c] = "queued"
      /\ kind = "result" => io[c] # "queued"
  BY <1>2, <1>4 DEF Inductive, ThreadOnLoop
<1> QED
  BY <1>2, <1>3, <1>4, <1>5, <1>6

(* A task that moves on without Asterisk leaves the pickups as they were.  *)
LEMMA NoPickup ==
  ASSUME Inductive, NEW c \in Calls, task[c] # "none", task'[c] # "none",
         \A d \in Calls \ {c} : task'[d] = task[d], UNCHANGED <<chan, wire>>
  PROVE  PickedUpOnce'
<1>1. \A e \in Range(wire) : e.call \in Calls
  <2>1. \A e \in Range(wire) : e \in Events
    BY RangeOfSeq DEF Inductive, TypeOK
  <2> QED
    BY <2>1 DEF Events
<1> QED
  BY <1>1 DEF Inductive, PickedUpOnce

(* Entering the Mode keeps the invariant.                                  *)
LEMMA AnsweredStep ==
  ASSUME Inductive, NEW c \in Calls, Answered(c)
  PROVE  Inductive'
<1> DEFINE s == [session[c] EXCEPT !.state = "in_mode"]
<1>1. /\ task[c] = "answer" /\ io[c] = "ok"
      /\ session' = [session EXCEPT ![c] = s] /\ task' = [task EXCEPT ![c] = "mode"]
      /\ UNCHANGED <<asteriskVars, reader, active, io, flow, ready, glow, latest,
                     stopVars, recordVars>>
  BY DEF Answered, Resumes
<1>2. s \in Sessions /\ s.state = "in_mode" /\ s.mode # "none"
  <2>1. session[c] \in Sessions /\ session[c].mode # "none"
    BY <1>1 DEF Inductive, TypeOK, StateFollowsTask
  <2> QED
    BY <2>1 DEF Sessions, LiveStates
<1> HIDE DEF s
<1>3. /\ session' \in [Calls -> Sessions] /\ task' \in [Calls -> TaskStates]
      /\ StateFollowsTask' /\ LingersWhenDone' /\ EndingToWrite'
      /\ OneCaller' /\ HistoryAgrees'
  BY <1>1, <1>2, CallMoves DEF recordVars
<1>4. \A d \in Calls \ {c} : task'[d] = task[d]
  BY <1>1 DEF Inductive, TypeOK
<1>5. TypeOK'
  BY <1>1, <1>3 DEF Inductive, TypeOK, asteriskVars, stopVars, recordVars
<1>6. PickedUpOnce'
  <2>1. task[c] # "none" /\ task'[c] # "none" /\ chan' = chan /\ wire' = wire
    BY <1>1 DEF Inductive, TypeOK, asteriskVars
  <2> QED
    BY <1>4, <2>1, NoPickup
<1>7. ThreadOnLoop'
  BY <1>1, <1>4, NothingOnLoop DEF Inductive, ThreadOnLoop
<1>8. ThreadInMode'
  BY <1>1, <1>4 DEF Inductive, TypeOK, ThreadInMode
<1> QED
  BY <1>3, <1>5, <1>6, <1>7, <1>8 DEF Inductive

(* A handler's result keeps the invariant: the thread has gone.            *)
LEMMA ModeReturnedStep ==
  ASSUME Inductive, NEW c \in Calls, ModeReturned(c)
  PROVE  Inductive'
<1> DEFINE s == Complete(session[c], flow[c].outcome, flow[c].tally)
<1>1. /\ ready' = Tail(ready)
      /\ session' = [session EXCEPT ![c] = s] /\ task' = [task EXCEPT ![c] = "persist"]
      /\ io' = [io EXCEPT ![c] = "idle"]
      /\ UNCHANGED <<asteriskVars, reader, active, flow, glow, latest, stopVars, recordVars>>
  BY DEF ModeReturned
<1>2. /\ ready' \in Seq(Callbacks) /\ ProgressFirst(ready')
      /\ Range(ready') \subseteq Range(ready) /\ task[c] = "mode"
      /\ \A cb \in Range(ready') : cb.call \in Calls \ {c}
  BY <1>1, CallbackTaken DEF ModeReturned
<1>3. s \in Sessions /\ IsOver(s) /\ s.mode # "none"
  <2>1. session[c] \in Sessions /\ flow[c] \in Flow /\ session[c].mode # "none"
    BY <1>2 DEF Inductive, TypeOK, StateFollowsTask
  <2>2. flow[c].outcome \in FlowOutcomes /\ flow[c].tally \in Int
    BY <2>1 DEF Flow
  <2> QED
    BY <2>1, <2>2, CompleteEnds
<1> HIDE DEF s
<1>4. /\ session' \in [Calls -> Sessions] /\ task' \in [Calls -> TaskStates]
      /\ StateFollowsTask' /\ LingersWhenDone' /\ EndingToWrite'
      /\ OneCaller' /\ HistoryAgrees'
  BY <1>1, <1>2, <1>3, CallMoves DEF recordVars
<1>5. \A d \in Calls \ {c} : task'[d] = task[d] /\ io'[d] = io[d]
  BY <1>1 DEF Inductive, TypeOK
<1>6. io' \in [Calls -> IOStates] /\ io'[c] = "idle"
  BY <1>1 DEF Inductive, TypeOK, IOStates
<1>7. TypeOK'
  BY <1>1, <1>2, <1>4, <1>6 DEF Inductive, TypeOK, asteriskVars, stopVars, recordVars
<1>8. PickedUpOnce'
  <2>1. task[c] # "none" /\ task'[c] # "none" /\ chan' = chan /\ wire' = wire
    BY <1>1, <1>2 DEF Inductive, TypeOK, asteriskVars
  <2> QED
    BY <1>5, <2>1, NoPickup
<1>9. ThreadOnLoop'
  BY <1>2, <1>5 DEF Inductive, ThreadOnLoop
<1>10. ThreadInMode'
  BY <1>5, <1>6 DEF Inductive, ThreadInMode
<1> QED
  BY <1>4, <1>7, <1>8, <1>9, <1>10 DEF Inductive

(* A handler's exception keeps the invariant: the thread has gone.         *)
LEMMA ModeRaisedStep ==
  ASSUME Inductive, NEW c \in Calls, ModeRaised(c)
  PROVE  Inductive'
<1>1. /\ ready' = Tail(ready) /\ Fail(c)
      /\ UNCHANGED <<socket, reader, active, flow, glow, latest, stopVars, recordVars>>
  BY DEF ModeRaised
<1>2. /\ ready' \in Seq(Callbacks) /\ ProgressFirst(ready')
      /\ Range(ready') \subseteq Range(ready) /\ task[c] = "mode"
      /\ \A cb \in Range(ready') : cb.call \in Calls \ {c}
  BY <1>1, CallbackTaken DEF ModeRaised
<1>3. /\ session' \in [Calls -> Sessions] /\ task' \in [Calls -> TaskStates]
      /\ chan' \in [Calls -> ChannelStates] /\ wire' \in Seq(Events)
      /\ io' \in [Calls -> IOStates] /\ io'[c] \in {"ok", "failed"}
      /\ \A d \in Calls \ {c} : io'[d] = io[d] /\ task'[d] = task[d]
      /\ StateFollowsTask' /\ PickedUpOnce' /\ LingersWhenDone' /\ EndingToWrite'
      /\ OneCaller' /\ HistoryAgrees'
  BY <1>1, <1>2, FailMoves DEF recordVars
<1>4. TypeOK'
  BY <1>1, <1>2, <1>3 DEF Inductive, TypeOK, stopVars, recordVars
<1>5. ThreadOnLoop'
  BY <1>2, <1>3 DEF Inductive, ThreadOnLoop
<1>6. ThreadInMode'
  BY <1>3 DEF Inductive, ThreadInMode
<1> QED
  BY <1>3, <1>4, <1>5, <1>6 DEF Inductive

(* The end of a call announced: from here on only the afterglow is left.   *)
LEMMA EndAnnounced ==
  ASSUME Inductive, NEW c \in Calls, task[c] \in {"hangup", "persist"}, AnnounceEnd(c),
         UNCHANGED session
  PROVE  /\ task' \in [Calls -> TaskStates] /\ task'[c] = "done"
         /\ \A d \in Calls \ {c} : task'[d] = task[d]
         /\ glow' \in SUBSET Calls /\ active' \in Calls \cup {NoCall}
         /\ StateFollowsTask' /\ LingersWhenDone' /\ EndingToWrite' /\ OneCaller'
<1>1. /\ task' \in [Calls -> TaskStates] /\ task'[c] = "done"
      /\ \A d \in Calls \ {c} : task'[d] = task[d]
  BY DEF Inductive, TypeOK, AnnounceEnd, TaskStates
<1>2. /\ glow' \subseteq glow \cup {c}
      /\ \/ active' = active
         \/ active = c /\ active' = NoCall
  BY DEF AnnounceEnd
<1>3. glow' \in SUBSET Calls /\ active' \in Calls \cup {NoCall}
  BY <1>2 DEF Inductive, TypeOK
<1>4. StateFollowsTask'
  BY <1>1 DEF Inductive, StateFollowsTask, Over
<1>5. LingersWhenDone' /\ EndingToWrite'
  BY <1>1, <1>2 DEF Inductive, TypeOK, LingersWhenDone, EndingToWrite
<1>6. OneCaller'
  <2>1. ~Live(c)
    BY DEF Inductive, StateFollowsTask, Live, Over, IsOver, LiveStates, TerminalStates
  <2> QED
    BY <1>2, <2>1 DEF Inductive, OneCaller, Live
<1> QED
  BY <1>1, <1>3, <1>4, <1>5, <1>6

(* The end of the teardown keeps the invariant, recorded or not.           *)
LEMMA TornDownStep ==
  ASSUME Inductive, NEW c \in Calls, TornDown(c)
  PROVE  Inductive'
<1>1. /\ task[c] = "hangup" /\ io' = [io EXCEPT ![c] = "idle"]
      /\ UNCHANGED <<asteriskVars, reader, session, flow, ready, latest, stopVars, recordVars>>
  BY DEF TornDown, Resumes
<1>2. /\ io' \in [Calls -> IOStates] /\ io'[c] = "idle"
      /\ \A d \in Calls \ {c} : io'[d] = io[d]
  BY <1>1 DEF Inductive, TypeOK, IOStates
<1>3. /\ task' \in [Calls -> TaskStates] /\ task'[c] \in {"persist", "done"}
      /\ \A d \in Calls \ {c} : task'[d] = task[d]
      /\ glow' \in SUBSET Calls /\ active' \in Calls \cup {NoCall}
      /\ StateFollowsTask' /\ LingersWhenDone' /\ EndingToWrite' /\ OneCaller'
      /\ task'[c] = "done" => session[c].mode = "none"
  <2>1. CASE IsPersistable(session[c])
    <3>1. /\ task' = [task EXCEPT ![c] = "persist"] /\ UNCHANGED <<active, glow, session>>
      BY <1>1, <2>1 DEF TornDown
    <3>2. /\ task' \in [Calls -> TaskStates] /\ task'[c] = "persist"
          /\ \A d \in Calls \ {c} : task'[d] = task[d]
      BY <3>1 DEF Inductive, TypeOK, TaskStates
    <3>3. session[c].mode # "none" /\ Over(c)
      BY <1>1, <2>1 DEF IsPersistable, Inductive, StateFollowsTask
    <3>4. StateFollowsTask'
      BY <3>1, <3>2, <3>3 DEF Inductive, StateFollowsTask, Over
    <3>5. LingersWhenDone' /\ EndingToWrite' /\ OneCaller'
      BY <1>1, <3>1, <3>2 DEF Inductive, TypeOK, LingersWhenDone, EndingToWrite, OneCaller,
         Live
    <3> QED
      BY <3>1, <3>2, <3>4, <3>5 DEF Inductive, TypeOK
  <2>2. CASE ~IsPersistable(session[c])
    <3>1. session[c].mode = "none"
      BY <1>1, <2>2 DEF IsPersistable, Inductive, EndingToWrite
    <3>2. AnnounceEnd(c)
      BY <2>2 DEF TornDown
    <3> QED
      BY <1>1, <3>1, <3>2, EndAnnounced
  <2> QED
    BY <2>1, <2>2
<1>4. TypeOK'
  BY <1>1, <1>2, <1>3 DEF Inductive, TypeOK, asteriskVars, stopVars, recordVars
<1>5. PickedUpOnce'
  BY <1>1, <1>3, NoPickup DEF asteriskVars
<1>6. ThreadOnLoop'
  BY <1>1, <1>2, <1>3, NothingOnLoop DEF Inductive, ThreadOnLoop
<1>7. ThreadInMode'
  BY <1>2, <1>3 DEF Inductive, ThreadInMode
<1>8. HistoryAgrees'
  BY <1>1, <1>3 DEF Inductive, HistoryAgrees, Over, recordVars
<1> QED
  BY <1>3, <1>4, <1>5, <1>6, <1>7, <1>8 DEF Inductive

(* Writing the row, or failing to, keeps the invariant.                    *)
LEMMA PersistedStep ==
  ASSUME Inductive, NEW c \in Calls, Persisted(c)
  PROVE  Inductive'
<1>1. /\ task[c] = "persist" /\ AnnounceEnd(c)
      /\ \/ store' = store \cup {ToRecord(c, session[c])}
         \/ "store" \in Perils /\ store' = store
      /\ UNCHANGED <<asteriskVars, reader, session, io, flow, ready, latest, stopVars, jsonl>>
  BY DEF Persisted, Resumes
<1>2. /\ task' \in [Calls -> TaskStates] /\ task'[c] = "done"
      /\ \A d \in Calls \ {c} : task'[d] = task[d]
      /\ glow' \in SUBSET Calls /\ active' \in Calls \cup {NoCall}
      /\ StateFollowsTask' /\ LingersWhenDone' /\ EndingToWrite' /\ OneCaller'
  BY <1>1, EndAnnounced
<1>3. store' \in SUBSET Rows
  <2>1. session[c] \in Sessions /\ session[c].mode # "none"
    BY <1>1 DEF Inductive, TypeOK, StateFollowsTask
  <2>2. ToRecord(c, session[c]) \in Rows
    BY <2>1 DEF ToRecord, Rows, Sessions
  <2> QED
    BY <1>1, <2>2 DEF Inductive, TypeOK
<1>4. TypeOK'
  BY <1>1, <1>2, <1>3 DEF Inductive, TypeOK, asteriskVars, stopVars
<1>5. PickedUpOnce'
  BY <1>1, <1>2, NoPickup DEF asteriskVars
<1>6. ThreadOnLoop'
  BY <1>1, <1>2, NothingOnLoop DEF Inductive, ThreadOnLoop
<1>7. ThreadInMode'
  BY <1>1, <1>2 DEF Inductive, ThreadInMode
<1>8. HistoryAgrees'
  <2>1. Over(c) /\ ToRecord(c, session[c]).call = c
    BY <1>1 DEF Inductive, StateFollowsTask, ToRecord
  <2> QED
    BY <1>1, <1>2, <2>1 DEF Inductive, HistoryAgrees, Over
<1> QED
  BY <1>2, <1>4, <1>5, <1>6, <1>7, <1>8 DEF Inductive

(* The afterglow keeps the invariant: it never clears a live call.         *)
LEMMA AfterglowStep ==
  ASSUME Inductive, NEW c \in Calls, AfterglowEnds(c)
  PROVE  Inductive'
<1>1. TypeOK'
  BY DEF Inductive, TypeOK, AfterglowEnds, asteriskVars, stopVars, recordVars
<1>2. OneCaller'
  <2>1. ~Live(c)
    BY DEF Inductive, LingersWhenDone, StateFollowsTask, AfterglowEnds, Live, Over, IsOver,
           LiveStates, TerminalStates
  <2> QED
    BY <2>1 DEF Inductive, OneCaller, AfterglowEnds, Live
<1>3. /\ StateFollowsTask' /\ PickedUpOnce' /\ ThreadOnLoop' /\ ThreadInMode'
      /\ LingersWhenDone' /\ EndingToWrite' /\ HistoryAgrees'
  BY DEF Inductive, AfterglowEnds, asteriskVars, recordVars, StateFollowsTask, PickedUpOnce,
         ThreadOnLoop, ThreadInMode, LingersWhenDone, EndingToWrite, HistoryAgrees, Over
<1> QED
  BY <1>1, <1>2, <1>3 DEF Inductive

-----------------------------------------------------------------------------
(* The steps: the worker thread.                                           *)

(* The queue q is the one the loop has with the words of c's thread added. *)
Spoken(q, c, kind) ==
  /\ q \in Seq(Callbacks) /\ ProgressFirst(q)
  /\ \A cb \in Range(q) : \/ cb \in Range(ready) /\ cb.call \in Calls \ {c}
                          \/ cb.call = c /\ cb.kind \in {"progress", kind}

(* A running thread has nothing on the loop; what it adds, with its        *)
(* progress or without, is in order.                                       *)
LEMMA ThreadSpeaks ==
  ASSUME Inductive, NEW c \in Calls, io[c] \in Replies, NEW kind \in {"command", "result"},
         NEW g \in Flow
  PROVE  /\ Spoken(ready \o Progress(c, g) \o <<Callback(kind, c, g)>>, c, kind)
         /\ Spoken(Append(ready, Callback(kind, c, g)), c, kind)
<1>1. /\ ready \in Seq(Callbacks) /\ ProgressFirst(ready)
      /\ \A cb \in Range(ready) : cb.call \in Calls \ {c}
  <2>1. \A cb \in Range(ready) : cb \in Callbacks
    BY RangeOfSeq DEF Inductive, TypeOK
  <2>2. io[c] \notin Waiting
    BY DEF Replies, Answers, Waiting
  <2> QED
    BY <2>1, <2>2 DEF Inductive, TypeOK, ThreadOnLoop, Callbacks
<1> DEFINE note == Callback("progress", c, g)
           stop == Callback(kind, c, g)
<1>2. /\ note \in Callbacks /\ note.call = c /\ note.kind = "progress"
      /\ stop \in Callbacks /\ stop.call = c /\ stop.kind = kind
  BY DEF Callback, Callbacks, Flow
<1> HIDE DEF stop
<1> DEFINE Open(p) ==
      /\ p \in Seq(Callbacks) /\ ProgressFirst(p)
      /\ \A cb \in Range(p) : \/ cb \in Range(ready) /\ cb.call \in Calls \ {c}
                              \/ cb.call = c /\ cb.kind = "progress"
<1>3. ASSUME NEW p, Open(p) PROVE Spoken(p \o <<stop>>, c, kind)
  <2>1. p \in Seq(Callbacks) /\ \A cb \in Range(p) : cb.call = c => cb.kind = "progress"
    BY <1>3
  <2>2. /\ p \o <<stop>> \in Seq(Callbacks) /\ ProgressFirst(p \o <<stop>>)
        /\ Range(p \o <<stop>>) = Range(p) \cup {stop}
    BY <1>2, <1>3, <2>1, ProgressFirstJoined
  <2> QED
    BY <1>2, <1>3, <2>2 DEF Spoken
<1>4. Spoken(ready \o <<stop>>, c, kind)
  <2>1. Open(ready)
    BY <1>1
  <2> HIDE DEF Open
  <2> QED
    BY <1>3, <2>1
<1>5. Append(ready, stop) = ready \o <<stop>>
  BY <1>1, <1>2, AppendIsConcat
<1>6. Spoken(ready \o Progress(c, g) \o <<stop>>, c, kind)
  <2>1. CASE Progress(c, g) = <<note>>
    <3> HIDE DEF note
    <3>1. /\ ready \o <<note>> \in Seq(Callbacks) /\ ProgressFirst(ready \o <<note>>)
          /\ Range(ready \o <<note>>) = Range(ready) \cup {note}
      BY <1>1, <1>2, ProgressFirstJoined
    <3>2. Open(ready \o <<note>>)
      BY <1>1, <1>2, <3>1
    <3> HIDE DEF Open
    <3> QED
      BY <1>3, <2>1, <3>2
  <2>2. CASE Progress(c, g) = <<>>
    <3>1. ready \o Progress(c, g) = ready
      BY <1>1, <2>2, ConcatEmptySeq
    <3> QED
      BY <1>4, <3>1
  <2> QED
    BY <2>1, <2>2 DEF Progress
<1> QED
  BY <1>4, <1>5, <1>6 DEF stop

(* The thread of c stops in state r, having said what it had to say.       *)
LEMMA ThreadMoves ==
  ASSUME Inductive, NEW c \in Calls, task[c] = "mode", NEW r \in Waiting,
         Spoken(ready', c, IF r = "queued" THEN "command" ELSE "result"),
         io' = [io EXCEPT ![c] = r],
         flow' \in [Calls -> Flow], jsonl' \in [Calls -> Seq({"succeed", "exile"})],
         UNCHANGED <<asteriskVars, reader, active, session, task, glow, latest, stopVars, store>>
  PROVE  Inductive'
<1>1. /\ io' \in [Calls -> IOStates] /\ io'[c] = r
      /\ \A d \in Calls \ {c} : io'[d] = io[d]
  BY DEF Inductive, TypeOK, IOStates, Waiting
<1>2. TypeOK'
  BY <1>1 DEF Inductive, TypeOK, asteriskVars, stopVars, Spoken
<1>3. ThreadOnLoop'
  BY <1>1 DEF Inductive, ThreadOnLoop, Spoken
<1>4. ThreadInMode'
  BY <1>1 DEF Inductive, ThreadInMode
<1>5. /\ StateFollowsTask' /\ PickedUpOnce' /\ LingersWhenDone' /\ EndingToWrite'
      /\ OneCaller' /\ HistoryAgrees'
  BY DEF Inductive, asteriskVars, StateFollowsTask, PickedUpOnce, LingersWhenDone,
         EndingToWrite, OneCaller, HistoryAgrees, Live, Over
<1> QED
  BY <1>2, <1>3, <1>4, <1>5 DEF Inductive

(* The thread's run to its next command keeps the invariant.               *)
LEMMA ThreadAdvancesStep ==
  ASSUME Inductive, NEW c \in Calls, ThreadAdvances(c)
  PROVE  Inductive'
<1>1. PICK g \in After(flow[c], io[c]) :
        /\ flow' = [flow EXCEPT ![c] = g]
        /\ jsonl' = IF Logs(flow[c], g) THEN [jsonl EXCEPT ![c] = Append(@, g.outcome)]
                                        ELSE jsonl
        /\ IF g.at = "end"
             THEN /\ ready' = Append(ready, Callback("result", c, g))
                  /\ io' = [io EXCEPT ![c] = "returned"]
             ELSE /\ ready' = ready \o Progress(c, g) \o <<Callback("command", c, g)>>
                  /\ io' = [io EXCEPT ![c] = "queued"]
  BY DEF ThreadAdvances
<1>2. g \in Flow /\ ready \in Seq(Callbacks)
  BY AfterType DEF Inductive, TypeOK
<1>3. flow' \in [Calls -> Flow]
  BY <1>1, <1>2 DEF Inductive, TypeOK
<1>4. jsonl' \in [Calls -> Seq({"succeed", "exile"})]
  <2>1. CASE ~Logs(flow[c], g)
    BY <1>1, <2>1 DEF Inductive, TypeOK
  <2>2. CASE Logs(flow[c], g)
    <3>1. g.outcome \in {"succeed", "exile"} /\ jsonl[c] \in Seq({"succeed", "exile"})
      BY <2>2 DEF Logs, Inductive, TypeOK
    <3>2. Append(jsonl[c], g.outcome) \in Seq({"succeed", "exile"})
      BY <3>1, AppendProperties
    <3> QED
      BY <1>1, <2>2, <3>2 DEF Inductive, TypeOK
  <2> QED
    BY <2>1, <2>2
<1>5. /\ io[c] \in Replies /\ task[c] = "mode"
      /\ UNCHANGED <<asteriskVars, reader, active, session, task, glow, latest, stopVars, store>>
  BY DEF ThreadAdvances, Runnable
<1>6. CASE g.at = "end"
  <2>1. Spoken(ready', c, "result")
    BY <1>1, <1>2, <1>5, <1>6, ThreadSpeaks
  <2> QED
    BY <1>1, <1>3, <1>4, <1>5, <1>6, <2>1, ThreadMoves DEF Waiting
<1>7. CASE g.at # "end"
  <2>1. Spoken(ready', c, "command")
    BY <1>1, <1>2, <1>5, <1>7, ThreadSpeaks
  <2> QED
    BY <1>1, <1>3, <1>4, <1>5, <1>7, <2>1, ThreadMoves DEF Waiting
<1> QED
  BY <1>6, <1>7

(* A failed command surfacing in the thread keeps the invariant.           *)
LEMMA ThreadRaisesStep ==
  ASSUME Inductive, NEW c \in Calls, ThreadRaises(c)
  PROVE  Inductive'
<1>1. /\ task[c] = "mode" /\ io[c] \in Replies
      /\ io' = [io EXCEPT ![c] = "raised"]
      /\ ready' = Append(ready, Callback("result", c, flow[c]))
      /\ UNCHANGED <<asteriskVars, reader, active, session, task, flow, glow, latest, stopVars,
                     recordVars>>
  BY DEF ThreadRaises, Runnable
<1>2. flow[c] \in Flow /\ ready \in Seq(Callbacks)
  BY DEF Inductive, TypeOK
<1>3. Spoken(ready', c, "result")
  BY <1>1, <1>2, ThreadSpeaks
<1>4. /\ flow' \in [Calls -> Flow] /\ jsonl' \in [Calls -> Seq({"succeed", "exile"})]
      /\ UNCHANGED store
  BY <1>1 DEF Inductive, TypeOK, recordVars
<1> QED
  BY <1>1, <1>3, <1>4, ThreadMoves DEF Waiting

(* The thread's own exception keeps the invariant.                         *)
LEMMA ThreadBreaksStep ==
  ASSUME Inductive, NEW c \in Calls, ThreadBreaks(c)
  PROVE  Inductive'
<1>1. /\ task[c] = "mode" /\ io[c] \in Replies
      /\ io' = [io EXCEPT ![c] = "raised"]
      /\ UNCHANGED <<asteriskVars, reader, active, session, task, glow, latest, stopVars,
                     recordVars>>
  BY DEF ThreadBreaks, Runnable
<1>2. flow[c] \in Flow /\ ready \in Seq(Callbacks)
  BY DEF Inductive, TypeOK
<1>3. jsonl' \in [Calls -> Seq({"succeed", "exile"})] /\ UNCHANGED store
  BY <1>1 DEF Inductive, TypeOK, recordVars
<1>4. CASE ready' = Append(ready, Callback("result", c, flow[c])) /\ UNCHANGED flow
  <2>1. Spoken(ready', c, "result")
    BY <1>1, <1>2, <1>4, ThreadSpeaks
  <2>2. flow' \in [Calls -> Flow]
    BY <1>4 DEF Inductive, TypeOK
  <2> QED
    BY <1>1, <1>3, <2>1, <2>2, ThreadMoves DEF Waiting
<1>5. ASSUME NEW g \in After(flow[c], io[c]),
             flow' = [flow EXCEPT ![c] = [g EXCEPT !.outcome = flow[c].outcome]],
             ready' = ready \o Progress(c, g) \o <<Callback("result", c, g)>>
      PROVE  Inductive'
  <2>1. g \in Flow
    BY <1>2, AfterType
  <2>2. [g EXCEPT !.outcome = flow[c].outcome] \in Flow
    BY <1>2, <2>1 DEF Flow
  <2>3. flow' \in [Calls -> Flow]
    BY <1>5, <2>2 DEF Inductive, TypeOK
  <2>4. Spoken(ready', c, "result")
    BY <1>1, <1>5, <2>1, ThreadSpeaks
  <2> QED
    BY <1>1, <1>3, <2>3, <2>4, ThreadMoves DEF Waiting
<1> QED
  BY <1>4, <1>5 DEF ThreadBreaks

-----------------------------------------------------------------------------
(* The steps: the loop, and shutdown.                                      *)

(* The thread's progress reaching the loop keeps the invariant.            *)
LEMMA RunProgressStep ==
  ASSUME Inductive, NEW c \in Calls, RunProgress(c)
  PROVE  Inductive'
<1>1. /\ Head(ready) \in Callbacks
      /\ ready' \in Seq(Callbacks) /\ ProgressFirst(ready')
      /\ Range(ready') \subseteq Range(ready)
  BY CallbackTaken DEF RunProgress
<1>2. /\ session' \in [Calls -> Sessions]
      /\ \A d \in Calls : /\ session'[d].state = session[d].state
                          /\ session'[d].outcome = session[d].outcome
                          /\ session'[d].mode = session[d].mode
                          /\ Over(d) => session'[d] = session[d]
  <2>1. CASE UNCHANGED session
    BY <2>1 DEF Inductive, TypeOK
  <2>2. CASE ~Over(c) /\ session' = [session EXCEPT ![c] = Observed(@, Head(ready))]
    <3> DEFINE s == Observed(session[c], Head(ready))
    <3>1. session[c] \in Sessions /\ Head(ready).tally \in Int
      BY <1>1 DEF Inductive, TypeOK, Callbacks
    <3>2. /\ s \in Sessions /\ s.state = session[c].state
          /\ s.outcome = session[c].outcome /\ s.mode = session[c].mode
      BY <3>1 DEF Observed, Sessions
    <3>3. session' = [session EXCEPT ![c] = s]
      BY <2>2
    <3> HIDE DEF s
    <3> QED
      BY <2>2, <3>2, <3>3 DEF Inductive, TypeOK
  <2> QED
    BY <2>1, <2>2 DEF RunProgress
<1>3. TypeOK'
  BY <1>1, <1>2 DEF Inductive, TypeOK, RunProgress, asteriskVars, stopVars, recordVars
<1>4. StateFollowsTask' /\ OneCaller' /\ EndingToWrite'
  BY <1>2 DEF Inductive, StateFollowsTask, OneCaller, EndingToWrite, RunProgress, Live, Over,
              IsOver
<1>5. PickedUpOnce' /\ ThreadOnLoop' /\ ThreadInMode' /\ LingersWhenDone'
  BY <1>1 DEF Inductive, PickedUpOnce, ThreadOnLoop, ThreadInMode, LingersWhenDone, RunProgress,
              asteriskVars
<1>6. HistoryAgrees'
  <2>1. \A r \in store : r.call \in Calls
    BY DEF Inductive, TypeOK, Rows
  <2>2. \A d \in Calls : task[d] = "done" => Over(d)
    BY DEF Inductive, StateFollowsTask
  <2> QED
    BY <1>2, <2>1, <2>2 DEF Inductive, HistoryAgrees, RunProgress, Over, IsOver, recordVars
<1> QED
  BY <1>3, <1>4, <1>5, <1>6 DEF Inductive

(* The thread's command starting on the loop keeps the invariant.          *)
LEMMA RunCommandStep ==
  ASSUME Inductive, NEW c \in Calls, RunCommand(c)
  PROVE  Inductive'
<1>1. /\ ready' = Tail(ready) /\ ready' \in Seq(Callbacks) /\ ProgressFirst(ready')
      /\ Range(ready') \subseteq Range(ready) /\ task[c] = "mode"
      /\ \A cb \in Range(ready') : cb.call \in Calls \ {c}
  BY CallbackTaken DEF RunCommand
<1>2. /\ chan' \in [Calls -> ChannelStates] /\ wire' \in Seq(Events)
      /\ io' \in [Calls -> IOStates]
      /\ \A d \in Calls \ {c} : io'[d] = io[d]
      /\ PickedUpOnce'
  <2>1. CASE /\ \/ io' = [io EXCEPT ![c] = "reading"]
                \/ io' = [io EXCEPT ![c] = "deaf"]
             /\ UNCHANGED <<chan, wire>>
    <3>1. PickedUpOnce'
      BY <2>1 DEF Inductive, PickedUpOnce, RunCommand
    <3> QED
      BY <2>1, <3>1 DEF Inductive, TypeOK, IOStates
  <2>2. CASE Request(c, Head(ready).at)
    <3>1. task' = [task EXCEPT ![c] = "mode"]
      BY <1>1 DEF RunCommand, Inductive, TypeOK
    <3> QED
      BY <1>1, <2>2, <3>1, RequestMoves DEF TaskStates
  <2> QED
    BY <2>1, <2>2 DEF RunCommand
<1>3. TypeOK'
  BY <1>1, <1>2 DEF Inductive, TypeOK, RunCommand, stopVars, recordVars
<1>4. ThreadOnLoop'
  BY <1>1, <1>2 DEF Inductive, ThreadOnLoop, RunCommand
<1>5. ThreadInMode'
  BY <1>1, <1>2 DEF Inductive, ThreadInMode, RunCommand
<1>6. StateFollowsTask' /\ LingersWhenDone' /\ EndingToWrite' /\ OneCaller' /\ HistoryAgrees'
  BY DEF Inductive, RunCommand, recordVars, StateFollowsTask, LingersWhenDone, EndingToWrite,
         OneCaller, HistoryAgrees, Live, Over
<1> QED
  BY <1>2, <1>3, <1>4, <1>5, <1>6 DEF Inductive

(* A read that ends, with a key or without, keeps the invariant.           *)
LEMMA ReadEndsStep ==
  ASSUME Inductive, NEW c \in Calls, Keyed(c) \/ ReadTimesOut(c)
  PROVE  Inductive'
<1>1. PICK heard \in Answers : io' = [io EXCEPT ![c] = heard]
  BY DEF Keyed, ReadTimesOut, Answers
<1>2. /\ io[c] \in {"reading", "deaf"}
      /\ UNCHANGED <<asteriskVars, reader, active, session, task, flow, ready, glow, latest,
                     stopVars, recordVars>>
  BY DEF Keyed, ReadTimesOut
<1>3. task[c] = "mode" /\ io[c] \notin Waiting
  BY <1>2 DEF Inductive, ThreadInMode, Waiting
<1>4. /\ io' \in [Calls -> IOStates] /\ \A d \in Calls \ {c} : io'[d] = io[d]
  BY <1>1 DEF Inductive, TypeOK, IOStates, Replies
<1>5. TypeOK'
  BY <1>2, <1>4 DEF Inductive, TypeOK, asteriskVars, stopVars, recordVars
<1>6. ThreadOnLoop'
  <2>1. \A cb \in Range(ready) : cb.call \in Calls \ {c}
    <3>1. \A cb \in Range(ready) : cb \in Callbacks
      BY RangeOfSeq DEF Inductive, TypeOK
    <3> QED
      BY <1>3, <3>1 DEF Inductive, ThreadOnLoop, Callbacks
  <2> QED
    BY <1>2, <1>4, <2>1 DEF Inductive, ThreadOnLoop
<1>7. ThreadInMode'
  BY <1>2, <1>3, <1>4 DEF Inductive, ThreadInMode
<1>8. /\ StateFollowsTask' /\ PickedUpOnce' /\ LingersWhenDone' /\ EndingToWrite'
      /\ OneCaller' /\ HistoryAgrees'
  BY <1>2 DEF Inductive, asteriskVars, recordVars, StateFollowsTask, PickedUpOnce,
              LingersWhenDone, EndingToWrite, OneCaller, HistoryAgrees, Live, Over
<1> QED
  BY <1>5, <1>6, <1>7, <1>8 DEF Inductive

(* Shutting down keeps the invariant.                                      *)
LEMMA StopStep ==
  ASSUME Inductive, Stop \/ StopIdle \/ Drained
  PROVE  Inductive'
<1>1. /\ glow' \subseteq glow /\ phase' \in {"running", "draining", "closed"}
      /\ awaited' \in Calls \cup {NoCall}
      /\ UNCHANGED <<asteriskVars, reader, active, session, task, io, flow, ready, latest,
                     recordVars>>
  BY DEF Stop, StopIdle, Drained, Close, Inductive, TypeOK
<1>2. TypeOK'
  BY <1>1 DEF Inductive, TypeOK, asteriskVars, recordVars
<1>3. /\ StateFollowsTask' /\ PickedUpOnce' /\ ThreadOnLoop' /\ ThreadInMode'
      /\ LingersWhenDone' /\ EndingToWrite' /\ OneCaller' /\ HistoryAgrees'
  BY <1>1 DEF Inductive, asteriskVars, recordVars, StateFollowsTask, PickedUpOnce,
         ThreadOnLoop, ThreadInMode, LingersWhenDone, EndingToWrite, OneCaller, HistoryAgrees,
         Live, Over
<1> QED
  BY <1>2, <1>3 DEF Inductive

-----------------------------------------------------------------------------
(* The course of a call: what its own steps and the others' make of it.    *)

(* A step that moves neither call d's game nor its ending, and leaves its  *)
(* channel in the dialplan, or out of Stasis, if it is.                    *)
Undisturbed(d) ==
  /\ flow'[d] = flow[d] /\ jsonl'[d] = jsonl[d] /\ io'[d] = io[d] /\ task'[d] = task[d]
  /\ session'[d] \in {session[d], [session[d] EXCEPT !.gone = TRUE]}
  /\ chan'[d] = "dialplan" <=> chan[d] = "dialplan"
  /\ chan'[d] = "stasis" => chan[d] = "stasis"
  /\ \A cb \in Range(ready') : cb.call = d => cb \in Range(ready)

(* Such a step keeps the course of the call.                               *)
LEMMA UndisturbedStays ==
  ASSUME Inductive, NEW d \in Calls, Course(d), Undisturbed(d)
  PROVE  Course(d)'
<1>1. /\ session'[d].state = session[d].state /\ session'[d].mode = session[d].mode
      /\ session'[d].attempt = session[d].attempt /\ session'[d].depth = session[d].depth
      /\ session'[d].outcome = session[d].outcome
      /\ session'[d].attempts = session[d].attempts
  <2>1. session[d] \in Sessions
    BY DEF Inductive, TypeOK
  <2> QED
    BY <2>1 DEF Undisturbed, Sessions
<1>2. /\ flow'[d] = flow[d] /\ jsonl'[d] = jsonl[d] /\ io'[d] = io[d] /\ task'[d] = task[d]
      /\ chan'[d] = "dialplan" <=> chan[d] = "dialplan"
      /\ chan'[d] = "stasis" => chan[d] = "stasis"
      /\ \A cb \in Range(ready') : cb.call = d => cb \in Range(ready)
  BY DEF Undisturbed
<1>3. PlaysOn(d)'
  BY <1>1, <1>2 DEF Course, PlaysOn, Played
<1>4. StandsThere(d)' /\ ToldTruly(d)'
  BY <1>1, <1>2 DEF Course, StandsThere, ToldTruly, Told
<1>5. Counted(d)' /\ EndsAsPlayed(d)'
  BY <1>1, <1>2 DEF Course, Counted, EndsAsPlayed, Over, IsOver, LimitsAtLeast
<1>6. Bridged(d)' /\ OnlyWinners(d)' /\ LetGo(d)'
  BY <1>1, <1>2 DEF Course, Bridged, OnlyWinners, LetGo, LimitsAtLeast
<1> QED
  BY <1>3, <1>4, <1>5, <1>6 DEF Course

(* What a request does to the channel, and what its answer says of that.   *)
LEMMA RequestDoes ==
  ASSUME TypeOK, NEW c \in Calls, NEW at, Request(c, at)
  PROVE  /\ \A d \in Calls \ {c} : chan'[d] = chan[d] /\ io'[d] = io[d]
         /\ io'[c] \in {"ok", "failed"}
         /\ at \notin {"bye", "continue"} => chan' = chan
         /\ at # "continue" /\ chan'[c] = "dialplan" => chan[c] = "dialplan"
         /\ at = "continue" /\ io'[c] = "ok" => chan'[c] = "dialplan"
         /\ chan'[c] = "stasis" => chan[c] = "stasis"
         /\ "rest" \notin Perils =>
              /\ at = "bye" => chan'[c] \notin {"stasis", "dialplan"}
              /\ chan'[c] = "dialplan" => io'[c] = "ok" \/ chan[c] = "dialplan"
<1>1. chan \in [Calls -> ChannelStates] /\ io \in [Calls -> IOStates]
  BY DEF TypeOK
<1>2. \E answer \in {"ok", "failed"} : io' = [io EXCEPT ![c] = answer]
  BY DEF Request
<1>3. \A d \in Calls \ {c} : io'[d] = io[d]
  BY <1>1, <1>2
<1>4. io'[c] \in {"ok", "failed"}
  BY <1>1, <1>2
<1>5. CASE Executed(c, at)
  <2>1. chan' = ChannelAfter(c, at) /\ Accepts(c, at)
    BY <1>5 DEF Executed
  <2>2. "rest" \notin Perils => io'[c] = "ok"
    BY <1>1, <1>5 DEF Request, Executed
  <2> QED
    BY <1>1, <1>3, <1>4, <2>1, <2>2 DEF ChannelAfter, Accepts
<1>6. CASE (~Accepts(c, at) \/ "rest" \in Perils) /\ UNCHANGED chan /\ io' = [io EXCEPT ![c] = "failed"]
  <2>1. io'[c] = "failed"
    BY <1>1, <1>6
  <2> QED
    BY <1>1, <1>3, <1>4, <1>6, <2>1 DEF Accepts
<1> QED
  BY <1>5, <1>6 DEF Request

(* The steps that move no game: the line, the reader, the afterglow and    *)
(* the shutdown.                                                           *)
LEMMA QuietCourse ==
  ASSUME Inductive, OnCourse,
         \/ \E c \in Calls : HangUp(c) \/ RefuseCall(c) \/ ChannelGone(c) \/ AfterglowEnds(c)
         \/ SocketDrops \/ Reconnect \/ RefusalAnswered \/ Stop \/ StopIdle \/ Drained
  PROVE  OnCourse'
<1>1. UNCHANGED <<flow, jsonl, io, task, ready>>
  BY DEF HangUp, RefuseCall, ChannelGone, AfterglowEnds, SocketDrops, Reconnect,
         RefusalAnswered, Stop, StopIdle, Drained, Close, recordVars
<1>2. \A d \in Calls : session'[d] \in {session[d], [session[d] EXCEPT !.gone = TRUE]}
  <2>1. session \in [Calls -> Sessions]
    BY DEF Inductive, TypeOK
  <2>2. \/ UNCHANGED session
        \/ \E c \in Calls : session' = [session EXCEPT ![c].gone = TRUE]
    BY DEF HangUp, RefuseCall, ChannelGone, AfterglowEnds, SocketDrops, Reconnect,
           RefusalAnswered, Stop, StopIdle, Drained, Close
  <2> QED
    BY <2>1, <2>2
<1>3. \A d \in Calls : /\ chan'[d] = "dialplan" <=> chan[d] = "dialplan"
                       /\ chan'[d] = "stasis" => chan[d] = "stasis"
  <2>1. chan \in [Calls -> ChannelStates]
    BY DEF Inductive, TypeOK
  <2>2. \/ UNCHANGED chan
        \/ \E c \in Calls : chan[c] = "stasis" /\ chan' = [chan EXCEPT ![c] = "down"]
    BY DEF HangUp, RefuseCall, ChannelGone, AfterglowEnds, SocketDrops, Reconnect,
           RefusalAnswered, Stop, StopIdle, Drained, Close, asteriskVars
  <2> QED
    BY <2>1, <2>2
<1> QED
  BY <1>1, <1>2, <1>3, UndisturbedStays DEF OnCourse, Undisturbed

(* The others of a step of c's keep their course.                          *)
LEMMA OthersStay ==
  ASSUME Inductive, OnCourse, NEW c \in Calls,
         \A d \in Calls \ {c} : Undisturbed(d), Course(c)'
  PROVE  OnCourse'
<1>1. \A d \in Calls \ {c} : Course(d)'
  BY UndisturbedStays DEF OnCourse
<1> QED
  BY <1>1 DEF OnCourse

(* A call that has not been picked up has not been anywhere.               *)
LEMMA DialCourse ==
  ASSUME Inductive, OnCourse, NEW c \in Calls, Dial(c)
  PROVE  OnCourse'
<1>1. /\ task[c] = "none" /\ io[c] \in {"idle", "ok", "failed"} /\ session[c].state = "none"
      /\ chan' = [chan EXCEPT ![c] = "stasis"] /\ chan \in [Calls -> ChannelStates]
      /\ UNCHANGED <<flow, jsonl, io, task, session, ready>>
  BY DEF Dial, Inductive, TypeOK, PickedUpOnce, ThreadInMode, StateFollowsTask, recordVars
<1>2. Course(c)
  BY DEF OnCourse
<1>3. PlaysOn(c)' /\ StandsThere(c)' /\ ToldTruly(c)' /\ Counted(c)' /\ EndsAsPlayed(c)'
  BY <1>1, <1>2 DEF Course, PlaysOn, StandsThere, ToldTruly, Counted, EndsAsPlayed, Played,
              Told, Over, IsOver, LimitsAtLeast
<1>4. Bridged(c)' /\ OnlyWinners(c)' /\ LetGo(c)'
  BY <1>1 DEF Bridged, OnlyWinners, LetGo, LimitsAtLeast
<1>5. \A d \in Calls \ {c} : Undisturbed(d)
  BY <1>1 DEF Undisturbed
<1> QED
  BY <1>3, <1>4, <1>5, OthersStay DEF Course

(* Picked up, a call has played nothing.                                   *)
LEMMA AcceptCourse ==
  ASSUME Inductive, OnCourse, NEW c \in Calls, AcceptCall(c)
  PROVE  OnCourse'
<1>1. task[c] = "none"
  BY EventRead DEF AcceptCall
<1>2. /\ io[c] \in {"idle", "ok", "failed"} /\ session[c].state = "none"
      /\ session \in [Calls -> Sessions] /\ task \in [Calls -> TaskStates]
      /\ UNCHANGED <<chan, flow, jsonl, io, ready>>
  BY <1>1 DEF AcceptCall, Inductive, TypeOK, ThreadInMode, StateFollowsTask, recordVars
<1>3. /\ \A d \in Calls \ {c} : session'[d] = session[d] /\ task'[d] = task[d]
      /\ task'[c] = "snapshot" /\ session'[c] = [NewSession EXCEPT !.state = "answering"]
  BY <1>2 DEF AcceptCall
<1>4. /\ session'[c].state = "answering" /\ session'[c].mode = "none"
      /\ session'[c].depth = -1 /\ session'[c].attempt = 0
  BY <1>3 DEF NewSession
<1>5. Course(c) /\ \A cb \in Range(ready) : cb.call # c
  BY <1>1, NothingOnLoop DEF OnCourse
<1>6. PlaysOn(c)' /\ StandsThere(c)' /\ ToldTruly(c)'
  BY <1>1, <1>2, <1>3, <1>4, <1>5 DEF Course, PlaysOn, StandsThere, ToldTruly, Answers
<1>7. Counted(c)' /\ EndsAsPlayed(c)'
  BY <1>1, <1>2, <1>4, <1>5 DEF Course, PlaysOn, EndsAsPlayed, Counted, Over, IsOver,
                             TerminalStates
<1>8. Bridged(c)' /\ OnlyWinners(c)' /\ LetGo(c)'
  BY <1>1, <1>2, <1>3, <1>4, <1>5 DEF Course, Bridged, OnlyWinners, LetGo
<1>9. \A d \in Calls \ {c} : Undisturbed(d)
  BY <1>2, <1>3 DEF Undisturbed
<1> QED
  BY <1>6, <1>7, <1>8, <1>9, OthersStay DEF Course

(* The Config Snapshot lays out the game.                                  *)
LEMMA SnapshotCourse ==
  ASSUME Inductive, OnCourse, NEW c \in Calls, SnapshotTaken(c)
  PROVE  OnCourse'
<1>1. PICK cfg \in Configs :
        /\ session' = [session EXCEPT ![c].mode = cfg.mode]
        /\ flow' = [flow EXCEPT ![c] = NewFlow(cfg.mode, cfg.limit)]
  BY DEF SnapshotTaken
<1>2. cfg \in [mode : Modes, limit : Int]
  BY ConfigsAssumption
<1>3. /\ task[c] = "snapshot" /\ task' = [task EXCEPT ![c] = "answer"] /\ Request(c, "answer")
      /\ UNCHANGED <<jsonl, ready>>
  BY DEF SnapshotTaken, Resumes, recordVars
<1>4. TypeOK /\ session[c].state = "answering" /\ session[c] \in Sessions
  BY <1>3 DEF Inductive, StateFollowsTask, TypeOK
<1>5. /\ \A d \in Calls \ {c} : chan'[d] = chan[d] /\ io'[d] = io[d]
      /\ io'[c] \in {"ok", "failed"} /\ chan' = chan
  BY <1>3, <1>4, RequestDoes
<1>6. /\ flow'[c] = NewFlow(cfg.mode, cfg.limit) /\ task'[c] = "answer"
      /\ session'[c] = [session[c] EXCEPT !.mode = cfg.mode]
      /\ \A d \in Calls \ {c} : /\ session'[d] = session[d] /\ flow'[d] = flow[d]
                               /\ task'[d] = task[d]
  BY <1>1, <1>3, <1>4 DEF TypeOK
<1>7. /\ flow'[c].at = "start" /\ flow'[c].outcome = "none" /\ flow'[c].mode = cfg.mode
      /\ flow'[c].limit = cfg.limit /\ Played(flow'[c])
  BY <1>2, <1>6, NewFlowPlays DEF NewFlow
<1>8. /\ session'[c].mode = cfg.mode /\ session'[c].state = "answering"
      /\ session'[c].depth = session[c].depth /\ session'[c].attempt = session[c].attempt
  BY <1>4, <1>6 DEF Sessions
<1>9. Course(c) /\ \A cb \in Range(ready) : cb.call # c
  BY <1>3, NothingOnLoop DEF OnCourse
<1>10. PlaysOn(c)'
  <2>1. cfg = [mode |-> cfg.mode, limit |-> cfg.limit]
    BY <1>2
  <2> QED
    BY <1>6, <1>7, <1>8, <2>1 DEF PlaysOn
<1>11. StandsThere(c)'
  BY <1>3, <1>5, <1>6, <1>7, <1>9 DEF StandsThere, Answers
<1>12. ToldTruly(c)'
  <2>1. session[c].mode = "none"
    BY <1>3, <1>9 DEF Course, PlaysOn
  <2> QED
    BY <1>3, <1>8, <1>9, <2>1 DEF Course, ToldTruly
<1>13. Counted(c)' /\ EndsAsPlayed(c)'
  BY <1>3, <1>7, <1>8, <1>9 DEF Course, PlaysOn, EndsAsPlayed, Counted, Over, IsOver,
                             TerminalStates
<1>14. Bridged(c)' /\ OnlyWinners(c)' /\ LetGo(c)'
  BY <1>3, <1>4, <1>5, <1>6, <1>7, <1>8, <1>9 DEF Course, Bridged, OnlyWinners, LetGo
<1>15. \A d \in Calls \ {c} : Undisturbed(d)
  BY <1>3, <1>5, <1>6 DEF Undisturbed
<1> QED
  BY <1>10, <1>11, <1>12, <1>13, <1>14, <1>15, OthersStay DEF Course

(* What an abandoned call is credited with is within the rules.            *)
LEMMA AbandonCounts ==
  ASSUME Inductive, NEW c \in Calls, ToldTruly(c), PlaysOn(c), LimitsAtLeast(0),
         session[c].mode # "none"
  PROVE  Abandon(session[c]).attempts \in
           0..IF session[c].mode = "roguelike" THEN WalkBound ELSE flow[c].limit
<1>1. session[c] \in Sessions /\ flow[c] \in Flow
  BY DEF Inductive, TypeOK
<1>2. flow[c].limit \in Int /\ flow[c].limit >= 0 /\ WalkBound \in Nat
  <2>1. [mode |-> flow[c].mode, limit |-> flow[c].limit] \in Configs
    BY DEF PlaysOn
  <2> QED
    BY <1>1, <2>1, WalkBoundAssumption DEF LimitsAtLeast, Flow
<1>3. Abandon(session[c]).attempts = AttemptsFinished(session[c])
  BY <1>1 DEF Abandon, Sessions
<1>4. session[c].depth \in Int /\ session[c].attempt \in Int
  BY <1>1 DEF Sessions
<1>5. CASE session[c].depth >= 0
  BY <1>2, <1>3, <1>4, <1>5 DEF AttemptsFinished, ToldTruly
<1>6. CASE session[c].depth < 0 /\ session[c].attempt > 0
  BY <1>2, <1>3, <1>4, <1>6 DEF AttemptsFinished, ToldTruly
<1>7. CASE session[c].depth < 0 /\ ~(session[c].attempt > 0)
  <2>1. AttemptsFinished(session[c]) = 0
    BY <1>4, <1>7 DEF AttemptsFinished
  <2> QED
    BY <1>2, <1>3, <2>1
<1> QED
  BY <1>4, <1>5, <1>6, <1>7

(* The exception path: the ending that is made up is that of no winner.    *)
LEMMA FailCourse ==
  ASSUME Inductive, OnCourse, NEW c \in Calls, task[c] \in {"snapshot", "answer", "mode"},
         Fail(c), UNCHANGED <<flow, jsonl>>,
         \A cb \in Range(ready') : cb \in Range(ready) /\ cb.call # c
  PROVE  OnCourse'
<1> DEFINE s == Abandon(session[c])
<1>1. /\ TypeOK /\ session[c] \in Sessions
      /\ session' = [session EXCEPT ![c] = s] /\ task' = [task EXCEPT ![c] = "hangup"]
      /\ Request(c, "bye")
  BY DEF Fail, Inductive, TypeOK
<1>2. /\ \A d \in Calls \ {c} : chan'[d] = chan[d] /\ io'[d] = io[d]
      /\ io'[c] \in {"ok", "failed"}
      /\ "rest" \notin Perils => chan'[c] \notin {"stasis", "dialplan"}
  BY <1>1, RequestDoes
<1>3. /\ session'[c] = s /\ task'[c] = "hangup"
      /\ \A d \in Calls \ {c} : session'[d] = session[d] /\ task'[d] = task[d]
  BY <1>1 DEF TypeOK
<1>4. /\ s.state \in {"hung_up", "dropped"} /\ s.outcome \in {"hangup", "dropped"}
      /\ s.mode = session[c].mode /\ s.depth = session[c].depth
      /\ s.attempt = session[c].attempt
  BY <1>1 DEF Abandon, Sessions
<1>5. Course(c)
  BY DEF OnCourse
<1>6. LimitsAtLeast(0) /\ session[c].mode # "none" =>
        s.attempts \in 0..IF session[c].mode = "roguelike" THEN WalkBound ELSE flow[c].limit
  BY <1>5, AbandonCounts DEF Course
<1> HIDE DEF s
<1>7. PlaysOn(c)' /\ StandsThere(c)' /\ ToldTruly(c)'
  BY <1>2, <1>3, <1>4, <1>5 DEF Course, PlaysOn, StandsThere, ToldTruly, Answers
<1>8. Counted(c)' /\ EndsAsPlayed(c)'
  BY <1>3, <1>4, <1>5, <1>6 DEF Course, Counted, EndsAsPlayed, LimitsAtLeast
<1>9. Bridged(c)' /\ OnlyWinners(c)' /\ LetGo(c)'
  BY <1>2, <1>3, <1>4, <1>5 DEF Course, Bridged, OnlyWinners, LetGo
<1>10. \A d \in Calls \ {c} : Undisturbed(d)
  BY <1>2, <1>3 DEF Undisturbed
<1> QED
  BY <1>7, <1>8, <1>9, <1>10, OthersStay DEF Course

(* ... from wherever it is entered.                                        *)
LEMMA FailuresCourse ==
  ASSUME Inductive, OnCourse, NEW c \in Calls,
         SnapshotFails(c) \/ AnswerFails(c) \/ ModeRaised(c)
  PROVE  OnCourse'
<1>1. CASE SnapshotFails(c) \/ AnswerFails(c)
  <2>1. /\ task[c] \in {"snapshot", "answer"} /\ Fail(c) /\ UNCHANGED <<flow, jsonl, ready>>
    BY <1>1 DEF SnapshotFails, AnswerFails, Resumes, recordVars
  <2>2. \A cb \in Range(ready) : cb.call # c
    BY <2>1, NothingOnLoop
  <2> QED
    BY <2>1, <2>2, FailCourse
<1>2. CASE ModeRaised(c)
  <2>1. Fail(c) /\ UNCHANGED <<flow, jsonl>> /\ ready' = Tail(ready)
    BY <1>2 DEF ModeRaised, recordVars
  <2>2. /\ task[c] = "mode"
        /\ \A cb \in Range(Tail(ready)) : cb \in Range(ready) /\ cb.call # c
    BY <1>2, CallbackTaken DEF ModeRaised
  <2> QED
    BY <2>1, <2>2, FailCourse
<1> QED
  BY <1>1, <1>2

(* The game begins.                                                        *)
LEMMA AnsweredCourse ==
  ASSUME Inductive, OnCourse, NEW c \in Calls, Answered(c)
  PROVE  OnCourse'
<1>1. /\ task[c] = "answer" /\ io[c] = "ok" /\ TypeOK
      /\ session' = [session EXCEPT ![c].state = "in_mode"]
      /\ task' = [task EXCEPT ![c] = "mode"]
      /\ UNCHANGED <<chan, flow, jsonl, io, ready>>
  BY DEF Answered, Resumes, Inductive, asteriskVars, recordVars
<1>2. /\ task'[c] = "mode" /\ session'[c] = [session[c] EXCEPT !.state = "in_mode"]
      /\ session[c] \in Sessions /\ session[c].state = "answering"
      /\ \A d \in Calls \ {c} : session'[d] = session[d] /\ task'[d] = task[d]
  BY <1>1 DEF TypeOK, Inductive, StateFollowsTask
<1>3. /\ session'[c].state = "in_mode" /\ session'[c].mode = session[c].mode
      /\ session'[c].depth = session[c].depth /\ session'[c].attempt = session[c].attempt
  BY <1>2 DEF Sessions
<1>4. Course(c) /\ (\A cb \in Range(ready) : cb.call # c) /\ flow[c].at = "start"
  BY <1>1, NothingOnLoop DEF OnCourse, Course, PlaysOn
<1>5. PlaysOn(c)' /\ StandsThere(c)' /\ ToldTruly(c)'
  BY <1>1, <1>2, <1>3, <1>4 DEF Course, PlaysOn, StandsThere, ToldTruly, Answers
<1>6. Counted(c)' /\ EndsAsPlayed(c)'
  BY <1>1, <1>3, <1>4 DEF Course, Counted, EndsAsPlayed, Over, IsOver, TerminalStates
<1>7. Bridged(c)' /\ OnlyWinners(c)' /\ LetGo(c)'
  BY <1>1, <1>2, <1>3, <1>4 DEF Course, Bridged, OnlyWinners, LetGo
<1>8. \A d \in Calls \ {c} : Undisturbed(d)
  BY <1>1, <1>2 DEF Undisturbed
<1> QED
  BY <1>5, <1>6, <1>7, <1>8, OthersStay DEF Course

(* What a handler returns is within the rules.                             *)
LEMMA ReturnCounts ==
  ASSUME NEW f \in Flow, Played(f), f.at = "end", f.limit >= 0
  PROVE  LET limit == IF f.mode = "roguelike" THEN WalkBound ELSE f.limit
         IN  /\ f.tally \in 0..limit
             /\ f.outcome = "exile" => f.tally = limit
             /\ f.outcome = "succeed" /\ f.mode # "roguelike" => f.tally > 0
<1>1. f.tally \in Int /\ f.limit \in Int /\ WalkBound \in Nat
  BY WalkBoundAssumption DEF Flow
<1> QED
  BY <1>1 DEF Played

(* The handler returns: the session ends as the game did.                  *)
LEMMA ReturnedCourse ==
  ASSUME Inductive, OnCourse, NEW c \in Calls, ModeReturned(c)
  PROVE  OnCourse'
<1> DEFINE s == Complete(session[c], flow[c].outcome, flow[c].tally)
<1>1. /\ io[c] = "returned" /\ TypeOK /\ ready' = Tail(ready)
      /\ session' = [session EXCEPT ![c] = s]
      /\ task' = [task EXCEPT ![c] = "persist"] /\ io' = [io EXCEPT ![c] = "idle"]
      /\ UNCHANGED <<chan, flow, jsonl>>
  BY DEF ModeReturned, Inductive, asteriskVars, recordVars
<1>2. /\ task[c] = "mode"
      /\ \A cb \in Range(ready') : cb \in Range(ready) /\ cb.call # c
  BY <1>1, CallbackTaken DEF ModeReturned
<1>3. /\ task'[c] = "persist" /\ io'[c] = "idle" /\ session'[c] = s
      /\ session[c] \in Sessions /\ flow[c] \in Flow
      /\ \A d \in Calls \ {c} : /\ session'[d] = session[d] /\ task'[d] = task[d]
                               /\ io'[d] = io[d]
  BY <1>1 DEF TypeOK
<1>4. /\ s.state = StateByOutcome(flow[c].outcome) /\ s.outcome = flow[c].outcome
      /\ s.attempts = flow[c].tally /\ s.mode = session[c].mode
      /\ s.depth = session[c].depth /\ s.attempt = session[c].attempt
  BY <1>3 DEF Complete, Sessions
<1>5. Course(c) /\ session[c].mode # "none"
  BY <1>2 DEF OnCourse, Inductive, StateFollowsTask
<1>6. /\ Played(flow[c]) /\ flow[c].at = "end" /\ flow[c].mode = session[c].mode
      /\ [mode |-> flow[c].mode, limit |-> flow[c].limit] \in Configs
  BY <1>1, <1>2, <1>5 DEF Course, PlaysOn, StandsThere
<1> HIDE DEF s
<1>7. PlaysOn(c)' /\ StandsThere(c)' /\ ToldTruly(c)'
  BY <1>1, <1>2, <1>3, <1>4, <1>5 DEF Course, PlaysOn, StandsThere, ToldTruly, Answers
<1>8. Counted(c)'
  <2>1. LimitsAtLeast(0) => flow[c].limit >= 0
    BY <1>6 DEF LimitsAtLeast
  <2> QED
    BY <1>1, <1>3, <1>4, <1>6, <2>1, ReturnCounts DEF Counted, LimitsAtLeast
<1>9. EndsAsPlayed(c)'
  BY <1>1, <1>3, <1>4, <1>5 DEF Course, EndsAsPlayed, StateByOutcome
<1>10. Bridged(c)' /\ OnlyWinners(c)' /\ LetGo(c)'
  <2>1. s.state = "handed_off" <=> flow[c].outcome = "succeed"
    BY <1>4 DEF StateByOutcome
  <2>2. chan[c] = "dialplan" /\ "rest" \notin Perils => flow[c].outcome = "succeed"
    <3>1. session[c].state # "handed_off"
      BY <1>2 DEF Inductive, StateFollowsTask
    <3> QED
      BY <1>5, <3>1 DEF Course, OnlyWinners
  <2> QED
    BY <1>1, <1>3, <1>5, <2>1, <2>2 DEF Course, Bridged, OnlyWinners, LetGo, LimitsAtLeast
<1>11. \A d \in Calls \ {c} : Undisturbed(d)
  BY <1>1, <1>2, <1>3 DEF Undisturbed
<1> QED
  BY <1>7, <1>8, <1>9, <1>10, <1>11, OthersStay DEF Course

(* Once a call is over, only its task moves on.                            *)
LEMMA ClosingCourse ==
  ASSUME Inductive, OnCourse, NEW c \in Calls, TornDown(c) \/ Persisted(c)
  PROVE  OnCourse'
<1>1. /\ task[c] \in {"hangup", "persist"} /\ TypeOK
      /\ \/ task' = [task EXCEPT ![c] = "persist"]
         \/ task' = [task EXCEPT ![c] = "done"]
      /\ io' \in {io, [io EXCEPT ![c] = "idle"]}
      /\ UNCHANGED <<chan, session, flow, jsonl, ready>>
  BY DEF TornDown, Persisted, Resumes, AnnounceEnd, Inductive, asteriskVars, recordVars
<1>2. /\ task'[c] \in {"persist", "done"} /\ io'[c] \in {"idle", io[c]}
      /\ \A d \in Calls \ {c} : task'[d] = task[d] /\ io'[d] = io[d]
  BY <1>1 DEF TypeOK
<1>3. io[c] \in {"idle", "ok", "failed"} /\ \A cb \in Range(ready) : cb.call # c
  BY <1>1, NothingOnLoop DEF Inductive, ThreadInMode
<1>4. Course(c)
  BY DEF OnCourse
<1>5. PlaysOn(c)' /\ StandsThere(c)' /\ ToldTruly(c)'
  BY <1>1, <1>2, <1>3, <1>4 DEF Course, PlaysOn, StandsThere, ToldTruly, Answers
<1>6. Counted(c)' /\ EndsAsPlayed(c)'
  BY <1>1, <1>4 DEF Course, Counted, EndsAsPlayed, LimitsAtLeast, Over
<1>7. Bridged(c)' /\ OnlyWinners(c)' /\ LetGo(c)'
  BY <1>1, <1>2, <1>3, <1>4 DEF Course, Bridged, OnlyWinners, LetGo, LimitsAtLeast
<1>8. \A d \in Calls \ {c} : Undisturbed(d)
  BY <1>1, <1>2 DEF Undisturbed
<1> QED
  BY <1>5, <1>6, <1>7, <1>8, OthersStay DEF Course

(* One item more at the end of a queue.                                    *)
LEMMA OneMore ==
  ASSUME NEW S, NEW q \in Seq(S), NEW x \in S
  PROVE  /\ q \o <<x>> \in Seq(S) /\ Append(q, x) = q \o <<x>>
         /\ Range(q \o <<x>>) = Range(q) \cup {x}
<1>1. PICK one : one = <<x>>
  OBVIOUS
<1>2. one \in Seq(S) /\ Range(one) = {x}
  <2>1. one \in Seq(S) /\ DOMAIN one = {1} /\ one[1] = x
    BY <1>1
  <2> QED
    BY <2>1 DEF Range
<1>3. q \o one \in Seq(S) /\ Range(q \o one) = Range(q) \cup Range(one)
  BY <1>2, Joined
<1>4. Append(q, x) = q \o <<x>>
  BY AppendIsConcat
<1> QED
  BY <1>1, <1>2, <1>3, <1>4

(* The callbacks in q are those on the loop, and what c's thread says at g.*)
Says(q, c, kind, g) ==
  \A cb \in Range(q) : \/ cb \in Range(ready)
                       \/ cb = Callback(kind, c, g)
                       \/ Announces(g) /\ cb = Callback("progress", c, g)

SaysEnd(q, c, kind, g) ==
  \A cb \in Range(q) : cb \in Range(ready) \/ cb = Callback(kind, c, g)

(* What a running thread adds to the queue: where it now stands, and what  *)
(* it has to tell on the way.                                              *)
LEMMA ThreadSays ==
  ASSUME Inductive, NEW c \in Calls, io[c] \in Replies, NEW kind \in {"command", "result"},
         NEW g \in Flow
  PROVE  /\ \A cb \in Range(ready) : cb.call # c
         /\ Says(ready \o Progress(c, g) \o <<Callback(kind, c, g)>>, c, kind, g)
         /\ SaysEnd(Append(ready, Callback(kind, c, g)), c, kind, g)
<1>1. ready \in Seq(Callbacks) /\ \A cb \in Range(ready) : cb.call # c
  <2>1. io[c] \notin Waiting
    BY DEF Replies, Answers, Waiting
  <2> QED
    BY <2>1 DEF Inductive, TypeOK, ThreadOnLoop
<1>2. PICK note \in Callbacks : note = Callback("progress", c, g)
  BY DEF Callback, Callbacks, Flow
<1>3. PICK stop \in Callbacks : stop = Callback(kind, c, g)
  BY DEF Callback, Callbacks, Flow
<1>4. /\ ready \o <<stop>> = Append(ready, stop)
      /\ Range(ready \o <<stop>>) = Range(ready) \cup {stop}
  BY <1>1, OneMore
<1>5. SaysEnd(Append(ready, stop), c, kind, g)
  BY <1>3, <1>4 DEF SaysEnd
<1>6. CASE Announces(g)
  <2>1. PICK heard : heard = ready \o <<note>>
    OBVIOUS
  <2>2. heard \in Seq(Callbacks) /\ Range(heard) = Range(ready) \cup {note}
    BY <1>1, <2>1, OneMore
  <2>3. Range(heard \o <<stop>>) = Range(heard) \cup {stop}
    BY <2>2, OneMore
  <2>4. ready \o Progress(c, g) = heard
    BY <1>2, <1>6, <2>1 DEF Progress
  <2> QED
    BY <1>1, <1>2, <1>3, <1>5, <1>6, <2>2, <2>3, <2>4 DEF Says
<1>7. CASE ~Announces(g)
  <2>1. ready \o Progress(c, g) = ready
    BY <1>1, <1>7, ConcatEmptySeq DEF Progress
  <2> QED
    BY <1>1, <1>3, <1>4, <1>5, <2>1 DEF Says
<1> QED
  BY <1>6, <1>7

(* A thread that plays by the rules tells nothing else.                    *)
LEMMA PlayedIsTold ==
  ASSUME NEW g \in Flow, Played(g), Announces(g)
  PROVE  Told(g, g.at, g.tally)
<1>1. g.tally \in Int /\ g.mode \in Modes /\ WalkBound \in Nat
  BY WalkBoundAssumption DEF Flow
<1>2. CASE g.at = "read"
  BY <1>1, <1>2 DEF Played, Told, CodeEntry
<1>3. CASE g.at \in {"room", "leaf"}
  BY <1>1, <1>3 DEF Played, Told, InMaze
<1>4. CASE g.at = "prompt"
  BY <1>4 DEF Told
<1> QED
  BY <1>2, <1>3, <1>4 DEF Announces

(* The thread of c has run on, to r: the rest of the call is as it was.    *)
ThreadOnly(c, r) ==
  /\ task[c] = "mode" /\ io[c] \in Replies
  /\ io' = [io EXCEPT ![c] = r]
  /\ UNCHANGED <<chan, session, task>>

(* What every run of a thread leaves alone, of its own call and the others.*)
LEMMA ThreadApart ==
  ASSUME Inductive, OnCourse, NEW c \in Calls, NEW r \in Waiting, ThreadOnly(c, r),
         NEW kind \in {"command", "result"}, NEW g \in Flow,
         NEW f, flow' = [flow EXCEPT ![c] = f],
         jsonl' = jsonl \/ \E l : jsonl' = [jsonl EXCEPT ![c] = l],
         \/ ready' = ready \o Progress(c, g) \o <<Callback(kind, c, g)>>
         \/ ready' = Append(ready, Callback(kind, c, g))
  PROVE  /\ flow'[c] = f /\ io'[c] = r /\ ~Over(c)
         /\ \A d \in Calls \ {c} : Undisturbed(d)
<1>1. /\ flow'[c] = f /\ io'[c] = r
      /\ \A d \in Calls \ {c} : /\ flow'[d] = flow[d] /\ jsonl'[d] = jsonl[d]
                               /\ io'[d] = io[d]
  BY DEF Inductive, TypeOK, ThreadOnly
<1>2. ~Over(c)
  BY DEF Inductive, StateFollowsTask, ThreadOnly, Over, IsOver, TerminalStates
<1>3. \A cb \in Range(ready') : cb.call # c => cb \in Range(ready)
  <2>1. Says(ready', c, kind, g) \/ SaysEnd(ready', c, kind, g)
    BY ThreadSays DEF ThreadOnly
  <2> QED
    BY <2>1 DEF Says, SaysEnd, Callback
<1> QED
  BY <1>1, <1>2, <1>3 DEF Undisturbed, ThreadOnly

(* The thread raises: its game is as good as over, but not decided.        *)
LEMMA RaisedCourse ==
  ASSUME Inductive, OnCourse, NEW c \in Calls, ThreadOnly(c, "raised"),
         NEW g \in Flow, g.mode = flow[c].mode, g.limit = flow[c].limit,
         g = flow[c] \/ Played(g),
         NEW f \in Flow, f.mode = flow[c].mode, f.limit = flow[c].limit,
         f.outcome = flow[c].outcome, flow' = [flow EXCEPT ![c] = f], UNCHANGED jsonl,
         \/ ready' = ready \o Progress(c, g) \o <<Callback("result", c, g)>> /\ Played(g)
         \/ ready' = Append(ready, Callback("result", c, g)),
         flow[c].at = "continue" => io[c] = "failed"
  PROVE  OnCourse'
<1>1. /\ flow'[c] = f /\ io'[c] = "raised" /\ ~Over(c)
      /\ \A d \in Calls \ {c} : Undisturbed(d)
  BY ThreadApart DEF Waiting
<1>2. Course(c) /\ task[c] = "mode" /\ UNCHANGED <<chan, session, task>>
  BY DEF OnCourse, ThreadOnly
<1>3. PlaysOn(c)'
  BY <1>1, <1>2 DEF Course, PlaysOn
<1>4. \A cb \in Range(ready') : cb.call = c =>
        \/ cb.kind = "result"
        \/ cb.kind = "progress" /\ Told(g, cb.at, cb.tally)
  <2>1. /\ \A cb \in Range(ready) : cb.call # c
        /\ \A cb \in Range(ready') :
             \/ cb \in Range(ready)
             \/ cb = Callback("result", c, g)
             \/ Announces(g) /\ Played(g) /\ cb = Callback("progress", c, g)
    <3>1. /\ \A cb \in Range(ready) : cb.call # c
          /\ \/ Says(ready', c, "result", g) /\ Played(g)
             \/ SaysEnd(ready', c, "result", g)
      BY ThreadSays DEF ThreadOnly
    <3> QED
      BY <3>1 DEF Says, SaysEnd
  <2> QED
    BY <2>1, PlayedIsTold DEF Callback
<1>5. StandsThere(c)' /\ ToldTruly(c)'
  <2>1. \A at, tally : Told(g, at, tally) => Told(f, at, tally)
    BY DEF Told
  <2> QED
    BY <1>1, <1>2, <1>4, <2>1 DEF Course, StandsThere, ToldTruly, Answers
<1>6. Counted(c)' /\ EndsAsPlayed(c)'
  BY <1>1, <1>2 DEF Course, Counted, EndsAsPlayed, Over
<1>7. Bridged(c)' /\ OnlyWinners(c)' /\ LetGo(c)'
  <2>1. session[c].state # "handed_off" /\ io[c] \in Replies
    BY <1>2 DEF Inductive, StateFollowsTask, ThreadOnly
  <2>2. chan[c] = "dialplan" => "rest" \in Perils
    BY <1>2, <2>1 DEF Course, OnlyWinners, Replies, Answers
  <2> QED
    BY <1>1, <1>2, <2>1, <2>2 DEF Bridged, OnlyWinners, LetGo
<1> QED
  BY <1>1, <1>3, <1>5, <1>6, <1>7, OthersStay DEF Course

(* A thread that runs on, to its next command or to its end, keeps to the  *)
(* course: it logs its ending once, and ends bridged, hung up on or gone.  *)
LEMMA ThreadAdvancesCourse ==
  ASSUME Inductive, OnCourse, NEW c \in Calls, ThreadAdvances(c)
  PROVE  OnCourse'
<1>1. PICK g \in After(flow[c], io[c]) :
        /\ flow' = [flow EXCEPT ![c] = g]
        /\ jsonl' = IF Logs(flow[c], g) THEN [jsonl EXCEPT ![c] = Append(@, g.outcome)]
                                        ELSE jsonl
        /\ IF g.at = "end"
             THEN /\ ready' = Append(ready, Callback("result", c, g))
                  /\ io' = [io EXCEPT ![c] = "returned"]
             ELSE /\ ready' = ready \o Progress(c, g) \o <<Callback("command", c, g)>>
                  /\ io' = [io EXCEPT ![c] = "queued"]
  BY DEF ThreadAdvances
<1>2. /\ task[c] = "mode" /\ io[c] \in Replies \ {"failed"}
      /\ UNCHANGED <<chan, session, task>>
  BY DEF ThreadAdvances, Runnable, asteriskVars
<1>3. Course(c) /\ flow[c] \in Flow /\ Played(flow[c])
  BY <1>2 DEF OnCourse, Course, PlaysOn, Inductive, TypeOK, Replies, Answers
<1>4. /\ g \in Flow /\ Played(g)
      /\ g.mode = flow[c].mode /\ g.limit = flow[c].limit
  BY <1>3, AfterType, AfterPlays, AfterKeeps
<1>5. flow[c].at # "end" /\ (io[c] = "ok" \/ flow[c].at \in Reads)
  BY <1>2, <1>3 DEF Course, StandsThere, Replies, Answers
<1>6. /\ flow'[c] = g /\ io'[c] = (IF g.at = "end" THEN "returned" ELSE "queued") /\ ~Over(c)
      /\ \A d \in Calls \ {c} : Undisturbed(d)
  <2>1. jsonl' = jsonl \/ \E l : jsonl' = [jsonl EXCEPT ![c] = l]
    BY <1>1
  <2>2. CASE g.at = "end"
    BY <1>1, <1>2, <1>4, <2>1, <2>2, ThreadApart DEF ThreadOnly, Waiting
  <2>3. CASE g.at # "end"
    BY <1>1, <1>2, <1>4, <2>1, <2>3, ThreadApart DEF ThreadOnly, Waiting
  <2> QED
    BY <2>2, <2>3
<1>7. session[c].state = "in_mode" /\ session[c].mode # "none"
  BY <1>2 DEF Inductive, StateFollowsTask
<1>8. \A cb \in Range(ready') : cb.call = c =>
        \/ cb.kind = "result"
        \/ cb.kind = "command" /\ cb.at = g.at
        \/ cb.kind = "progress" /\ Told(g, cb.at, cb.tally)
  <2>1. /\ \A cb \in Range(ready) : cb.call # c
        /\ \/ Says(ready', c, "command", g)
           \/ SaysEnd(ready', c, "result", g)
    BY <1>1, <1>2, <1>4, ThreadSays
  <2> QED
    BY <1>4, <2>1, PlayedIsTold DEF Says, SaysEnd, Callback
<1>9. PlaysOn(c)'
  BY <1>2, <1>3, <1>4, <1>6, <1>7 DEF Course, PlaysOn
<1>10. StandsThere(c)' /\ ToldTruly(c)' /\ Counted(c)'
  BY <1>2, <1>3, <1>4, <1>6, <1>7, <1>8 DEF Course, StandsThere, ToldTruly, Counted, Answers, Over
<1>11. EndsAsPlayed(c)'
  <2>1. jsonl'[c] = IF g.outcome \in {"succeed", "exile"} THEN <<g.outcome>> ELSE <<>>
    <3>1. jsonl[c] = IF flow[c].outcome \in {"succeed", "exile"} THEN <<flow[c].outcome>> ELSE <<>>
      BY <1>3 DEF Course, EndsAsPlayed
    <3>2. CASE Logs(flow[c], g)
      <4>1. jsonl'[c] = Append(jsonl[c], g.outcome) /\ jsonl[c] = <<>>
        BY <1>1, <3>1, <3>2 DEF Logs, Inductive, TypeOK
      <4> QED
        BY <3>2, <4>1 DEF Logs
    <3>3. CASE ~Logs(flow[c], g)
      <4>1. jsonl' = jsonl
        BY <1>1, <3>3
      <4>2. CASE flow[c].outcome = "none"
        BY <3>1, <3>3, <4>1, <4>2 DEF Logs
      <4>3. CASE flow[c].outcome # "none"
        BY <1>3, <3>1, <4>1, <4>3, AfterSettles
      <4> QED
        BY <4>2, <4>3
    <3> QED
      BY <3>2, <3>3
  <2> QED
    BY <1>2, <1>6, <1>7, <2>1 DEF EndsAsPlayed
<1>12. Bridged(c)'
  <2>1. g.at = "end" /\ g.outcome = "succeed" => chan[c] = "dialplan"
    BY <1>2, <1>3, <1>5, AfterEnds DEF Course, Bridged, Reads
  <2> QED
    BY <1>2, <1>6, <1>7, <2>1 DEF Bridged
<1>13. OnlyWinners(c)'
  <2>1. "rest" \notin Perils /\ chan[c] = "dialplan" =>
          flow[c].outcome = "succeed" /\ flow[c].at = "continue"
    BY <1>2, <1>3, <1>7 DEF Course, OnlyWinners, Replies, Answers
  <2>2. flow[c].at = "continue" => g.at = "end" /\ g.outcome = flow[c].outcome
    BY <1>3 DEF After, Flow
  <2> QED
    BY <1>2, <1>6, <2>1, <2>2 DEF OnlyWinners
<1>14. LetGo(c)'
  <2>1. "rest" \notin Perils /\ LimitsAtLeast(1) /\ g.at = "end" => chan[c] # "stasis"
    <3>1. LimitsAtLeast(1) => flow[c].limit >= 1
      BY <1>3, <1>7 DEF Course, PlaysOn, LimitsAtLeast
    <3>2. LimitsAtLeast(1) /\ g.at = "end" => flow[c].at \in {"continue", "bye"}
      BY <1>3, <1>5, <3>1, AfterEnds DEF Flow
    <3> QED
      BY <1>2, <1>3, <1>5, <3>2 DEF Course, LetGo, Bridged, Reads
  <2> QED
    BY <1>2, <1>6, <2>1 DEF LetGo, LimitsAtLeast
<1> QED
  BY <1>6, <1>9, <1>10, <1>11, <1>12, <1>13, <1>14, OthersStay DEF Course

(* A thread ended by an exception, a command's or its own, keeps to it.    *)
LEMMA ThreadRaisesCourse ==
  ASSUME Inductive, OnCourse, NEW c \in Calls, ThreadRaises(c) \/ ThreadBreaks(c)
  PROVE  OnCourse'
<1>1. ThreadOnly(c, "raised") /\ UNCHANGED jsonl /\ flow[c] \in Flow
  BY DEF ThreadRaises, ThreadBreaks, Runnable, ThreadOnly, Inductive, TypeOK, asteriskVars,
         recordVars
<1>2. CASE ThreadRaises(c)
  <2>1. /\ io[c] = "failed" /\ ready' = Append(ready, Callback("result", c, flow[c]))
        /\ flow' = [flow EXCEPT ![c] = flow[c]]
    BY <1>2 DEF ThreadRaises, Inductive, TypeOK
  <2> QED
    BY <1>1, <2>1, RaisedCourse
<1>3. CASE ThreadBreaks(c)
  <2>1. io[c] \in Replies \ {"failed"} /\ task[c] = "mode"
    BY <1>3 DEF ThreadBreaks, Runnable
  <2>2. Played(flow[c])
    BY <2>1 DEF OnCourse, Course, PlaysOn, Replies, Answers
  <2>3. CASE /\ NoRiddle(flow[c]) /\ ready' = Append(ready, Callback("result", c, flow[c]))
             /\ UNCHANGED flow
    <3>1. flow' = [flow EXCEPT ![c] = flow[c]] /\ flow[c].at # "continue"
      BY <2>3 DEF NoRiddle, Inductive, TypeOK
    <3> QED
      BY <1>1, <2>3, <3>1, RaisedCourse
  <2>4. ASSUME NEW g \in After(flow[c], io[c]), Brittle(flow[c], g),
               flow' = [flow EXCEPT ![c] = [g EXCEPT !.outcome = flow[c].outcome]],
               ready' = ready \o Progress(c, g) \o <<Callback("result", c, g)>>
        PROVE  OnCourse'
    <3>1. /\ g \in Flow /\ Played(g)
          /\ g.mode = flow[c].mode /\ g.limit = flow[c].limit
      BY <1>1, <2>2, AfterType, AfterPlays, AfterKeeps
    <3>2. PICK f \in Flow : f = [g EXCEPT !.outcome = flow[c].outcome]
      BY <1>1, <3>1 DEF Flow
    <3>3. f.mode = flow[c].mode /\ f.limit = flow[c].limit /\ f.outcome = flow[c].outcome
      BY <3>1, <3>2 DEF Flow
    <3>4. flow[c].at # "continue"
      <4>1. flow[c].at = "continue" => g.at = "end" /\ flow[c].outcome # "none"
        BY <1>1, <2>2 DEF After, Flow, Played, Decided
      <4> QED
        BY <2>4, <4>1 DEF Brittle, Logs
    <3> QED
      BY <1>1, <2>4, <3>1, <3>2, <3>3, <3>4, RaisedCourse
  <2> QED
    BY <1>3, <2>3, <2>4 DEF ThreadBreaks
<1> QED
  BY <1>2, <1>3

(* What the Console is told of a call is what was played of it.            *)
LEMMA RunProgressCourse ==
  ASSUME Inductive, OnCourse, NEW c \in Calls, RunProgress(c)
  PROVE  OnCourse'
<1>1. /\ Range(ready') \subseteq Range(ready) /\ task[c] = "mode"
      /\ Head(ready) \in Range(ready)
      /\ Head(ready).kind = "progress" /\ Head(ready).call = c
      /\ UNCHANGED <<chan, task, io, flow, jsonl>>
  BY CallbackTaken, HeadAndTail
     DEF RunProgress, NextCallback, asteriskVars, recordVars, Inductive, TypeOK
<1>2. /\ session[c] \in Sessions /\ session[c].state = "in_mode" /\ session[c].mode # "none"
      /\ session'[c] \in {session[c], Observed(session[c], Head(ready))}
      /\ \A d \in Calls \ {c} : session'[d] = session[d]
  BY <1>1 DEF RunProgress, Inductive, TypeOK, StateFollowsTask
<1>3. Course(c) /\ Told(flow[c], Head(ready).at, Head(ready).tally)
  BY <1>1 DEF OnCourse, Course, ToldTruly
<1>4. /\ session'[c].state = "in_mode" /\ session'[c].mode = session[c].mode
      /\ session'[c].outcome = session[c].outcome
      /\ \/ session'[c].attempt = session[c].attempt
         \/ Head(ready).at = "read" /\ session'[c].attempt = Head(ready).tally
      /\ \/ session'[c].depth = session[c].depth
         \/ /\ Head(ready).at \notin {"prompt", "read"}
            /\ session'[c].depth = Head(ready).tally
  BY <1>2 DEF Observed, Sessions
<1>5. flow[c].mode = session[c].mode
  BY <1>2, <1>3 DEF Course, PlaysOn
<1>6. ToldTruly(c)'
  BY <1>1, <1>2, <1>3, <1>4, <1>5 DEF Course, ToldTruly, Told
<1>7. PlaysOn(c)' /\ StandsThere(c)'
  BY <1>1, <1>3, <1>4 DEF Course, PlaysOn, StandsThere
<1>8. Counted(c)' /\ EndsAsPlayed(c)' /\ Bridged(c)' /\ OnlyWinners(c)' /\ LetGo(c)'
  BY <1>1, <1>2, <1>3, <1>4 DEF Course, Counted, EndsAsPlayed, Bridged, OnlyWinners, LetGo,
                               Over, IsOver, TerminalStates, LimitsAtLeast
<1>9. \A d \in Calls \ {c} : Undisturbed(d)
  BY <1>1, <1>2 DEF Undisturbed
<1> QED
  BY <1>6, <1>7, <1>8, <1>9, OthersStay DEF Course

(* A command the loop carries out is the one the thread stands at: only a  *)
(* continue leads to the dialplan, and whoever is hung up on is gone.      *)
LEMMA RunCommandCourse ==
  ASSUME Inductive, OnCourse, NEW c \in Calls, RunCommand(c)
  PROVE  OnCourse'
<1>1. /\ Range(ready') \subseteq Range(ready) /\ task[c] = "mode" /\ io[c] = "queued"
      /\ Head(ready) \in Range(ready)
      /\ Head(ready).kind = "command" /\ Head(ready).call = c
      /\ \A cb \in Range(ready') : cb.call # c
      /\ UNCHANGED <<task, session, flow, jsonl>>
  BY CallbackTaken, HeadAndTail
     DEF RunCommand, NextCallback, recordVars, Inductive, TypeOK, ThreadOnLoop
<1>2. Course(c) /\ Head(ready).at = flow[c].at /\ Played(flow[c])
  BY <1>1 DEF OnCourse, Course, StandsThere, PlaysOn
<1>3. /\ flow[c].at # "end" /\ session[c].state = "in_mode" /\ flow[c] \in Flow
      /\ chan[c] = "dialplan" => "rest" \in Perils
  BY <1>1, <1>2 DEF Inductive, TypeOK, StateFollowsTask, Course, StandsThere, OnlyWinners
<1>4. /\ \A d \in Calls \ {c} : chan'[d] = chan[d] /\ io'[d] = io[d]
      /\ \/ flow[c].at \in Reads /\ io'[c] \in {"reading", "deaf"} /\ chan' = chan
         \/ flow[c].at \notin Reads /\ Request(c, flow[c].at)
  <2>1. io \in [Calls -> IOStates]
    BY DEF Inductive, TypeOK
  <2>2. CASE flow[c].at \in Reads
    BY <1>2, <2>1, <2>2 DEF RunCommand
  <2>3. CASE flow[c].at \notin Reads
    <3>1. Request(c, flow[c].at)
      BY <1>2, <2>3 DEF RunCommand
    <3> QED
      BY <2>3, <3>1, RequestDoes DEF Inductive
  <2> QED
    BY <2>2, <2>3
<1>5. /\ io'[c] \in {"reading", "deaf", "ok", "failed"}
      /\ io'[c] \in {"reading", "deaf"} => flow[c].at \in Reads
      /\ io'[c] = "ok" /\ flow[c].at = "continue" => chan'[c] = "dialplan"
      /\ "rest" \notin Perils =>
           /\ flow[c].at = "bye" => chan'[c] # "stasis"
           /\ chan'[c] = "dialplan" => io'[c] = "ok" /\ flow[c].at = "continue"
  BY <1>3, <1>4, RequestDoes DEF Inductive, Reads
<1>6. PlaysOn(c)' /\ StandsThere(c)' /\ ToldTruly(c)'
  BY <1>1, <1>2, <1>3, <1>5 DEF Course, PlaysOn, StandsThere, ToldTruly, Answers
<1>7. Counted(c)' /\ EndsAsPlayed(c)'
  BY <1>1, <1>2, <1>3 DEF Course, Counted, EndsAsPlayed, Over, IsOver, TerminalStates
<1>8. Bridged(c)' /\ OnlyWinners(c)' /\ LetGo(c)'
  <2>1. flow[c].at = "continue" => flow[c].outcome = "succeed"
    BY <1>2, <1>3 DEF Played, Decided, Flow
  <2> QED
    BY <1>1, <1>3, <1>5, <2>1 DEF Bridged, OnlyWinners, LetGo
<1>9. \A d \in Calls \ {c} : Undisturbed(d)
  BY <1>1, <1>4 DEF Undisturbed
<1> QED
  BY <1>6, <1>7, <1>8, <1>9, OthersStay DEF Course

(* An answer, or none, is heard where the thread reads.                    *)
LEMMA ReadEndsCourse ==
  ASSUME Inductive, OnCourse, NEW c \in Calls, Keyed(c) \/ ReadTimesOut(c)
  PROVE  OnCourse'
<1>1. PICK heard \in Answers : io' = [io EXCEPT ![c] = heard]
  BY DEF Keyed, ReadTimesOut, Answers
<1>2. /\ io[c] \in {"reading", "deaf"} /\ task[c] = "mode" /\ session[c].state = "in_mode"
      /\ io'[c] = heard /\ \A d \in Calls \ {c} : io'[d] = io[d]
      /\ UNCHANGED <<chan, session, task, flow, ready, jsonl>>
  BY <1>1 DEF Keyed, ReadTimesOut, Inductive, TypeOK, ThreadInMode, StateFollowsTask,
              asteriskVars, recordVars
<1>3. Course(c) /\ flow[c].at \in Reads /\ heard \in {"silence", "right", "wrong"}
  BY <1>2 DEF OnCourse, Course, StandsThere, Answers
<1>4. PlaysOn(c)' /\ StandsThere(c)' /\ ToldTruly(c)'
  BY <1>2, <1>3 DEF Course, PlaysOn, StandsThere, ToldTruly, Reads
<1>5. Counted(c)' /\ EndsAsPlayed(c)' /\ Bridged(c)' /\ OnlyWinners(c)' /\ LetGo(c)'
  BY <1>2, <1>3 DEF Course, Counted, EndsAsPlayed, Bridged, OnlyWinners, LetGo, Over,
                   IsOver, TerminalStates, LimitsAtLeast
<1>6. \A d \in Calls \ {c} : Undisturbed(d)
  BY <1>2 DEF Undisturbed
<1> QED
  BY <1>4, <1>5, <1>6, OthersStay DEF Course

(* Before anybody has called, nothing has been played.                     *)
LEMMA InitialCourse == Init => OnCourse
<1> SUFFICES ASSUME Init, NEW c \in Calls PROVE Course(c)
  BY DEF OnCourse
<1>1. /\ chan[c] = "unborn" /\ task[c] = "none" /\ io[c] = "idle" /\ jsonl[c] = <<>>
      /\ session[c] = NewSession /\ flow[c] = NewFlow("tweeted", 0)
      /\ Range(ready) = {}
  BY DEF Init, Range
<1>2. /\ session[c].state = "none" /\ session[c].mode = "none" /\ session[c].depth = -1
      /\ session[c].attempt = 0 /\ flow[c].outcome = "none"
  BY <1>1 DEF NewSession, NewFlow
<1>3. PlaysOn(c) /\ StandsThere(c) /\ ToldTruly(c)
  BY <1>1, <1>2 DEF PlaysOn, StandsThere, ToldTruly, Answers
<1>4. Counted(c) /\ EndsAsPlayed(c) /\ Bridged(c) /\ OnlyWinners(c) /\ LetGo(c)
  BY <1>1, <1>2 DEF Counted, EndsAsPlayed, Bridged, OnlyWinners, LetGo, Over, IsOver,
                   TerminalStates
<1> QED
  BY <1>3, <1>4 DEF Course

-----------------------------------------------------------------------------
(* The theorems.                                                           *)

(* The engine starts in the invariant.                                     *)
LEMMA Initially == Init => Inductive
<1> SUFFICES ASSUME Init PROVE Inductive
  OBVIOUS
<1>1. Range(<<>>) = {} /\ DOMAIN <<>> = {}
  BY DEF Range
<1>2. TypeOK
  <2>1. NewSession \in Sessions
    BY DEF NewSession, Sessions, Outcomes
  <2>2. NewFlow("tweeted", 0) \in Flow
    BY DEF NewFlow, Flow, Locations
  <2> QED
    BY <2>1, <2>2 DEF Init, TypeOK, ChannelStates, TaskStates, IOStates
<1>3. StateFollowsTask /\ PickedUpOnce /\ ThreadOnLoop /\ ThreadInMode
  BY <1>1 DEF Init, StateFollowsTask, PickedUpOnce, StartsOnce, ThreadOnLoop, ProgressFirst,
              ThreadInMode, NewSession
<1>4. LingersWhenDone /\ EndingToWrite /\ OneCaller /\ HistoryAgrees
  BY DEF Init, LingersWhenDone, EndingToWrite, OneCaller, HistoryAgrees, Live, LiveStates,
         NewSession
<1> QED
  BY <1>2, <1>3, <1>4 DEF Inductive

(* Every step of the engine and of its environment keeps the invariant.    *)
LEMMA StepsKeepIt == Inductive /\ [Next]_vars => Inductive'
<1> SUFFICES ASSUME Inductive, [Next]_vars PROVE Inductive'
  OBVIOUS
<1>1. CASE UNCHANGED vars
  BY <1>1 DEF vars, Inductive, TypeOK, StateFollowsTask, PickedUpOnce, ThreadOnLoop,
              ThreadInMode, LingersWhenDone, EndingToWrite, OneCaller, HistoryAgrees, Live, Over
<1>2. CASE Environment
  BY <1>2, DialStep, HangUpStep, ReadEndsStep, SocketStep, StopStep DEF Environment
<1>3. CASE Reader \/ Reconnect \/ Drained
  BY <1>3, AcceptStep, RefuseStep, ChannelGoneStep, RefusalAnsweredStep, SocketStep, StopStep
     DEF Reader
<1>4. ASSUME NEW c \in Calls, CallTask(c) PROVE Inductive'
  BY <1>4, SnapshotTakenStep, EarlyFailureStep, AnsweredStep, ModeReturnedStep,
     ModeRaisedStep, TornDownStep, PersistedStep DEF CallTask
<1>5. ASSUME NEW c \in Calls, Worker(c) PROVE Inductive'
  BY <1>5, ThreadAdvancesStep, ThreadRaisesStep, ThreadBreaksStep DEF Worker
<1>6. ASSUME NEW c \in Calls, Loop(c) \/ AfterglowEnds(c) PROVE Inductive'
  BY <1>6, RunProgressStep, RunCommandStep, ReadEndsStep, AfterglowStep DEF Loop
<1> QED
  BY <1>1, <1>2, <1>3, <1>4, <1>5, <1>6 DEF Next, Engine

(* CallEngineInvariant: so the invariant always holds.                     *)
THEOREM Invariance == Spec => []Inductive
<1> QED
  BY Initially, StepsKeepIt, PTL DEF Spec

(* Every variable keeps to its type: in particular the sessions, the game  *)
(* and the rows of the history only ever hold values the code has for them.*)
THEOREM TypeCorrect == Spec => []TypeOK
<1> QED
  BY Invariance, PTL DEF Inductive

(* _on_stasis_start, _clear: at most one call is live, and it is the one   *)
(* the engine holds.                                                       *)
THEOREM OneBooth == Spec => []OneCaller
<1> QED
  BY Invariance, PTL DEF Inductive

(* _handle_call, EngineCallObserver: while anything of a worker thread is  *)
(* left, its call is live and is the one on the Console.                   *)
THEOREM NoStrayThread == Spec => []ThreadJoined
<1>1. Inductive => ThreadJoined
  <2> SUFFICES ASSUME Inductive PROVE ThreadJoined
    OBVIOUS
  <2>1. \A c \in Calls : task[c] = "mode" => Live(c)
    BY DEF Inductive, StateFollowsTask, Live, LiveStates
  <2>2. ASSUME NEW c \in Calls, NEW i \in DOMAIN ready, ready[i].call = c
        PROVE  Live(c) /\ active = c
    <3>1. ready[i] \in Range(ready)
      BY DEF Range
    <3> QED
      BY <2>1, <2>2, <3>1 DEF Inductive, ThreadOnLoop, OneCaller
  <2> QED
    BY <2>1, <2>2 DEF Inductive, ThreadInMode, ThreadJoined
<1> QED
  BY <1>1, Invariance, PTL

(* _persist, is_persistable: the history holds the finished calls, each as *)
(* it was seen to end, and nothing else.                                   *)
THEOREM HistoryIsTrue == Spec => []HistoryAgrees
<1> QED
  BY Invariance, PTL DEF Inductive

(* complete, abandon: nothing that runs after a call's ending touches it.  *)
LEMMA EndingStays ==
  ASSUME Inductive, Next, NEW c \in Calls, Over(c)
  PROVE  session'[c] = session[c]
<1>1. session \in [Calls -> Sessions] /\ task[c] \in {"hangup", "persist", "done"}
  BY DEF Inductive, TypeOK, StateFollowsTask, Over, IsOver, TaskStates, TerminalStates
<1>2. CASE UNCHANGED session
  BY <1>2
<1>3. ASSUME NEW d \in Calls, task[d] \in {"none", "snapshot", "answer", "mode"},
             NEW s, session' = [session EXCEPT ![d] = s]
      PROVE  session'[c] = session[c]
  BY <1>1, <1>3
<1>4. ASSUME NEW d \in Calls, task[d] \in {"snapshot", "answer", "mode"}, Fail(d)
      PROVE  session'[c] = session[c]
  BY <1>3, <1>4 DEF Fail
<1>5. ASSUME NEW d \in Calls, CallTask(d) PROVE session'[c] = session[c]
  <2>1. CASE SnapshotTaken(d)
    BY <1>1, <2>1 DEF SnapshotTaken, Resumes
  <2>2. CASE SnapshotFails(d) \/ AnswerFails(d)
    BY <1>4, <2>2 DEF SnapshotFails, AnswerFails, Resumes
  <2>3. CASE Answered(d)
    BY <1>1, <2>3 DEF Answered, Resumes
  <2>4. CASE ModeReturned(d)
    BY <1>1, <2>4, CallbackTaken DEF ModeReturned
  <2>5. CASE ModeRaised(d)
    BY <1>4, <2>5, CallbackTaken DEF ModeRaised
  <2>6. CASE TornDown(d) \/ Persisted(d)
    BY <2>6 DEF TornDown, Persisted
  <2> QED
    BY <1>5, <2>1, <2>2, <2>3, <2>4, <2>5, <2>6 DEF CallTask
<1>6. ASSUME NEW d \in Calls, AcceptCall(d) PROVE session'[c] = session[c]
  BY <1>1, <1>6, EventRead DEF AcceptCall
<1>7. ASSUME NEW d \in Calls, ChannelGone(d) \/ RunProgress(d) PROVE session'[c] = session[c]
  BY <1>1, <1>7 DEF ChannelGone, RunProgress
<1>8. CASE Environment
  BY <1>8 DEF Environment, Dial, HangUp, Keyed, SocketDrops, Stop, StopIdle, Close
<1>9. CASE Reader \/ Reconnect \/ Drained
  BY <1>6, <1>7, <1>9 DEF Reader, RefuseCall, RefusalAnswered, Reconnect, Drained, Close
<1>10. ASSUME NEW d \in Calls, Worker(d) \/ Loop(d) \/ AfterglowEnds(d)
       PROVE  session'[c] = session[c]
  BY <1>7, <1>10 DEF Worker, ThreadAdvances, ThreadRaises, ThreadBreaks, Loop, RunCommand,
     ReadTimesOut, AfterglowEnds
<1> QED
  BY <1>5, <1>8, <1>9, <1>10 DEF Next, Engine

(* _on_loop, _on_channel_gone: a session once over is never written.       *)
THEOREM EndingsAreFinal == Spec => Settled
<1>1. Inductive /\ [Next]_vars => [\A c \in Calls : Over(c) => session'[c] = session[c]]_session
  BY EndingStays DEF vars
<1> QED
  BY <1>1, Invariance, PTL DEF Spec, Settled

(* Every step keeps every call on its course.                              *)
LEMMA StepsKeepCourse == Inductive /\ OnCourse /\ [Next]_vars => OnCourse'
<1> SUFFICES ASSUME Inductive, OnCourse, [Next]_vars PROVE OnCourse'
  OBVIOUS
<1>1. CASE UNCHANGED vars
  BY <1>1, UndisturbedStays DEF vars, OnCourse, Undisturbed
<1>2. CASE Environment
  BY <1>2, DialCourse, QuietCourse, ReadEndsCourse DEF Environment
<1>3. CASE Reader \/ Reconnect \/ Drained
  BY <1>3, AcceptCourse, QuietCourse DEF Reader
<1>4. ASSUME NEW c \in Calls, CallTask(c) PROVE OnCourse'
  BY <1>4, SnapshotCourse, FailuresCourse, AnsweredCourse, ReturnedCourse, ClosingCourse
     DEF CallTask
<1>5. ASSUME NEW c \in Calls, Worker(c) PROVE OnCourse'
  BY <1>5, ThreadAdvancesCourse, ThreadRaisesCourse DEF Worker
<1>6. ASSUME NEW c \in Calls, Loop(c) \/ AfterglowEnds(c) PROVE OnCourse'
  BY <1>6, RunProgressCourse, RunCommandCourse, ReadEndsCourse, QuietCourse DEF Loop
<1> QED
  BY <1>1, <1>2, <1>3, <1>4, <1>5, <1>6 DEF Next, Engine

(* CallEngineInvariant: what a call has come to - on the line, in the log, *)
(* on the Console - is always what its thread has played of it.            *)
THEOREM CallsKeepCourse == Spec => []OnCourse
<1> QED
  BY Initially, StepsKeepIt, InitialCourse, StepsKeepCourse, PTL DEF Spec

(* flow.run's to_success, complete: a call shown Handed Off has been sent  *)
(* to the success dialplan, whatever failed or was hung up meanwhile.      *)
THEOREM WinnersAreBridged == Spec => []WinIsBridged
<1>1. OnCourse => WinIsBridged
  BY DEF OnCourse, Course, Bridged, WinIsBridged
<1> QED
  BY <1>1, CallsKeepCourse, PTL

(* complete, abandon: as long as ARI does what it is asked, a finished call*)
(* that left for the success dialplan is Handed Off, never anything else.  *)
THEOREM BridgedHaveWon == Spec => []BridgedIsWin
<1>1. OnCourse => BridgedIsWin
  BY DEF OnCourse, Course, OnlyWinners, BridgedIsWin
<1> QED
  BY <1>1, CallsKeepCourse, PTL

(* core/logger.py: a call gets at most one line in the game log, and one   *)
(* shown Handed Off or Exiled has exactly that line.                       *)
THEOREM LogsOnce == Spec => []LoggedOnce
<1>1. OnCourse => LoggedOnce
  <2> SUFFICES ASSUME OnCourse, NEW c \in Calls
               PROVE  /\ Len(jsonl[c]) <= 1
                      /\ session[c].state \in {"handed_off", "exiled"}
                           => jsonl[c] = <<session[c].outcome>>
    BY DEF LoggedOnce
  <2>1. EndsAsPlayed(c)
    BY DEF OnCourse, Course
  <2>2. jsonl[c] = <<>> \/ jsonl[c] = <<flow[c].outcome>>
    BY <2>1 DEF EndsAsPlayed
  <2>3. Len(jsonl[c]) <= 1
    <3>1. CASE jsonl[c] = <<>>
      BY <3>1
    <3>2. CASE jsonl[c] = <<flow[c].outcome>>
      BY <3>2
    <3> QED
      BY <2>2, <3>1, <3>2
  <2> QED
    BY <2>1, <2>3 DEF EndsAsPlayed
<1> QED
  BY <1>1, CallsKeepCourse, PTL

(* complete, _attempts_finished: what the history counts is a game the     *)
(* rules allow, provided no Config Snapshot has a negative attempt_limit,  *)
(* which core/config.py does not rule out.                                 *)
THEOREM CountsAreAllowed ==
  ASSUME LimitsAtLeast(0)
  PROVE  Spec => []CountsWithinRules
<1>1. OnCourse => CountsWithinRules
  BY DEF OnCourse, Course, Counted, CountsWithinRules
<1> QED
  BY <1>1, CallsKeepCourse, PTL

-----------------------------------------------------------------------------
(* No wakeup is lost.                                                      *)

(* A call that a step leaves to itself is still in hand.                   *)
LEMMA StaysInHand ==
  ASSUME NEW d \in Calls, InHand(d), task'[d] = task[d], io'[d] = io[d],
         Scheduled("command", d) => Scheduled("command", d)',
         Scheduled("result", d) => Scheduled("result", d)'
  PROVE  InHand(d)'
BY DEF InHand, Replies, Answers

(* The loop taking a callback leaves every other call's on the queue; its  *)
(* progress leaves even its own command and result there.                  *)
LEMMA StillScheduled ==
  ASSUME Inductive, NEW kind, NEW c \in Calls, NextCallback(kind, c), ready' = Tail(ready),
         NEW other, NEW d, d # c \/ other # kind, Scheduled(other, d)
  PROVE  Scheduled(other, d)'
<1>1. ready \in Seq(Callbacks) /\ ready # <<>>
  BY DEF Inductive, TypeOK, NextCallback
<1>2. PICK i \in DOMAIN ready : ready[i].kind = other /\ ready[i].call = d
  BY DEF Scheduled
<1>3. Head(ready) = ready[1] /\ DOMAIN ready = 1..Len(ready) /\ Len(ready) \in Nat
  BY <1>1
<1>4. i # 1
  BY <1>2, <1>3 DEF NextCallback
<1>5. i - 1 \in DOMAIN ready' /\ ready'[i - 1] = ready[i]
  BY <1>1, <1>3, <1>4, HeadAndTail
<1> QED
  BY <1>2, <1>5 DEF Scheduled

(* A thread that stops has put its command or its result on the queue,     *)
(* behind whatever was there.                                              *)
LEMMA NowScheduled ==
  ASSUME Inductive, NEW c \in Calls, NEW kind \in {"command", "result"}, NEW g \in Flow,
         \/ ready' = ready \o Progress(c, g) \o <<Callback(kind, c, g)>>
         \/ ready' = Append(ready, Callback(kind, c, g))
  PROVE  /\ Scheduled(kind, c)'
         /\ \A other, d : Scheduled(other, d) => Scheduled(other, d)'
<1> DEFINE cb == Callback(kind, c, g)
<1>1. ready \in Seq(Callbacks)
  BY DEF Inductive, TypeOK
<1>2. cb \in Callbacks /\ cb.kind = kind /\ cb.call = c /\ Callback("progress", c, g) \in Callbacks
  BY DEF Callback, Callbacks, Flow
<1>3. Progress(c, g) \in Seq(Callbacks)
  BY <1>2 DEF Progress
<1>4. PICK q \in Seq(Callbacks) : Range(ready) \subseteq Range(q) /\ ready' = q \o <<cb>>
  <2>1. ready \o Progress(c, g) \in Seq(Callbacks)
        /\ Range(ready) \subseteq Range(ready \o Progress(c, g))
    BY <1>1, <1>3, Joined
  <2>2. Append(ready, cb) = ready \o <<cb>>
    BY <1>1, <1>2, OneMore
  <2> QED
    BY <1>1, <2>1, <2>2
<1>5. Range(ready') = Range(q) \cup {cb}
  BY <1>2, <1>4, OneMore
<1>6. \A x \in Range(ready') : \E i \in DOMAIN ready' : ready'[i] = x
  BY DEF Range
<1>7. Scheduled(kind, c)'
  <2> HIDE DEF cb
  <2> QED
    BY <1>2, <1>5, <1>6 DEF Scheduled
<1>8. ASSUME NEW other, NEW d, Scheduled(other, d) PROVE Scheduled(other, d)'
  <2>1. PICK x \in Range(ready) : x.kind = other /\ x.call = d
    BY <1>8 DEF Scheduled, Range
  <2> QED
    BY <1>4, <1>5, <1>6, <2>1 DEF Scheduled
<1> QED
  BY <1>7, <1>8

(* Every step leaves every call in hand.                                   *)
LEMMA StepsInHand == Inductive /\ NobodyWaitsInVain /\ [Next]_vars => NobodyWaitsInVain'
<1> SUFFICES ASSUME Inductive, NobodyWaitsInVain, [Next]_vars PROVE NobodyWaitsInVain'
  OBVIOUS
<1> USE DEF NobodyWaitsInVain
<1>1. /\ ready \in Seq(Callbacks) /\ task \in [Calls -> TaskStates] /\ io \in [Calls -> IOStates]
      /\ TypeOK
  BY DEF Inductive, TypeOK
<1>2. CASE UNCHANGED <<task, io, ready>>
  <2> SUFFICES ASSUME NEW d \in Calls PROVE InHand(d)'
    OBVIOUS
  <2>1. InHand(d) /\ task'[d] = task[d] /\ io'[d] = io[d]
    BY <1>2
  <2>2. \A kind : Scheduled(kind, d) => Scheduled(kind, d)'
    BY <1>2 DEF Scheduled
  <2> QED
    BY <2>1, <2>2, StaysInHand
<1>3. ASSUME NEW c \in Calls, InHand(c)', UNCHANGED ready,
             \A d \in Calls \ {c} : task'[d] = task[d] /\ io'[d] = io[d]
      PROVE  NobodyWaitsInVain'
  <2>1. \A kind, d : Scheduled(kind, d) => Scheduled(kind, d)'
    BY <1>3 DEF Scheduled
  <2> QED
    BY <1>3, <2>1, StaysInHand
<1>4. ASSUME NEW c \in Calls, NEW kind, NextCallback(kind, c), ready' = Tail(ready), InHand(c)',
             \A d \in Calls \ {c} : task'[d] = task[d] /\ io'[d] = io[d]
      PROVE  NobodyWaitsInVain'
  BY <1>4, StaysInHand, StillScheduled
<1>5. ASSUME NEW c \in Calls, task[c] \in {"snapshot", "answer", "mode"}, Fail(c)
      PROVE  /\ InHand(c)'
             /\ \A d \in Calls \ {c} : task'[d] = task[d] /\ io'[d] = io[d]
  <2>1. task'[c] = "hangup" /\ \A d \in Calls \ {c} : task'[d] = task[d]
    BY <1>1, <1>5 DEF Fail
  <2>2. io'[c] \in {"ok", "failed"} /\ \A d \in Calls \ {c} : io'[d] = io[d]
    BY <1>1, <1>5, RequestDoes DEF Fail
  <2> QED
    BY <2>1, <2>2 DEF InHand
<1>6. ASSUME NEW c \in Calls, CallTask(c) PROVE NobodyWaitsInVain'
  <2>1. CASE SnapshotTaken(c)
    <3>1. task'[c] = "answer" /\ \A d \in Calls \ {c} : task'[d] = task[d]
      BY <1>1, <2>1 DEF SnapshotTaken, TaskStates
    <3>2. io'[c] \in {"ok", "failed"} /\ \A d \in Calls \ {c} : io'[d] = io[d]
      BY <1>1, <2>1, RequestDoes DEF SnapshotTaken
    <3>3. InHand(c)' /\ UNCHANGED ready
      BY <2>1, <3>1, <3>2 DEF InHand, SnapshotTaken
    <3> QED
      BY <1>3, <3>1, <3>2, <3>3
  <2>2. CASE SnapshotFails(c) \/ AnswerFails(c)
    BY <1>3, <1>5, <2>2 DEF SnapshotFails, AnswerFails, Resumes
  <2>3. CASE Answered(c)
    <3>1. InHand(c)'
      BY <1>1, <2>3 DEF Answered, InHand, Replies
    <3> QED
      BY <1>1, <1>3, <2>3, <3>1 DEF Answered
  <2>4. CASE ModeReturned(c)
    <3>1. InHand(c)'
      BY <1>1, <2>4 DEF ModeReturned, InHand
    <3> QED
      BY <1>1, <1>4, <2>4, <3>1 DEF ModeReturned
  <2>5. CASE ModeRaised(c)
    <3>1. task[c] = "mode"
      BY <2>5, CallbackTaken DEF ModeRaised
    <3> QED
      BY <1>4, <1>5, <2>5, <3>1 DEF ModeRaised
  <2>6. CASE TornDown(c) \/ Persisted(c)
    <3>1. /\ task'[c] \in {"persist", "done"} /\ UNCHANGED ready
          /\ \A d \in Calls \ {c} : task'[d] = task[d] /\ io'[d] = io[d]
      BY <1>1, <2>6 DEF TornDown, Persisted, AnnounceEnd
    <3>2. InHand(c)'
      BY <3>1 DEF InHand
    <3> QED
      BY <1>3, <3>1, <3>2
  <2> QED
    BY <1>6, <2>1, <2>2, <2>3, <2>4, <2>5, <2>6 DEF CallTask
<1>7. ASSUME NEW c \in Calls, Worker(c) PROVE NobodyWaitsInVain'
  <2>1. PICK r \in Waiting, kind \in {"command", "result"}, g \in Flow :
          /\ r = "queued" <=> kind = "command"
          /\ io' = [io EXCEPT ![c] = r]
          /\ \/ ready' = ready \o Progress(c, g) \o <<Callback(kind, c, g)>>
             \/ ready' = Append(ready, Callback(kind, c, g))
    <3>1. flow[c] \in Flow /\ \A g \in After(flow[c], io[c]) : g \in Flow
      BY AfterType DEF Inductive, TypeOK
    <3>2. CASE ThreadAdvances(c)
      <4>1. PICK g \in After(flow[c], io[c]) :
              IF g.at = "end"
                THEN /\ ready' = Append(ready, Callback("result", c, g))
                     /\ io' = [io EXCEPT ![c] = "returned"]
                ELSE /\ ready' = ready \o Progress(c, g) \o <<Callback("command", c, g)>>
                     /\ io' = [io EXCEPT ![c] = "queued"]
        BY <3>2 DEF ThreadAdvances
      <4> QED
        BY <3>1, <4>1 DEF Waiting
    <3>3. CASE ThreadRaises(c)
      BY <3>1, <3>3 DEF ThreadRaises, Waiting
    <3>4. CASE ThreadBreaks(c)
      BY <3>1, <3>4 DEF ThreadBreaks, Waiting
    <3> QED
      BY <1>7, <3>2, <3>3, <3>4 DEF Worker
  <2>2. UNCHANGED task
    BY <1>7 DEF Worker, ThreadAdvances, ThreadRaises, ThreadBreaks
  <2>3. /\ Scheduled(kind, c)' /\ \A other, d : Scheduled(other, d) => Scheduled(other, d)'
    BY <2>1, NowScheduled
  <2>4. task[c] = "mode" /\ io'[c] = r /\ \A d \in Calls \ {c} : io'[d] = io[d]
    BY <1>1, <1>7, <2>1 DEF Worker, ThreadAdvances, ThreadRaises, ThreadBreaks, Runnable
  <2>5. InHand(c)'
    BY <2>1, <2>2, <2>3, <2>4 DEF InHand, Waiting
  <2> QED
    BY <2>2, <2>3, <2>4, <2>5, StaysInHand
<1>8. ASSUME NEW c \in Calls, Loop(c) \/ Keyed(c) PROVE NobodyWaitsInVain'
  <2>1. CASE RunProgress(c)
    BY <2>1, StaysInHand, StillScheduled DEF RunProgress
  <2>2. CASE RunCommand(c)
    <3>1. /\ io'[c] \in {"ok", "failed", "reading", "deaf"} /\ UNCHANGED task
          /\ \A d \in Calls \ {c} : io'[d] = io[d]
      BY <1>1, <2>2, RequestDoes DEF RunCommand
    <3>2. task[c] = "mode" /\ InHand(c)'
      BY <2>2, <3>1, CallbackTaken DEF InHand, RunCommand, Replies
    <3> QED
      BY <1>4, <2>2, <3>1, <3>2 DEF RunCommand
  <2>3. CASE ReadTimesOut(c) \/ Keyed(c)
    <3>1. PICK heard \in Answers : io' = [io EXCEPT ![c] = heard]
      BY <2>3 DEF Keyed, ReadTimesOut, Answers
    <3>2. task[c] = "mode" /\ UNCHANGED <<task, ready>>
      BY <2>3 DEF Inductive, ThreadInMode, Keyed, ReadTimesOut
    <3>3. InHand(c)' /\ \A d \in Calls \ {c} : io'[d] = io[d]
      BY <1>1, <3>1, <3>2 DEF InHand, Replies
    <3> QED
      BY <1>3, <3>2, <3>3
  <2> QED
    BY <1>8, <2>1, <2>2, <2>3 DEF Loop
<1>9. ASSUME NEW c \in Calls, AcceptCall(c) PROVE NobodyWaitsInVain'
  <2>1. task'[c] = "snapshot" /\ UNCHANGED <<io, ready>> /\ \A d \in Calls \ {c} : task'[d] = task[d]
    BY <1>1, <1>9 DEF AcceptCall
  <2>2. InHand(c)'
    BY <2>1 DEF InHand
  <2> QED
    BY <1>3, <2>1, <2>2
<1>10. CASE Environment
  BY <1>2, <1>8, <1>10 DEF Environment, Dial, HangUp, SocketDrops, Stop, StopIdle, Close
<1>11. CASE Reader \/ Reconnect \/ Drained
  BY <1>2, <1>9, <1>11 DEF Reader, RefuseCall, ChannelGone, RefusalAnswered, Reconnect, Drained, Close
<1>12. ASSUME NEW c \in Calls, AfterglowEnds(c) PROVE NobodyWaitsInVain'
  BY <1>2, <1>12 DEF AfterglowEnds
<1>13. CASE UNCHANGED vars
  BY <1>2, <1>13 DEF vars
<1> QED
  BY <1>6, <1>7, <1>8, <1>10, <1>11, <1>12, <1>13 DEF Next, Engine

(* run_coroutine_threadsafe, asyncio.to_thread: between the call task, its *)
(* thread and the loop, no wakeup is ever lost.                            *)
THEOREM NoWakeupLost == Spec => []NobodyWaitsInVain
<1>1. Init => NobodyWaitsInVain
  BY DEF Init, NobodyWaitsInVain, InHand
<1> QED
  BY <1>1, Invariance, StepsInHand, PTL DEF Spec

-----------------------------------------------------------------------------
(* Nobody is left: on the Console, or on the line.                         *)

(* Every step of the engine keeps what is shown on its way off.            *)
LEMMA StepsLeave == Inductive /\ ShownIsLeaving /\ [Next]_vars => ShownIsLeaving'
<1> SUFFICES ASSUME Inductive, ShownIsLeaving, [Next]_vars PROVE ShownIsLeaving'
  OBVIOUS
<1> DEFINE Leaves(c) == active = c /\ Over(c)
                          => task[c] \in {"hangup", "persist"} \/ c \in glow \/ phase = "closed"
<1>1. /\ task \in [Calls -> TaskStates] /\ session \in [Calls -> Sessions] /\ NoCall \notin Calls
      /\ \A c \in Calls : Over(c) => task[c] \in {"hangup", "persist", "done"}
      /\ \A c \in Calls : Leaves(c)
  BY NoCallAssumption DEF Inductive, TypeOK, StateFollowsTask, Over, IsOver, TaskStates,
                          TerminalStates, ShownIsLeaving
<1>2. ASSUME UNCHANGED <<session, task, active>>, UNCHANGED glow \/ phase' = "closed",
             phase = "closed" => phase' = "closed"
      PROVE  ShownIsLeaving'
  BY <1>1, <1>2 DEF ShownIsLeaving, Over
<1>3. ASSUME NEW c \in Calls, NEW s, session' = [session EXCEPT ![c] = s], IsOver(s) => IsOver(session[c]),
             UNCHANGED <<task, active, glow, phase>>
      PROVE  ShownIsLeaving'
  <2>1. \A d \in Calls : Over(d)' => Over(d)
    BY <1>1, <1>3 DEF Over
  <2> QED
    BY <1>1, <1>3, <2>1 DEF ShownIsLeaving
<1>4. ASSUME NEW c \in Calls, task'[c] \in {"answer", "mode", "hangup", "persist"},
             Over(c)' => task'[c] \in {"hangup", "persist"},
             \A d \in Calls \ {c} : task'[d] = task[d] /\ session'[d] = session[d],
             UNCHANGED <<active, glow, phase>>
      PROVE  ShownIsLeaving'
  BY <1>1, <1>4 DEF ShownIsLeaving, Over
<1>5. ASSUME NEW c \in Calls, UNCHANGED <<session, phase>>, AnnounceEnd(c)
      PROVE  ShownIsLeaving'
  <2>1. \A d \in Calls \ {c} : task'[d] = task[d]
    BY <1>1, <1>5 DEF AnnounceEnd
  <2>2. CASE glow' = glow \cup {c} /\ UNCHANGED active
    BY <1>1, <1>5, <2>1, <2>2 DEF ShownIsLeaving, Over
  <2>3. CASE active' = (IF active = c THEN NoCall ELSE active) /\ UNCHANGED glow
    BY <1>1, <1>5, <2>1, <2>3 DEF ShownIsLeaving, Over
  <2> QED
    BY <1>5, <2>2, <2>3 DEF AnnounceEnd
<1>6. ASSUME NEW c \in Calls, CallTask(c) PROVE ShownIsLeaving'
  <2>1. CASE SnapshotTaken(c)
    <3>1. task'[c] = "answer" /\ \A d \in Calls \ {c} : task'[d] = task[d] /\ session'[d] = session[d]
      BY <1>1, <2>1 DEF SnapshotTaken
    <3>2. ~Over(c)'
      <4>1. \E m : session'[c] = [session[c] EXCEPT !.mode = m]
        BY <1>1, <2>1 DEF SnapshotTaken
      <4>2. session'[c].state = session[c].state
        BY <1>1, <4>1 DEF Sessions
      <4> QED
        BY <1>1, <2>1, <4>2 DEF Over, IsOver, SnapshotTaken, Resumes
    <3> QED
      BY <1>4, <2>1, <3>1, <3>2 DEF SnapshotTaken, stopVars
  <2>2. CASE Fail(c) /\ UNCHANGED <<active, glow, stopVars>>
    <3>1. task'[c] = "hangup" /\ \A d \in Calls \ {c} : task'[d] = task[d] /\ session'[d] = session[d]
      BY <1>1, <2>2 DEF Fail
    <3> QED
      BY <1>4, <2>2, <3>1 DEF stopVars
  <2>3. CASE Answered(c)
    <3>1. /\ task'[c] = "mode" /\ session'[c].state = "in_mode"
          /\ \A d \in Calls \ {c} : task'[d] = task[d] /\ session'[d] = session[d]
      BY <1>1, <2>3 DEF Answered, Sessions
    <3> QED
      BY <1>4, <2>3, <3>1 DEF Answered, stopVars, Over, IsOver, TerminalStates
  <2>4. CASE ModeReturned(c)
    <3>1. /\ task'[c] = "persist"
          /\ \A d \in Calls \ {c} : task'[d] = task[d] /\ session'[d] = session[d]
      BY <1>1, <2>4 DEF ModeReturned
    <3> QED
      BY <1>4, <2>4, <3>1 DEF ModeReturned, stopVars
  <2>5. CASE TornDown(c)
    <3>1. CASE task' = [task EXCEPT ![c] = "persist"] /\ UNCHANGED <<active, glow>>
      <4>1. task'[c] = "persist" /\ \A d \in Calls \ {c} : task'[d] = task[d]
        BY <1>1, <3>1
      <4> QED
        BY <1>4, <2>5, <3>1, <4>1 DEF TornDown, stopVars
    <3>2. CASE AnnounceEnd(c)
      BY <1>5, <2>5, <3>2 DEF TornDown, stopVars
    <3> QED
      BY <2>5, <3>1, <3>2 DEF TornDown
  <2>6. CASE Persisted(c)
    BY <1>5, <2>6 DEF Persisted, stopVars
  <2> QED
    BY <1>6, <2>1, <2>2, <2>3, <2>4, <2>5, <2>6 DEF CallTask, SnapshotFails, AnswerFails, ModeRaised
<1>7. ASSUME NEW c \in Calls, AcceptCall(c) PROVE ShownIsLeaving'
  <2>1. active' = c /\ session'[c].state = "answering"
    BY <1>1, <1>7 DEF AcceptCall, NewSession
  <2> QED
    BY <2>1 DEF ShownIsLeaving, Over, IsOver, TerminalStates
<1>8. ASSUME NEW c \in Calls, AfterglowEnds(c) PROVE ShownIsLeaving'
  BY <1>1, <1>8 DEF ShownIsLeaving, AfterglowEnds, Over, stopVars
<1>9. ASSUME NEW c \in Calls, ChannelGone(c) \/ RunProgress(c) PROVE ShownIsLeaving'
  <2>1. UNCHANGED <<task, active, glow, phase>>
    BY <1>9 DEF ChannelGone, RunProgress, stopVars
  <2>2. \/ UNCHANGED session
        \/ /\ ~Over(c)
           /\ session' = [session EXCEPT ![c].gone = TRUE]
        \/ /\ ~Over(c)
           /\ session' = [session EXCEPT ![c] = Observed(@, Head(ready))]
    BY <1>9 DEF ChannelGone, RunProgress
  <2>3. ~IsOver(session[c]) =>
          /\ ~IsOver([session[c] EXCEPT !.gone = TRUE])
          /\ ~IsOver(Observed(session[c], Head(ready)))
    BY <1>1 DEF IsOver, Observed, Sessions
  <2> QED
    BY <1>1, <1>2, <1>3, <2>1, <2>2, <2>3 DEF Over
<1>10. CASE Environment
  BY <1>2, <1>10 DEF Environment, Dial, HangUp, Keyed, SocketDrops, Stop, StopIdle, Close, stopVars
<1>11. CASE Reader \/ Reconnect \/ Drained
  BY <1>2, <1>7, <1>9, <1>11 DEF Reader, RefuseCall, RefusalAnswered, Reconnect, Drained, Close,
                                 stopVars
<1>12. ASSUME NEW c \in Calls, Worker(c) \/ Loop(c) PROVE ShownIsLeaving'
  BY <1>2, <1>9, <1>12 DEF Worker, ThreadAdvances, ThreadRaises, ThreadBreaks, Loop, RunCommand,
                           ReadTimesOut, stopVars
<1>13. CASE UNCHANGED vars
  BY <1>2, <1>13 DEF vars, stopVars
<1> QED
  BY <1>6, <1>8, <1>10, <1>11, <1>12, <1>13 DEF Next, Engine

(* _announce_end_and_linger, _afterglow: a call that is over and still     *)
(* shown is on its way off the Console; nothing can strand it there.       *)
THEOREM NothingIsStranded == Spec => []ShownIsLeaving
<1>1. Init => ShownIsLeaving
  BY NoCallAssumption DEF Init, ShownIsLeaving
<1> QED
  BY <1>1, Invariance, StepsLeave, PTL DEF Spec

(* A channel in Stasis nobody has picked up is still to be heard of.       *)
StartOf(c)   == [type |-> "StasisStart", call |-> c]
Announced(c) == StartOf(c) \in Range(wire)
Unheard == "rest" \notin Perils /\ "socket" \notin Perils =>
  \A c \in Calls : chan[c] = "stasis" /\ task[c] = "none" => Announced(c)

(* What is on the wire stays on it until it is read.                       *)
LEMMA StaysOnWire ==
  ASSUME NEW w \in Seq(Events), NEW e, e \in Range(w)
  PROVE  /\ \A p \in Seq(Events) : e \in Range(w \o p)
         /\ w # <<>> /\ Head(w) # e => e \in Range(Tail(w))
<1>1. PICK i \in DOMAIN w : w[i] = e
  BY DEF Range
<1>2. ASSUME w # <<>>, Head(w) # e PROVE e \in Range(Tail(w))
  <2>1. DOMAIN w = 1..Len(w) /\ Len(w) \in Nat /\ Head(w) = w[1]
    BY <1>2
  <2>2. i # 1 /\ i - 1 \in 1..(Len(w) - 1)
    BY <1>1, <1>2, <2>1
  <2>3. i - 1 \in DOMAIN Tail(w) /\ Tail(w)[i - 1] = w[i]
    BY <1>2, <2>1, <2>2, HeadAndTail
  <2> QED
    BY <1>1, <2>3 DEF Range
<1> QED
  BY <1>2, Joined

(* What Asterisk emits is an event, or none.                               *)
LEMMA EmittedJoins ==
  ASSUME NEW w \in Seq(Events), NEW c \in Calls
  PROVE  /\ \E p \in Seq(Events) : Emitted(w, Departure(c)) = w \o p
         /\ Emitted(w, <<>>) = w /\ w = w \o <<>> /\ <<>> \in Seq(Events)
<1>1. <<>> \in Seq(Events) /\ w = w \o <<>>
  OBVIOUS
<1>2. GoneEvent(c) \in Events
  BY DEF GoneEvent, Events
<1>3. Departure(c) \in Seq(Events)
  BY <1>1, <1>2 DEF Departure
<1>4. Emitted(w, <<>>) = w
  BY <1>1 DEF Emitted
<1>5. CASE socket
  BY <1>1, <1>3, <1>4, <1>5 DEF Emitted
<1>6. CASE ~socket
  BY <1>1, <1>4, <1>6 DEF Emitted
<1> QED
  BY <1>5, <1>6

(* Every step leaves every waiting channel announced.                      *)
LEMMA StepsAnnounce == Inductive /\ Unheard /\ [Next]_vars => Unheard'
<1> SUFFICES ASSUME Inductive, Unheard, [Next]_vars, "rest" \notin Perils, "socket" \notin Perils,
                    NEW c \in Calls, chan'[c] = "stasis", task'[c] = "none"
             PROVE  Announced(c)'
  BY DEF Unheard
<1>1. /\ wire \in Seq(Events) /\ TypeOK /\ chan \in [Calls -> ChannelStates]
      /\ task \in [Calls -> TaskStates]
      /\ chan[c] = "stasis" /\ task[c] = "none" => Announced(c)
  BY DEF Inductive, TypeOK, Unheard
<1>2. ASSUME chan[c] = "stasis", task[c] = "none",
             UNCHANGED wire \/ (\E d \in Calls : wire' \in {Emitted(wire, Departure(d)), Emitted(wire, <<>>)})
      PROVE  Announced(c)'
  <2>1. CASE UNCHANGED wire
    BY <1>1, <1>2, <2>1 DEF Announced
  <2>2. ASSUME NEW d \in Calls, wire' \in {Emitted(wire, Departure(d)), Emitted(wire, <<>>)}
        PROVE  Announced(c)'
    <3>1. PICK p \in Seq(Events) : wire' = wire \o p
      <4>1. CASE wire' = Emitted(wire, Departure(d))
        BY <1>1, <4>1, EmittedJoins
      <4>2. CASE wire' = Emitted(wire, <<>>)
        <5>1. wire' = wire \o <<>> /\ <<>> \in Seq(Events)
          BY <1>1, <4>2, EmittedJoins
        <5> QED
          BY <5>1
      <4> QED
        BY <2>2, <4>1, <4>2
    <3> QED
      BY <1>1, <1>2, <3>1, StaysOnWire DEF Announced
  <2> QED
    BY <1>2, <2>1, <2>2
<1>3. ASSUME NEW d \in Calls, NEW at, Request(d, at), task[c] = "none"
      PROVE  Announced(c)'
  <2>1. chan[c] = "stasis"
    <3>1. CASE c = d
      BY <1>1, <1>3, <3>1, RequestDoes
    <3>2. CASE c # d
      BY <1>1, <1>3, <3>2, RequestDoes
    <3> QED
      BY <3>1, <3>2
  <2>2. UNCHANGED wire \/ wire' \in {Emitted(wire, Departure(d)), Emitted(wire, <<>>)}
    BY <1>3 DEF Request, Executed
  <2> QED
    BY <1>2, <1>3, <2>1, <2>2
<1>4. ASSUME NEW d \in Calls, CallTask(d) PROVE Announced(c)'
  <2>1. task[d] \in {"snapshot", "answer", "mode", "hangup", "persist"} /\ task'[d] # "none"
    <3>1. CASE SnapshotTaken(d) \/ SnapshotFails(d) \/ Answered(d) \/ AnswerFails(d)
      BY <1>1, <3>1 DEF SnapshotTaken, SnapshotFails, Answered, AnswerFails, Fail, Resumes
    <3>2. CASE ModeReturned(d) \/ ModeRaised(d)
      BY <1>1, <3>2, CallbackTaken DEF ModeReturned, ModeRaised, Fail
    <3>3. CASE TornDown(d) \/ Persisted(d)
      BY <1>1, <3>3 DEF TornDown, Persisted, AnnounceEnd, Resumes
    <3> QED
      BY <1>4, <3>1, <3>2, <3>3 DEF CallTask
  <2>2. \A x \in Calls \ {d} : task'[x] = task[x]
    BY <1>1, <1>4 DEF CallTask, SnapshotTaken, SnapshotFails, Answered, AnswerFails, Fail,
                      ModeReturned, ModeRaised, TornDown, Persisted, AnnounceEnd
  <2>3. c # d /\ task[c] = "none"
    BY <2>1, <2>2
  <2>4. UNCHANGED <<chan, wire>> \/ \E at : Request(d, at)
    BY <1>4 DEF CallTask, SnapshotTaken, SnapshotFails, Answered, AnswerFails, Fail, ModeReturned,
                ModeRaised, TornDown, Persisted, asteriskVars
  <2> QED
    BY <1>2, <1>3, <2>3, <2>4
<1>5. ASSUME NEW d \in Calls, NEW type, NextEvent(type, d), chan[c] = "stasis", task[c] = "none",
             wire' = Tail(wire) \/ wire' = Emitted(Tail(wire), Departure(d)),
             type # "StasisStart" \/ c # d
      PROVE  Announced(c)'
  <2>1. wire # <<>> /\ Head(wire) # StartOf(c) /\ Tail(wire) \in Seq(Events)
    BY <1>5, EventRead DEF NextEvent, StartOf
  <2>2. PICK p \in Seq(Events) : wire' = Tail(wire) \o p
    BY <1>5, <2>1, EmittedJoins
  <2>3. StartOf(c) \in Range(Tail(wire))
    BY <1>1, <1>5, <2>1, StaysOnWire DEF Announced
  <2> QED
    BY <2>1, <2>2, <2>3, StaysOnWire DEF Announced
<1>6. ASSUME NEW d \in Calls, AcceptCall(d) PROVE Announced(c)'
  <2>1. task'[d] = "snapshot" /\ \A x \in Calls \ {d} : task'[x] = task[x]
    BY <1>1, <1>6 DEF AcceptCall
  <2> QED
    BY <1>5, <1>6, <2>1 DEF AcceptCall
<1>7. ASSUME NEW d \in Calls, RefuseCall(d) PROVE Announced(c)'
  <2>1. task[c] = "none" /\ chan[c] = "stasis" /\ c # d
    BY <1>1, <1>7 DEF RefuseCall
  <2> QED
    BY <1>5, <1>7, <2>1 DEF RefuseCall
<1>8. ASSUME NEW d \in Calls, ChannelGone(d) PROVE Announced(c)'
  BY <1>5, <1>8 DEF ChannelGone
<1>9. ASSUME NEW d \in Calls, Dial(d) PROVE Announced(c)'
  <2>1. StartOf(d) \in Events /\ wire' = wire \o <<StartOf(d)>>
    BY <1>1, <1>9 DEF Dial, Events, StartOf
  <2>2. Range(wire') = Range(wire) \cup {StartOf(d)}
    BY <1>1, <2>1, OneMore
  <2>3. c # d => chan[c] = "stasis" /\ task[c] = "none"
    BY <1>1, <1>9 DEF Dial
  <2> QED
    BY <1>1, <2>2, <2>3 DEF Announced
<1>10. ASSUME NEW d \in Calls, HangUp(d) PROVE Announced(c)'
  <2>1. task[c] = "none" /\ chan[c] = "stasis"
    BY <1>1, <1>10 DEF HangUp
  <2> QED
    BY <1>2, <1>10, <2>1 DEF HangUp
<1>11. ASSUME NEW d \in Calls, Worker(d) \/ Loop(d) \/ Keyed(d) \/ AfterglowEnds(d) PROVE Announced(c)'
  <2>1. UNCHANGED task /\ (UNCHANGED <<chan, wire>> \/ \E at : Request(d, at))
    BY <1>11 DEF Worker, ThreadAdvances, ThreadRaises, ThreadBreaks, Loop, RunProgress, RunCommand,
                 ReadTimesOut, Keyed, AfterglowEnds, asteriskVars
  <2> QED
    BY <1>2, <1>3, <2>1
<1>12. CASE Environment
  BY <1>2, <1>9, <1>10, <1>11, <1>12 DEF Environment, SocketDrops, Stop, StopIdle, Close, asteriskVars
<1>13. CASE Reader \/ Reconnect \/ Drained
  BY <1>2, <1>6, <1>7, <1>8, <1>13 DEF Reader, RefusalAnswered, Reconnect, Drained, Close, asteriskVars
<1>14. CASE UNCHANGED vars
  BY <1>2, <1>14 DEF vars
<1> QED
  BY <1>4, <1>11, <1>12, <1>13, <1>14 DEF Next, Engine

(* _on_stasis_start, run_flow, _safe_hangup: while ARI does what it is     *)
(* asked, no caller is left on a silent line and no channel stays in       *)
(* Stasis when its call is done - provided every snapshot allows an        *)
(* attempt: with attempt_limit 0 the flow returns and nobody hangs up.     *)
THEOREM EveryoneIsAttended ==
  ASSUME LimitsAtLeast(1)
  PROVE  Spec => []Attended
<1>1. Init => Unheard
  BY DEF Init, Unheard
<1>2. Inductive /\ OnCourse /\ Unheard => Attended
  <2> SUFFICES ASSUME Inductive, OnCourse, Unheard, "rest" \notin Perils,
                      NEW c \in Calls, chan[c] = "stasis",
                      task[c] \notin {"snapshot", "answer", "mode"}
               PROVE  task[c] = "none" /\ ("socket" \notin Perils => Announced(c))
    BY DEF Attended, Announced, StartOf, Range
  <2>1. task[c] \notin {"hangup", "persist", "done"}
    BY DEF OnCourse, Course, LetGo
  <2> QED
    BY <2>1 DEF Unheard, Inductive, TypeOK, TaskStates
<1> QED
  BY <1>1, <1>2, Invariance, CallsKeepCourse, StepsAnnounce, PTL DEF Spec

-----------------------------------------------------------------------------
(* A call only ever comes nearer to its end.                               *)

(* A call task that resumes gets further.                                  *)
LEMMA TasksAdvance ==
  ASSUME Inductive, NEW c \in Calls, CallTask(c)
  PROVE  Advances(c) /\ \A d \in Calls \ {c} : Stays(d)
<1>1. /\ task \in [Calls -> TaskStates] /\ io \in [Calls -> IOStates] /\ flow \in [Calls -> Flow]
      /\ TypeOK
  BY DEF Inductive, TypeOK
<1>2. ASSUME NEW at, Request(c, at), NEW t \in TaskStates, task' = [task EXCEPT ![c] = t],
             flow' = flow \/ \E f : flow' = [flow EXCEPT ![c] = f]
      PROVE  /\ task'[c] = t /\ \A d \in Calls \ {c} : Stays(d)
  BY <1>1, <1>2, RequestDoes DEF Stays
<1>3. CASE SnapshotTaken(c)
  <2>1. task'[c] = "answer" /\ \A d \in Calls \ {c} : Stays(d)
    BY <1>2, <1>3 DEF SnapshotTaken, TaskStates
  <2> QED
    BY <1>3, <2>1 DEF SnapshotTaken, Resumes, Advances, AwaitsLeft
<1>4. ASSUME task[c] \in {"snapshot", "answer", "mode"}, Fail(c), UNCHANGED flow
      PROVE  Advances(c) /\ \A d \in Calls \ {c} : Stays(d)
  <2>1. task'[c] = "hangup" /\ \A d \in Calls \ {c} : Stays(d)
    BY <1>2, <1>4 DEF Fail, TaskStates
  <2> QED
    BY <1>4, <2>1 DEF Advances, AwaitsLeft
<1>5. CASE SnapshotFails(c) \/ AnswerFails(c) \/ ModeRaised(c)
  BY <1>4, <1>5, CallbackTaken DEF SnapshotFails, AnswerFails, ModeRaised, Resumes
<1>6. CASE Answered(c)
  BY <1>1, <1>6 DEF Answered, Resumes, Stays, Advances, AwaitsLeft
<1>7. CASE ModeReturned(c)
  <2>1. task[c] = "mode" /\ task'[c] = "persist" /\ \A d \in Calls \ {c} : Stays(d)
    BY <1>1, <1>7, CallbackTaken DEF ModeReturned, Stays
  <2> QED
    BY <2>1 DEF Advances, AwaitsLeft
<1>8. CASE TornDown(c)
  <2>1. task[c] = "hangup" /\ task'[c] \in {"persist", "done"} /\ \A d \in Calls \ {c} : Stays(d)
    BY <1>1, <1>8 DEF TornDown, Resumes, AnnounceEnd, Stays
  <2> QED
    BY <2>1 DEF Advances, AwaitsLeft
<1>9. CASE Persisted(c)
  <2>1. task[c] = "persist" /\ task'[c] = "done" /\ \A d \in Calls \ {c} : Stays(d)
    BY <1>1, <1>9 DEF Persisted, Resumes, AnnounceEnd, Stays
  <2> QED
    BY <2>1 DEF Advances, AwaitsLeft
<1> QED
  BY <1>3, <1>5, <1>6, <1>7, <1>8, <1>9 DEF CallTask

(* A thread that runs on leaves its game nearer to its end, or raises.     *)
LEMMA ThreadsAdvance ==
  ASSUME Inductive, OnCourse, NEW c \in Calls, Worker(c)
  PROVE  Advances(c) /\ \A d \in Calls \ {c} : Stays(d)
<1>1. /\ io \in [Calls -> IOStates] /\ flow \in [Calls -> Flow] /\ flow[c] \in Flow
      /\ task[c] = "mode" /\ io[c] \in Replies /\ UNCHANGED task
  BY DEF Inductive, TypeOK, Worker, ThreadAdvances, ThreadRaises, ThreadBreaks, Runnable
<1>2. Played(flow[c]) /\ flow[c].at # "end"
  BY <1>1 DEF OnCourse, Course, PlaysOn, StandsThere, Replies, Answers
<1>3. \E r \in Waiting : io' = [io EXCEPT ![c] = r]
  BY DEF Worker, ThreadAdvances, ThreadRaises, ThreadBreaks, Waiting
<1>4. UNCHANGED flow \/ \E f : flow' = [flow EXCEPT ![c] = f]
  BY DEF Worker, ThreadAdvances, ThreadRaises, ThreadBreaks
<1>5. \A d \in Calls \ {c} : Stays(d)
  BY <1>1, <1>3, <1>4 DEF Stays
<1>6. Advances(c)
  <2>1. CASE ThreadAdvances(c)
    <3>1. PICK g \in After(flow[c], io[c]) : flow' = [flow EXCEPT ![c] = g]
      BY <2>1 DEF ThreadAdvances
    <3>2. Nearer(g, flow[c]) /\ flow'[c] = g
      BY <1>1, <1>2, <3>1, AfterDescends
    <3> QED
      BY <1>1, <3>2 DEF Advances
  <2>2. CASE io' = [io EXCEPT ![c] = "raised"] /\ UNCHANGED flow
    <3>1. AnswersLeft(c) = 1 /\ io'[c] = "raised"
      BY <1>1, <2>2 DEF AnswersLeft, Replies, Answers
    <3>2. AnswersLeft(c)' = 0
      BY <3>1 DEF AnswersLeft, Replies, Answers
    <3> QED
      BY <1>1, <2>2, <3>1, <3>2 DEF Advances
  <2>3. ASSUME NEW g \in After(flow[c], io[c]),
               flow' = [flow EXCEPT ![c] = [g EXCEPT !.outcome = flow[c].outcome]]
        PROVE  Advances(c)
    <3>1. g \in Flow /\ Nearer(g, flow[c])
      BY <1>1, <1>2, AfterType, AfterDescends
    <3>2. /\ flow'[c].mode = g.mode /\ flow'[c].limit = g.limit /\ flow'[c].at = g.at
          /\ flow'[c].tally = g.tally /\ flow'[c].refused = g.refused
      BY <1>1, <2>3, <3>1 DEF Flow
    <3>3. /\ Chances(flow'[c]) = Chances(g) /\ Patience(flow'[c]) = Patience(g)
          /\ CommandsLeft(flow'[c]) = CommandsLeft(g)
      BY <3>2 DEF Chances, Patience, CommandsLeft
    <3>4. Nearer(flow'[c], flow[c])
      BY <3>1, <3>3 DEF Nearer
    <3> QED
      BY <1>1, <3>4 DEF Advances
  <2> QED
    BY <2>1, <2>2, <2>3 DEF Worker, ThreadRaises, ThreadBreaks, recordVars
<1> QED
  BY <1>5, <1>6

(* A command that starts is nearer to its answer, and a read to its end.   *)
LEMMA CommandsAdvance ==
  ASSUME Inductive, NEW c \in Calls, RunCommand(c) \/ Keyed(c) \/ ReadTimesOut(c)
  PROVE  Advances(c) /\ \A d \in Calls \ {c} : Stays(d)
<1>1. /\ io \in [Calls -> IOStates] /\ UNCHANGED <<task, flow>> /\ TypeOK
  BY DEF Inductive, TypeOK, RunCommand, Keyed, ReadTimesOut
<1>2. CASE RunCommand(c)
  <2>1. io[c] = "queued"
    BY <1>2, CallbackTaken DEF RunCommand
  <2>2. io'[c] \in {"ok", "failed", "reading", "deaf"} /\ \A d \in Calls \ {c} : io'[d] = io[d]
    BY <1>1, <1>2, RequestDoes DEF RunCommand
  <2>3. AnswersLeft(c) = 3 /\ AnswersLeft(c)' \in {1, 2}
    BY <2>1, <2>2 DEF AnswersLeft, Replies, Answers
  <2> QED
    BY <1>1, <2>2, <2>3 DEF Advances, Stays
<1>3. CASE Keyed(c) \/ ReadTimesOut(c)
  <2>1. io'[c] \in Answers /\ io[c] \in {"reading", "deaf"} /\ \A d \in Calls \ {c} : io'[d] = io[d]
    BY <1>1, <1>3 DEF Keyed, ReadTimesOut, Answers
  <2>2. AnswersLeft(c) = 2 /\ AnswersLeft(c)' = 1
    BY <2>1 DEF AnswersLeft, Replies, Answers
  <2> QED
    BY <1>1, <2>1, <2>2 DEF Advances, Stays
<1> QED
  BY <1>2, <1>3

(* _handle_call, run_flow, mode_roguelike.handle: whatever fails, and      *)
(* whatever the callers key in, no call is ever set back - so none can go  *)
(* on for ever, for any attempt limit and Walk Bound.                      *)
THEOREM NoCallIsSetBack == Spec => CallsAdvance
<1>1. ASSUME Inductive, OnCourse, Next, NEW c \in Calls
      PROVE  Advances(c) \/ Stays(c)
  <2>1. ASSUME NEW d \in Calls, Advances(d), \A x \in Calls \ {d} : Stays(x)
        PROVE  Advances(c) \/ Stays(c)
    BY <2>1
  <2>2. CASE UNCHANGED <<task, flow, io>>
    BY <2>2 DEF Stays
  <2>3. ASSUME NEW d \in Calls, AcceptCall(d) PROVE Advances(c) \/ Stays(c)
    <3>1. /\ task \in [Calls -> TaskStates] /\ task[d] = "none" /\ task'[d] = "snapshot"
          /\ \A x \in Calls \ {d} : Stays(x)
      BY <1>1, <2>3, EventRead DEF AcceptCall, Inductive, TypeOK, Stays
    <3>2. Advances(d)
      BY <3>1 DEF Advances, AwaitsLeft
    <3> QED
      BY <2>1, <3>1, <3>2
  <2>4. ASSUME NEW d \in Calls, CallTask(d) \/ Worker(d) \/ Loop(d) \/ Keyed(d) \/ AfterglowEnds(d)
        PROVE  Advances(c) \/ Stays(c)
    <3>1. CASE RunProgress(d) \/ AfterglowEnds(d)
      BY <2>2, <3>1 DEF RunProgress, AfterglowEnds
    <3>2. CASE CallTask(d) \/ Worker(d) \/ RunCommand(d) \/ Keyed(d) \/ ReadTimesOut(d)
      BY <1>1, <2>1, <3>2, TasksAdvance, ThreadsAdvance, CommandsAdvance
    <3> QED
      BY <2>4, <3>1, <3>2 DEF Loop
  <2>5. CASE Environment
    BY <2>2, <2>4, <2>5 DEF Environment, Dial, HangUp, SocketDrops, Stop, StopIdle, Close
  <2>6. CASE Reader \/ Reconnect \/ Drained
    BY <2>2, <2>3, <2>6 DEF Reader, RefuseCall, ChannelGone, RefusalAnswered, Reconnect, Drained, Close
  <2> QED
    BY <1>1, <2>4, <2>5, <2>6 DEF Next, Engine
<1>2. Inductive /\ OnCourse /\ [Next]_vars => [\A c \in Calls : Advances(c) \/ Stays(c)]_vars
  BY <1>1
<1> QED
  BY <1>2, Invariance, CallsKeepCourse, PTL DEF Spec, CallsAdvance

-----------------------------------------------------------------------------
(* The refinement: what of the engine's steps the Operator can see.        *)

(* A call is given its ending when it is over, and not before.             *)
Undecided == \A c \in Calls : ~Over(c) => session[c].outcome = "none"

(* What the booth shows of a call: its line, and its ending.               *)
LooksAlike(s, t) ==
  /\ s.state \in LiveStates <=> t.state \in LiveStates
  /\ s.state \in TerminalStates <=> t.state \in TerminalStates
  /\ s.outcome = t.outcome

(* A step after which every call looks as it did is no step of the booth's.*)
LEMMA LooksTheSame ==
  ASSUME \A d \in Calls : LooksAlike(session'[d], session[d])
  PROVE  BoothLine' = BoothLine /\ BoothEnding' = BoothEnding /\ (Undecided => Undecided')
<1>1. \A d \in Calls : /\ Live(d)' <=> Live(d)
                       /\ Over(d)' <=> Over(d)
                       /\ session'[d].outcome = session[d].outcome
  BY DEF LooksAlike, Live, Over, IsOver
<1> QED
  BY <1>1 DEF BoothLine, BoothEnding, Undecided

(* A step after which only c looks different.                              *)
LEMMA OneLooksOther ==
  ASSUME NEW c \in Calls,
         \A d \in Calls \ {c} : LooksAlike(session'[d], session[d]),
         NEW at, at = IF Live(c)' THEN "live" ELSE IF Over(c)' THEN "over" ELSE "waiting",
         Undecided, ~Over(c)' => session'[c].outcome = "none"
  PROVE  /\ BoothLine' = [BoothLine EXCEPT ![c] = at]
         /\ BoothEnding' = [BoothEnding EXCEPT ![c] = session'[c].outcome]
         /\ Undecided'
<1>1. \A d \in Calls \ {c} : /\ Live(d)' <=> Live(d)
                             /\ Over(d)' <=> Over(d)
                             /\ session'[d].outcome = session[d].outcome
  BY DEF LooksAlike, Live, Over, IsOver
<1>2. ~(Live(c)' /\ Over(c)')
  BY DEF Live, Over, IsOver, LiveStates, TerminalStates
<1>3. BoothLine' = [BoothLine EXCEPT ![c] = at]
  <2> DEFINE Lines == {"waiting", "live", "over"}
  <2>1. /\ BoothLine \in [Calls -> Lines] /\ BoothLine' \in [Calls -> Lines]
        /\ at \in Lines
    BY DEF BoothLine, Live, Over, IsOver, LiveStates, TerminalStates
  <2>2. BoothLine'[c] = at
    BY <1>2 DEF BoothLine
  <2>3. \A d \in Calls \ {c} : BoothLine'[d] = BoothLine[d]
    BY <1>1 DEF BoothLine
  <2> QED
    BY <2>1, <2>2, <2>3
<1>4. BoothEnding' = [BoothEnding EXCEPT ![c] = session'[c].outcome]
  BY <1>1 DEF BoothEnding
<1>5. Undecided'
  BY <1>1 DEF Undecided
<1> QED
  BY <1>3, <1>4, <1>5

(* What the step of a call's task ends is a live call, and it is in view.  *)
LEMMA EndsInView ==
  ASSUME Inductive, Undecided, NEW c \in Calls, task[c] \in {"snapshot", "answer", "mode"},
         NEW s, session' = [session EXCEPT ![c] = s], UNCHANGED <<active, store>>,
         s.state \in TerminalStates, s.outcome \in Outcomes \ {"none"}
  PROVE  B!End(c) /\ Undecided'
<1>1. Live(c) /\ active = c
  <2>1. Live(c)
    BY DEF Inductive, StateFollowsTask, Live, LiveStates
  <2> QED
    BY <2>1 DEF Inductive, OneCaller
<1>2. session'[c] = s /\ \A d \in Calls \ {c} : session'[d] = session[d]
  BY DEF Inductive, TypeOK
<1>3. ~Live(c)' /\ Over(c)'
  BY <1>2 DEF Live, Over, IsOver, LiveStates, TerminalStates
<1>4. /\ BoothLine' = [BoothLine EXCEPT ![c] = "over"]
      /\ BoothEnding' = [BoothEnding EXCEPT ![c] = s.outcome]
      /\ Undecided'
  BY <1>2, <1>3, OneLooksOther DEF LooksAlike
<1>5. BoothLine[c] = "live" /\ BoothHistory' = BoothHistory
  BY <1>1 DEF BoothLine, BoothHistory, Over, Live, IsOver, LiveStates, TerminalStates
<1> QED
  BY <1>1, <1>4, <1>5 DEF B!End

(* Picking a call up, with the slot free.                                  *)
LEMMA PickedUpInView ==
  ASSUME Inductive, Undecided, NEW c \in Calls, AcceptCall(c)
  PROVE  B!PickUp(c) /\ Undecided'
<1>1. task[c] = "none" /\ session[c].state = "none" /\ session[c].outcome = "none"
  BY EventRead DEF AcceptCall, Inductive, StateFollowsTask, Undecided, Over, IsOver,
                   TerminalStates
<1>2. \A d \in Calls : ~Live(d)
  <2>1. \A d \in Calls : Live(d) => active = d /\ active # NoCall /\ ~Over(d)
    BY NoCallAssumption DEF Inductive, OneCaller, Live, Over, IsOver, LiveStates, TerminalStates
  <2> QED
    BY <2>1 DEF AcceptCall, Busy
<1>3. /\ session'[c].state = "answering" /\ session'[c].outcome = "none"
      /\ \A d \in Calls \ {c} : session'[d] = session[d]
      /\ active' = c /\ UNCHANGED store
  BY DEF AcceptCall, Inductive, TypeOK, NewSession, recordVars
<1>4. Live(c)' /\ ~Over(c)'
  BY <1>3 DEF Live, Over, IsOver, LiveStates, TerminalStates
<1>5. /\ BoothLine' = [BoothLine EXCEPT ![c] = "live"]
      /\ BoothEnding' = [BoothEnding EXCEPT ![c] = "none"]
      /\ Undecided'
  BY <1>3, <1>4, OneLooksOther DEF LooksAlike
<1>6. /\ BoothLine[c] = "waiting" /\ \A d \in Calls : BoothLine[d] # "live"
      /\ BoothEnding' = BoothEnding /\ BoothHistory' = BoothHistory
  BY <1>1, <1>2, <1>3, <1>5 DEF BoothLine, BoothEnding, BoothHistory, Over, IsOver,
                               TerminalStates
<1> QED
  BY <1>3, <1>5, <1>6 DEF B!PickUp

(* A call that is over, leaving the Console or not.                        *)
LEMMA LeavesView ==
  ASSUME Undecided, NEW c \in Calls, Over(c), UNCHANGED <<session, store>>,
         active' \in {active, IF active = c THEN NoCall ELSE active}
  PROVE  (B!Fade(c) \/ UNCHANGED B!vars) /\ Undecided'
<1>1. BoothLine' = BoothLine /\ BoothEnding' = BoothEnding /\ Undecided'
  BY LooksTheSame DEF LooksAlike
<1>2. BoothLine[c] = "over" /\ BoothHistory' = BoothHistory
  BY DEF BoothLine, BoothHistory, Over, IsOver, Live, LiveStates, TerminalStates
<1> QED
  BY <1>1, <1>2 DEF B!Fade, B!LetGo, B!vars

(* A finished call written down as it ended, or not at all.                *)
LEMMA WrittenInView ==
  ASSUME Inductive, Undecided, NEW c \in Calls, Persisted(c)
  PROVE  (B!Record(c) \/ B!Fade(c) \/ UNCHANGED B!vars) /\ Undecided'
<1>1. /\ Over(c) /\ UNCHANGED session
      /\ active' \in {active, IF active = c THEN NoCall ELSE active}
      /\ store' = store \/ store' = store \cup {ToRecord(c, session[c])}
  BY DEF Persisted, Resumes, AnnounceEnd, Inductive, StateFollowsTask
<1>2. CASE store' = store
  BY <1>1, <1>2, LeavesView
<1>3. CASE store' = store \cup {ToRecord(c, session[c])}
  <2>1. BoothLine' = BoothLine /\ BoothEnding' = BoothEnding /\ Undecided'
    BY <1>1, LooksTheSame DEF LooksAlike
  <2>2. BoothHistory' = BoothHistory \cup {<<c, BoothEnding[c]>>}
    <3>1. PICK row : row = ToRecord(c, session[c])
      OBVIOUS
    <3>2. row.call = c /\ row.outcome = BoothEnding[c]
      BY <3>1 DEF ToRecord, BoothEnding
    <3>3. store' = store \cup {row}
      BY <1>3, <3>1
    <3>4. BoothHistory' = BoothHistory \cup {<<row.call, row.outcome>>}
      BY <3>3 DEF BoothHistory
    <3> QED
      BY <3>2, <3>4
  <2>3. BoothLine[c] = "over"
    BY <1>1 DEF BoothLine, Over, IsOver, Live, LiveStates, TerminalStates
  <2> QED
    BY <1>1, <2>1, <2>2, <2>3 DEF B!Record, B!LetGo
<1> QED
  BY <1>1, <1>2, <1>3

(* The endings of a call's task are the ones the booth knows.              *)
LEMMA EndedInView ==
  ASSUME Inductive, OnCourse, Undecided, NEW c \in Calls,
         \/ SnapshotFails(c) \/ AnswerFails(c) \/ ModeReturned(c) \/ ModeRaised(c)
  PROVE  B!End(c) /\ Undecided'
<1>1. session[c] \in Sessions
  BY DEF Inductive, TypeOK
<1>2. CASE SnapshotFails(c) \/ AnswerFails(c) \/ ModeRaised(c)
  <2>1. /\ task[c] \in {"snapshot", "answer", "mode"} /\ Fail(c)
        /\ UNCHANGED <<active, store>>
    BY <1>2, CallbackTaken DEF SnapshotFails, AnswerFails, ModeRaised, Resumes, recordVars
  <2>2. /\ Abandon(session[c]).state \in TerminalStates
        /\ Abandon(session[c]).outcome \in Outcomes \ {"none"}
    BY <1>1 DEF Abandon, Sessions, TerminalStates, Outcomes
  <2> QED
    BY <2>1, <2>2, EndsInView DEF Fail
<1>3. CASE ModeReturned(c)
  <2>1. task[c] = "mode" /\ io[c] = "returned" /\ UNCHANGED <<active, store>>
    BY <1>3, CallbackTaken DEF ModeReturned, recordVars
  <2>2. flow[c].outcome \in FlowOutcomes \ {"none"}
    <3>1. flow[c].at = "end" /\ Played(flow[c]) /\ flow[c] \in Flow
      BY <2>1 DEF OnCourse, Course, StandsThere, PlaysOn, Inductive, TypeOK
    <3> QED
      BY <3>1 DEF Played, Decided, Flow
  <2>3. PICK s : s = Complete(session[c], flow[c].outcome, flow[c].tally)
    OBVIOUS
  <2>4. s.state \in TerminalStates /\ s.outcome \in Outcomes \ {"none"}
    BY <1>1, <2>2, <2>3 DEF Complete, StateByOutcome, Sessions, TerminalStates, Outcomes
  <2>5. session' = [session EXCEPT ![c] = s]
    BY <1>3, <2>3 DEF ModeReturned
  <2> QED
    BY <2>1, <2>4, <2>5, EndsInView
<1> QED
  BY <1>2, <1>3

(* Steps behind the Operator's back: sessions change where it does not     *)
(* show, or not at all.                                                    *)
LEMMA OutOfView ==
  ASSUME Inductive, Undecided, UNCHANGED <<active, store>>,
         \/ UNCHANGED session
         \/ \E c \in Calls : SnapshotTaken(c) \/ Answered(c) \/ ChannelGone(c) \/ RunProgress(c)
  PROVE  UNCHANGED B!vars /\ Undecided'
<1>1. \A d \in Calls : LooksAlike(session'[d], session[d])
  <2>1. session \in [Calls -> Sessions]
    BY DEF Inductive, TypeOK
  <2>2. CASE UNCHANGED session
    BY <2>2 DEF LooksAlike
  <2>3. ASSUME NEW c \in Calls, SnapshotTaken(c)
        PROVE  \A d \in Calls : LooksAlike(session'[d], session[d])
    BY <2>1, <2>3 DEF SnapshotTaken, LooksAlike, Sessions
  <2>4. ASSUME NEW c \in Calls, Answered(c)
        PROVE  \A d \in Calls : LooksAlike(session'[d], session[d])
    <3>1. session[c].state = "answering"
      BY <2>4 DEF Answered, Resumes, Inductive, StateFollowsTask
    <3> QED
      BY <2>1, <2>4, <3>1 DEF Answered, LooksAlike, Sessions, LiveStates, TerminalStates
  <2>5. ASSUME NEW c \in Calls, ChannelGone(c)
        PROVE  \A d \in Calls : LooksAlike(session'[d], session[d])
    BY <2>1, <2>5 DEF ChannelGone, LooksAlike, Sessions
  <2>6. ASSUME NEW c \in Calls, RunProgress(c)
        PROVE  \A d \in Calls : LooksAlike(session'[d], session[d])
    BY <2>1, <2>6 DEF RunProgress, Observed, LooksAlike, Sessions
  <2> QED
    BY <2>2, <2>3, <2>4, <2>5, <2>6
<1>2. BoothLine' = BoothLine /\ BoothEnding' = BoothEnding /\ Undecided'
  BY <1>1, LooksTheSame
<1> QED
  BY <1>2 DEF B!vars, BoothHistory

(* Every step of the engine is one of the booth's, or none.                *)
LEMMA StepsInView ==
  Inductive /\ OnCourse /\ Undecided /\ [Next]_vars => [B!Next]_(B!vars) /\ Undecided'
<1> SUFFICES ASSUME Inductive, OnCourse, Undecided, [Next]_vars
             PROVE  (B!Next \/ UNCHANGED B!vars) /\ Undecided'
  OBVIOUS
<1>1. CASE UNCHANGED vars
  BY <1>1, OutOfView DEF vars
<1>2. CASE Environment
  BY <1>2, OutOfView DEF Environment, Dial, HangUp, Keyed, SocketDrops, Stop, StopIdle, Close,
                         recordVars
<1>3. ASSUME NEW c \in Calls, AcceptCall(c) PROVE (B!Next \/ UNCHANGED B!vars) /\ Undecided'
  BY <1>3, PickedUpInView DEF B!Next
<1>4. CASE Reader \/ Reconnect \/ Drained
  BY <1>3, <1>4, OutOfView DEF Reader, RefuseCall, RefusalAnswered, ChannelGone, Reconnect,
                               Drained, Close, recordVars
<1>5. ASSUME NEW c \in Calls, CallTask(c) PROVE (B!Next \/ UNCHANGED B!vars) /\ Undecided'
  <2>1. CASE SnapshotTaken(c) \/ Answered(c)
    BY <2>1, OutOfView DEF SnapshotTaken, Answered, recordVars
  <2>2. CASE SnapshotFails(c) \/ AnswerFails(c) \/ ModeReturned(c) \/ ModeRaised(c)
    BY <2>2, EndedInView DEF B!Next
  <2>3. CASE TornDown(c)
    <3>1. /\ Over(c) /\ UNCHANGED <<session, store>>
          /\ active' \in {active, IF active = c THEN NoCall ELSE active}
      BY <2>3 DEF TornDown, Resumes, AnnounceEnd, Inductive, StateFollowsTask, recordVars
    <3> QED
      BY <3>1, LeavesView DEF B!Next
  <2>4. CASE Persisted(c)
    BY <2>4, WrittenInView DEF B!Next
  <2> QED
    BY <1>5, <2>1, <2>2, <2>3, <2>4 DEF CallTask
<1>6. ASSUME NEW c \in Calls, Worker(c) \/ Loop(c) PROVE UNCHANGED B!vars /\ Undecided'
  <2>1. CASE RunProgress(c)
    BY <2>1, OutOfView DEF RunProgress, recordVars
  <2>2. CASE Worker(c) \/ RunCommand(c) \/ ReadTimesOut(c)
    BY <2>2, OutOfView DEF Worker, ThreadAdvances, ThreadRaises, ThreadBreaks, RunCommand,
                           ReadTimesOut, recordVars
  <2> QED
    BY <1>6, <2>1, <2>2 DEF Loop
<1>7. ASSUME NEW c \in Calls, AfterglowEnds(c)
      PROVE  (B!Next \/ UNCHANGED B!vars) /\ Undecided'
  <2>1. /\ Over(c) /\ UNCHANGED <<session, store>>
        /\ active' \in {active, IF active = c THEN NoCall ELSE active}
    BY <1>7 DEF AfterglowEnds, Inductive, LingersWhenDone, StateFollowsTask, recordVars
  <2> QED
    BY <2>1, LeavesView DEF B!Next
<1> QED
  BY <1>1, <1>2, <1>4, <1>5, <1>6, <1>7 DEF Next, Engine

(* Booth's safety: the engine shows the Operator one call at a time, each  *)
(* with one ending, written down as it ended, for any number of calls and  *)
(* whatever fails.  (That every call ends is liveness, left to TLC.)       *)
THEOREM EngineIsABooth == Spec => B!Init /\ [][B!Next]_(B!vars)
<1>1. Init => B!Init /\ Undecided
  BY DEF Init, B!Init, B!NoEnding, BoothLine, BoothEnding, BoothHistory, NewSession, Live, Over, IsOver,
         LiveStates, TerminalStates, Undecided
<1>2. Inductive /\ OnCourse /\ Undecided /\ [Next]_vars => [B!Next]_(B!vars) /\ Undecided'
  BY StepsInView
<1> QED
  BY <1>1, <1>2, Invariance, CallsKeepCourse, PTL DEF Spec
=============================================================================
