--------------------------- MODULE AriClient_proofs ---------------------------
(***************************************************************************)
(* The safety of AriClient for any set of channels and any number of       *)
(* digits, commands and drops: ClientInductive is an invariant, and with   *)
(* it DigitsInOrder and PlaybackFlags, and from it SilentOnceEnded.        *)
(*                                                                         *)
(* An event on the wire says that something has happened and has not been  *)
(* heard of (Pending).  A step that emits, drops or hears an event is      *)
(* settled once for the wire, by the lemmas of the second section, and     *)
(* then for what the event is about.                                       *)
(***************************************************************************)
EXTENDS AriClient, SequenceTheorems, TLAPS

USE AriAssumption

-----------------------------------------------------------------------------
(* Sequences of digits.                                                    *)

(* A later digit goes to the end.                                          *)
LEMMA Appended ==
  ASSUME NEW h \in Seq(Nat), NEW q \in Seq(Nat), NEW n \in Nat,
         Rising(q), Below(h, q), Under(h, n), Under(q, n)
  PROVE  /\ Append(q, n) \in Seq(Nat)
         /\ Rising(Append(q, n)) /\ Below(h, Append(q, n))
         /\ \A m \in Nat : Under(q, m) /\ n < m => Under(Append(q, n), m)
         /\ \A d : Occurs(d, q) \/ d = n => Occurs(d, Append(q, n))
<1> DEFINE r == Append(q, n)
<1>1. /\ r \in Seq(Nat) /\ Len(r) = Len(q) + 1 /\ r[Len(q) + 1] = n /\ Len(q) \in Nat
      /\ \A i \in 1..Len(q) : r[i] = q[i] /\ q[i] \in Nat
      /\ \A i \in 1..Len(h) : h[i] \in Nat
  OBVIOUS
<1> HIDE DEF r
<1>2. \A i \in 1..Len(r) : i \in 1..Len(q) \/ i = Len(q) + 1
  BY <1>1
<1>3. Rising(r)
  <2> SUFFICES ASSUME NEW i \in 1..Len(r), NEW j \in 1..Len(r), i < j
               PROVE  r[i] < r[j]
    BY DEF Rising
  <2>1. i \in 1..Len(q)
    BY <1>1
  <2>2. CASE j \in 1..Len(q)
    BY <1>1, <2>1, <2>2 DEF Rising
  <2>3. CASE j = Len(q) + 1
    BY <1>1, <2>1, <2>3 DEF Under
  <2> QED
    BY <1>2, <2>2, <2>3
<1>4. Below(h, r)
  BY <1>1, <1>2 DEF Below, Under
<1>5. \A m \in Nat : Under(q, m) /\ n < m => Under(r, m)
  BY <1>1, <1>2 DEF Under
<1>6. \A d : Occurs(d, q) \/ d = n => Occurs(d, r)
  BY <1>1 DEF Occurs
<1> QED
  BY <1>1, <1>3, <1>4, <1>5, <1>6 DEF r

(* Moving the first k of q to the end of h loses and reorders nothing.     *)
LEMMA Moved ==
  ASSUME NEW h \in Seq(Nat), NEW q \in Seq(Nat), NEW k \in 0..Len(q),
         Rising(h), Rising(q), Below(h, q)
  PROVE  LET g == h \o SubSeq(q, 1, k) r == SubSeq(q, k + 1, Len(q)) IN
         /\ g \in Seq(Nat) /\ r \in Seq(Nat)
         /\ Rising(g) /\ Rising(r) /\ Below(g, r)
         /\ \A n \in Nat : Under(h, n) /\ Under(q, n) => Under(g, n) /\ Under(r, n)
         /\ \A d : Occurs(d, h) \/ Occurs(d, q) => Occurs(d, g) \/ Occurs(d, r)
<1> DEFINE t == SubSeq(q, 1, k)
           g == h \o t
           r == SubSeq(q, k + 1, Len(q))
<1>1. /\ Len(q) \in Nat /\ Len(h) \in Nat /\ k \in Nat /\ k <= Len(q)
      /\ \A i \in 1..Len(q) : q[i] \in Nat
      /\ \A i \in 1..Len(h) : h[i] \in Nat
  OBVIOUS
<1>2. t \in Seq(Nat) /\ Len(t) = k /\ \A i \in 1..k : t[i] = q[i]
  BY <1>1
<1>3. r \in Seq(Nat) /\ Len(r) = Len(q) - k /\ \A i \in 1..Len(q) - k : r[i] = q[k + i]
  BY <1>1
<1>4. /\ g \in Seq(Nat) /\ Len(g) = Len(h) + k
      /\ \A i \in 1..Len(h) : g[i] = h[i]
      /\ \A i \in 1..Len(h) + k : i > Len(h) => i - Len(h) \in 1..k /\ g[i] = q[i - Len(h)]
  <2> HIDE DEF t
  <2>1. g \in Seq(Nat) /\ Len(g) = Len(h) + Len(t)
    BY <1>2, ConcatProperties
  <2>2. \A i \in 1..Len(h) + Len(t) :
          g[i] = IF i <= Len(h) THEN h[i] ELSE t[i - Len(h)]
    BY <1>2, ConcatProperties
  <2>3. ASSUME NEW i \in 1..Len(h) + k, i > Len(h)
        PROVE  i - Len(h) \in 1..k /\ g[i] = q[i - Len(h)]
    <3>1. i - Len(h) \in 1..k
      BY <1>1, <2>3
    <3>2. g[i] = t[i - Len(h)]
      BY <1>1, <1>2, <2>2, <2>3
    <3> QED
      BY <1>2, <3>1, <3>2
  <2>4. \A i \in 1..Len(h) : g[i] = h[i]
    BY <1>1, <1>2, <2>2
  <2> QED
    BY <1>2, <2>1, <2>3, <2>4
<1> HIDE DEF t, g, r
<1>5. Rising(g)
  <2> SUFFICES ASSUME NEW i \in 1..Len(g), NEW j \in 1..Len(g), i < j
               PROVE  g[i] < g[j]
    BY DEF Rising
  <2>1. CASE j <= Len(h)
    <3>1. i \in 1..Len(h) /\ j \in 1..Len(h)
      BY <1>1, <2>1
    <3> QED
      BY <1>4, <3>1 DEF Rising
  <2>2. CASE j > Len(h)
    <3>1. j - Len(h) \in 1..Len(q) /\ g[j] = q[j - Len(h)]
      BY <1>1, <1>4, <2>2
    <3>2. CASE i <= Len(h)
      <4>1. i \in 1..Len(h)
        BY <3>2
      <4>2. h[i] < q[j - Len(h)]
        BY <3>1, <4>1 DEF Below
      <4> QED
        BY <1>4, <3>1, <4>1, <4>2
    <3>3. CASE i > Len(h)
      <4>1. i - Len(h) \in 1..Len(q) /\ g[i] = q[i - Len(h)]
        BY <1>1, <1>4, <3>3
      <4>2. i - Len(h) < j - Len(h)
        BY <1>1
      <4>3. q[i - Len(h)] < q[j - Len(h)]
        BY <3>1, <4>1, <4>2 DEF Rising
      <4> QED
        BY <3>1, <4>1, <4>3
    <3> QED
      BY <1>1, <3>2, <3>3
  <2> QED
    BY <1>1, <2>1, <2>2
<1>6. Rising(r)
  <2> SUFFICES ASSUME NEW i \in 1..Len(r), NEW j \in 1..Len(r), i < j
               PROVE  r[i] < r[j]
    BY DEF Rising
  <2>1. k + i \in 1..Len(q) /\ k + j \in 1..Len(q) /\ k + i < k + j
    BY <1>1, <1>3
  <2>2. r[i] = q[k + i] /\ r[j] = q[k + j]
    BY <1>3
  <2>3. q[k + i] < q[k + j]
    BY <2>1 DEF Rising
  <2> QED
    BY <2>2, <2>3
<1>7. Below(g, r)
  <2> SUFFICES ASSUME NEW i \in 1..Len(g), NEW j \in 1..Len(r)
               PROVE  g[i] < r[j]
    BY DEF Below
  <2>1. k + j \in 1..Len(q) /\ r[j] = q[k + j]
    BY <1>1, <1>3
  <2>2. CASE i <= Len(h)
    <3>1. i \in 1..Len(h)
      BY <2>2
    <3>2. h[i] < q[k + j]
      BY <2>1, <3>1 DEF Below
    <3> QED
      BY <1>4, <2>1, <3>1, <3>2
  <2>3. CASE i > Len(h)
    <3>1. i \in 1..Len(h) + k
      BY <1>4
    <3>2. i - Len(h) \in 1..k /\ g[i] = q[i - Len(h)]
      BY <1>4, <2>3, <3>1
    <3>3. i - Len(h) \in 1..Len(q) /\ i - Len(h) < k + j
      BY <1>1, <3>2
    <3>4. q[i - Len(h)] < q[k + j]
      BY <2>1, <3>3 DEF Rising
    <3> QED
      BY <2>1, <3>2, <3>4
  <2> QED
    BY <1>1, <1>4, <2>2, <2>3
<1>8. \A n \in Nat : Under(h, n) /\ Under(q, n) => Under(g, n) /\ Under(r, n)
  <2> SUFFICES ASSUME NEW n \in Nat, Under(h, n), Under(q, n)
               PROVE  Under(g, n) /\ Under(r, n)
    OBVIOUS
  <2>1. \A i \in 1..Len(r) : k + i \in 1..Len(q) /\ r[i] = q[k + i]
    BY <1>1, <1>3
  <2>2. \A i \in 1..Len(g) : \/ i \in 1..Len(h) /\ g[i] = h[i]
                             \/ i - Len(h) \in 1..Len(q) /\ g[i] = q[i - Len(h)]
    <3> SUFFICES ASSUME NEW i \in 1..Len(g)
                 PROVE  \/ i \in 1..Len(h) /\ g[i] = h[i]
                        \/ i - Len(h) \in 1..Len(q) /\ g[i] = q[i - Len(h)]
      OBVIOUS
    <3>1. i \in 1..Len(h) + k
      BY <1>4
    <3>2. CASE i <= Len(h)
      BY <1>1, <1>4, <3>1, <3>2
    <3>3. CASE i > Len(h)
      <4>1. i - Len(h) \in 1..k /\ g[i] = q[i - Len(h)]
        BY <1>4, <3>1, <3>3
      <4> QED
        BY <1>1, <4>1
    <3> QED
      BY <1>1, <3>1, <3>2, <3>3
  <2> QED
    BY <2>1, <2>2 DEF Under
<1>9. \A d : Occurs(d, h) \/ Occurs(d, q) => Occurs(d, g) \/ Occurs(d, r)
  <2>1. \A i \in 1..Len(h) : i \in 1..Len(g) /\ g[i] = h[i]
    BY <1>1, <1>4
  <2>2. \A i \in 1..Len(q) :
          \/ Len(h) + i \in 1..Len(g) /\ g[Len(h) + i] = q[i]
          \/ i - k \in 1..Len(r) /\ r[i - k] = q[i]
    <3> SUFFICES ASSUME NEW i \in 1..Len(q)
                 PROVE  \/ Len(h) + i \in 1..Len(g) /\ g[Len(h) + i] = q[i]
                        \/ i - k \in 1..Len(r) /\ r[i - k] = q[i]
      OBVIOUS
    <3>1. CASE i <= k
      <4>1. Len(h) + i \in 1..Len(h) + k /\ Len(h) + i > Len(h) /\ (Len(h) + i) - Len(h) = i
        BY <1>1, <3>1
      <4>2. g[Len(h) + i] = q[(Len(h) + i) - Len(h)] /\ Len(g) = Len(h) + k
        BY ONLY <1>4, <4>1
      <4> QED
        BY <4>1, <4>2
    <3>2. CASE i > k
      <4>1. i - k \in 1..Len(q) - k /\ k + (i - k) = i
        BY <1>1, <3>2
      <4> QED
        BY <1>3, <4>1
    <3> QED
      BY <1>1, <3>1, <3>2
  <2> QED
    BY <2>1, <2>2 DEF Occurs
<1> QED
  BY <1>2, <1>3, <1>4, <1>5, <1>6, <1>7, <1>8, <1>9 DEF g, r, t

-----------------------------------------------------------------------------
(* The wire.                                                               *)

(* An event goes to the end of the wire, or nowhere.                       *)
LEMMA Emitted ==
  ASSUME TypeOK, NEW e \in Events, Emit(e)
  PROVE  /\ wire' \in Seq(Events)
         /\ \A i \in 1..Len(wire) : i \in 1..Len(wire') /\ wire'[i] = wire[i]
         /\ \A i \in 1..Len(wire') :
              \/ i \in 1..Len(wire)
              \/ i = Len(wire) + 1 /\ wire'[i] = e
         /\ socket = "up" => Len(wire) + 1 \in 1..Len(wire') /\ wire'[Len(wire) + 1] = e
<1>1. wire \in Seq(Events) /\ Len(wire) \in Nat
  BY DEF TypeOK
<1>2. CASE socket = "up"
  <2>1. wire' = Append(wire, e)
    BY <1>2 DEF Emit
  <2> QED
    BY <1>1, <2>1
<1>3. CASE socket # "up"
  BY <1>1, <1>3 DEF Emit
<1> QED
  BY <1>2, <1>3

(* What is emitted must follow what is on the wire.                        *)
LEMMA EmitSound ==
  ASSUME TypeOK, WireSound, WireOrder, NEW e \in Events, Emit(e), Pending(e)',
         \A d \in Events : Pending(d) => Pending(d)' /\ Follows(d, e)
  PROVE  /\ WireSound' /\ WireOrder'
         /\ \A d : OnWire(d) => OnWire(d)'
         /\ \A d : OnWire(d)' => OnWire(d) \/ d = e
         /\ socket = "up" => OnWire(e)'
<1>1. wire \in Seq(Events) /\ Len(wire) \in Nat /\ \A i \in 1..Len(wire) : wire[i] \in Events
  BY DEF TypeOK
<1>2. /\ \A i \in 1..Len(wire) : i \in 1..Len(wire') /\ wire'[i] = wire[i]
      /\ \A i \in 1..Len(wire') : \/ i \in 1..Len(wire)
                                  \/ i = Len(wire) + 1 /\ wire'[i] = e
      /\ socket = "up" => Len(wire) + 1 \in 1..Len(wire') /\ wire'[Len(wire) + 1] = e
  BY Emitted
<1>3. WireSound'
  <2> SUFFICES ASSUME NEW i \in 1..Len(wire')
               PROVE  Pending(wire[i])'
    BY DEF WireSound
  <2>1. CASE i \in 1..Len(wire)
    <3>1. wire'[i] \in Events /\ wire'[i] = wire[i] /\ Pending(wire[i])
      BY <1>1, <1>2, <2>1 DEF WireSound
    <3> QED
      BY <3>1
  <2>2. CASE wire'[i] = e
    BY <2>2
  <2> QED
    BY <1>2, <2>1, <2>2
<1>4. WireOrder'
  <2> SUFFICES ASSUME NEW i \in 1..Len(wire'), NEW j \in 1..Len(wire'), i < j
               PROVE  Follows(wire'[i], wire'[j])
    BY DEF WireOrder
  <2>1. i \in 1..Len(wire) /\ wire'[i] = wire[i]
    BY <1>1, <1>2
  <2>2. CASE j \in 1..Len(wire)
    BY <1>2, <2>1, <2>2 DEF WireOrder
  <2>3. CASE wire'[j] = e
    BY <1>1, <2>1, <2>3 DEF WireSound
  <2> QED
    BY <1>2, <2>2, <2>3
<1>5. \A d : OnWire(d) => OnWire(d)'
  BY <1>2 DEF OnWire
<1>6. \A d : OnWire(d)' => OnWire(d) \/ d = e
  BY <1>2 DEF OnWire
<1>7. socket = "up" => OnWire(e)'
  BY <1>2 DEF OnWire
<1> QED
  BY <1>3, <1>4, <1>5, <1>6, <1>7

(* Hearing an event takes it, and nothing else, off the wire.              *)
LEMMA HeadGone ==
  ASSUME TypeOK, WireSound, WireOrder, wire # <<>>, wire' = Tail(wire)
  PROVE  /\ Head(wire) \in Events /\ Pending(Head(wire)) /\ OnWire(Head(wire))
         /\ wire' \in Seq(Events) /\ WireOrder'
         /\ \A i \in 1..Len(wire') : /\ wire'[i] \in Events /\ Pending(wire'[i])
                                     /\ Follows(Head(wire), wire'[i])
         /\ \A d : OnWire(d) /\ d # Head(wire) => OnWire(d)'
         /\ \A d : OnWire(d)' => OnWire(d) /\ Follows(Head(wire), d)
<1>1. /\ wire \in Seq(Events) /\ Len(wire) \in Nat \ {0} /\ Head(wire) = wire[1]
      /\ \A i \in 1..Len(wire) : wire[i] \in Events
  BY DEF TypeOK
<1>2. /\ wire' \in Seq(Events) /\ Len(wire') = Len(wire) - 1
      /\ \A i \in 1..Len(wire') : wire'[i] = wire[i + 1]
  BY <1>1, HeadTailProperties
<1>3. \A i \in 1..Len(wire') : i + 1 \in 1..Len(wire) /\ 1 < i + 1
  BY <1>1, <1>2
<1>4. 1 \in 1..Len(wire)
  BY <1>1
<1>5. WireOrder'
  <2> SUFFICES ASSUME NEW i \in 1..Len(wire'), NEW j \in 1..Len(wire'), i < j
               PROVE  Follows(wire'[i], wire'[j])
    BY DEF WireOrder
  <2>1. i + 1 < j + 1
    OBVIOUS
  <2>2. Follows(wire[i + 1], wire[j + 1])
    BY <1>3, <2>1 DEF WireOrder
  <2> QED
    BY <1>2, <2>2
<1>6. \A i \in 1..Len(wire') : /\ wire'[i] \in Events /\ Pending(wire'[i])
                               /\ Follows(Head(wire), wire'[i])
  BY <1>1, <1>2, <1>3, <1>4 DEF WireSound, WireOrder
<1>7. \A d : OnWire(d) /\ d # Head(wire) => OnWire(d)'
  <2> SUFFICES ASSUME NEW d, NEW i \in 1..Len(wire), wire[i] = d, d # Head(wire)
               PROVE  \E j \in 1..Len(wire') : wire'[j] = d
    BY DEF OnWire
  <2>1. i # 1
    BY <1>1
  <2>2. i - 1 \in 1..Len(wire') /\ (i - 1) + 1 = i
    BY <1>1, <1>2, <2>1
  <2> QED
    BY <1>2, <2>2
<1>8. \A d : OnWire(d)' => OnWire(d) /\ Follows(Head(wire), d)
  BY <1>2, <1>3, <1>6 DEF OnWire
<1> QED
  BY <1>1, <1>2, <1>4, <1>5, <1>6, <1>7, <1>8 DEF WireSound, OnWire

(* A wire that stays as it is, or loses its end.                           *)
LEMMA Trimmed ==
  ASSUME TypeOK, WireSound, WireOrder, NEW n \in 0..Len(wire), wire' = SubSeq(wire, 1, n),
         \A d \in Events : Pending(d) => Pending(d)'
  PROVE  wire' \in Seq(Events) /\ WireSound' /\ WireOrder' /\ \A d : OnWire(d)' => OnWire(d)
<1>1. /\ wire \in Seq(Events) /\ Len(wire) \in Nat
      /\ \A i \in 1..Len(wire) : wire[i] \in Events
  BY DEF TypeOK
<1>2. /\ wire' \in Seq(Events) /\ Len(wire') = n
      /\ \A i \in 1..n : i \in 1..Len(wire) /\ wire'[i] = wire[i]
  BY <1>1
<1>3. WireSound'
  BY <1>1, <1>2 DEF WireSound
<1>4. WireOrder'
  BY <1>1, <1>2 DEF WireOrder
<1> QED
  BY <1>2, <1>3, <1>4 DEF OnWire

LEMMA WireSame ==
  ASSUME WireSound, WireOrder, TypeOK, wire' = wire,
         \A d \in Events : Pending(d) => Pending(d)'
  PROVE  WireSound' /\ WireOrder' /\ \A d : OnWire(d)' <=> OnWire(d)
<1>1. \A i \in 1..Len(wire) : wire[i] \in Events
  BY DEF TypeOK
<1> QED
  BY <1>1 DEF WireSound, WireOrder, OnWire

-----------------------------------------------------------------------------
(* Types.                                                                  *)

LEMMA Pairs ==
  /\ \A p \in Playbacks : p[1] \in Channels /\ p[2] \in Nat /\ p = <<p[1], p[2]>>
  /\ \A c \in Channels, n \in 1..MaxCommands : <<c, n>> \in Playbacks
  /\ \A c \in Channels, n \in Nat : <<c, n>>[1] = c /\ <<c, n>>[2] = n
BY DEF Playbacks

(* Events are events.                                                      *)
LEMMA IsEvent ==
  ASSUME NEW c \in Channels, NEW n \in Nat,
         NEW k \in {"start", "digit", "finished", "end"}
  PROVE  /\ Event(k, c, n) \in Events
         /\ Event(k, c, n).kind = k /\ Event(k, c, n).channel = c /\ Event(k, c, n).n = n
BY DEF Event, Events

LEMMA OutsideTypes == ASSUME TypeOK, Outside PROVE TypeOK'
<1>1. ASSUME NEW c \in Channels, Enters(c) PROVE TypeOK'
  <2>1. wire' \in Seq(Events)
    BY <1>1, IsEvent, Emitted DEF Enters
  <2> QED
    BY <1>1, <2>1 DEF TypeOK, Enters, conn, queues, flags, worker
<1>2. ASSUME NEW c \in Channels, Keys(c) PROVE TypeOK'
  <2>1. keyed[c] + 1 \in 0..MaxDigits
    BY <1>2 DEF TypeOK, Keys
  <2>2. wire' \in Seq(Events)
    BY <1>2, <2>1, IsEvent, Emitted DEF Keys
  <2> QED
    BY <1>2, <2>1, <2>2 DEF TypeOK, Keys, conn, queues, flags, worker
<1>3. ASSUME NEW c \in Channels, HangsUp(c) PROVE TypeOK'
  <2>1. wire' \in Seq(Events)
    BY <1>3, IsEvent, Emitted DEF HangsUp, Departs
  <2> QED
    BY <1>3, <2>1 DEF TypeOK, HangsUp, Departs, conn, queues, flags, worker
<1>4. ASSUME NEW p \in Playbacks, PlaybackEnds(p) PROVE TypeOK'
  <2>1. wire' \in Seq(Events)
    BY <1>4, IsEvent, Pairs, Emitted DEF PlaybackEnds
  <2> QED
    BY <1>4, <2>1 DEF TypeOK, PlaybackEnds, conn, queues, flags, worker
<1>5. ASSUME SocketDrops PROVE TypeOK'
  <2>1. PICK n \in 0..Len(wire) : wire' = SubSeq(wire, 1, n)
    BY <1>5 DEF SocketDrops
  <2>2. wire' \in Seq(Events)
    BY <2>1 DEF TypeOK
  <2>3. drops' \in 0..MaxDrops
    BY <1>5 DEF SocketDrops, TypeOK
  <2> QED
    BY <1>5, <2>2, <2>3 DEF TypeOK, SocketDrops, asterisk, queues, flags, worker
<1> QED
  BY <1>1, <1>2, <1>3, <1>4, <1>5 DEF Outside

LEMMA ReaderTypes == ASSUME TypeOK, Reader \/ Close \/ CloseSession PROVE TypeOK'
<1>1. ASSUME NextEvent PROVE TypeOK'
  <2> DEFINE e == Head(wire)
  <2>1. e \in Events /\ wire' \in Seq(Events)
    BY <1>1 DEF TypeOK, NextEvent
  <2>2. e.channel \in Channels /\ e.n \in Nat
    BY <2>1 DEF Events
  <2> HIDE DEF e
  <2>3. ASSUME HearDigit(e) PROVE TypeOK'
    <3>1. Queue(e.channel) \in Seq(Nat)
      BY <2>2 DEF TypeOK, Queue
    <3>2. Append(Queue(e.channel), e.n) \in Seq(Nat)
      BY <2>2, <3>1
    <3> QED
      BY <1>1, <2>1, <2>2, <2>3, <3>2 DEF TypeOK, NextEvent, HearDigit, asterisk, conn, worker
  <2>4. ASSUME HearFinished(e) PROVE TypeOK'
    BY <1>1, <2>1, <2>2, <2>4 DEF TypeOK, NextEvent, HearFinished, asterisk, conn, worker
  <2>5. ASSUME HearEnd(e) PROVE TypeOK'
    BY <1>1, <2>1, <2>2, <2>5 DEF TypeOK, NextEvent, HearEnd, asterisk, conn, worker
  <2>6. ASSUME HearStart(e) PROVE TypeOK'
    BY <1>1, <2>1, <2>2, <2>6 DEF TypeOK, NextEvent, HearStart, asterisk, conn
  <2> QED
    BY <1>1, <2>3, <2>4, <2>5, <2>6 DEF NextEvent, e
<1>2. ASSUME NoticeDrop PROVE TypeOK'
  BY <1>2 DEF TypeOK, NoticeDrop, asterisk, queues, flags, worker
<1>3. ASSUME Reconnected PROVE TypeOK'
  BY <1>3 DEF TypeOK, Reconnected, asterisk, queues, flags, worker
<1>4. ASSUME ReconnectFails PROVE TypeOK'
  <2>1. delay' \in BaseDelay..MaxDelay
    BY <1>4 DEF TypeOK, ReconnectFails
  <2> QED
    BY <1>4, <2>1 DEF TypeOK, ReconnectFails, asterisk, queues, flags, worker
<1>5. ASSUME Close PROVE TypeOK'
  BY <1>5 DEF TypeOK, Close, asterisk, queues, flags, worker
<1>6. ASSUME CloseSession PROVE TypeOK'
  BY <1>6 DEF TypeOK, CloseSession, asterisk, queues, flags, worker
<1> QED
  BY <1>1, <1>2, <1>3, <1>4, <1>5, <1>6 DEF Reader

(* What the queues and the answer are left as by a read.                   *)
LEMMA TakesTypes ==
  ASSUME TypeOK, NEW c \in Channels, NEW q \in Seq(Nat), NEW n \in Nat, Takes(c, q, n)
  PROVE  /\ heard' \in [Channels -> Seq(Nat)] /\ box' \in [Channels -> Seq(Nat)]
         /\ left' \in [Channels -> Nat]
         /\ step' \in [Channels -> {"none", "idle", "asking", "answered", "waiting", "reading"}]
<1> DEFINE k == IF n < Len(q) THEN n ELSE Len(q)
<1>1. k \in 0..Len(q) /\ n - k \in Nat
  OBVIOUS
<1>2. heard[c] \o SubSeq(q, 1, k) \in Seq(Nat) /\ SubSeq(q, k + 1, Len(q)) \in Seq(Nat)
  <2> HIDE DEF k
  <2>1. SubSeq(q, 1, k) \in Seq(Nat) /\ SubSeq(q, k + 1, Len(q)) \in Seq(Nat)
    BY <1>1
  <2> QED
    BY <2>1, ConcatProperties DEF TypeOK
<1>3. /\ heard' = [heard EXCEPT ![c] = @ \o SubSeq(q, 1, k)]
      /\ box' = [box EXCEPT ![c] = SubSeq(q, k + 1, Len(q))]
      /\ left' = [left EXCEPT ![c] = n - k]
      /\ step' = [step EXCEPT ![c] = IF n = k THEN "idle" ELSE "reading"]
  BY DEF Takes
<1> HIDE DEF k
<1> QED
  BY <1>1, <1>2, <1>3 DEF TypeOK

LEMMA CommandTypes == ASSUME TypeOK, Commands PROVE TypeOK'
<1> SUFFICES ASSUME NEW c \in Channels, Ask(c) \/ Read(c) \/ RequestFails(c) \/ Completes(c)
             PROVE  TypeOK'
  BY DEF Commands
<1>1. ASSUME Ask(c) PROVE TypeOK'
  BY <1>1 DEF TypeOK, Ask, Ready, Requests, asterisk, conn, queues, flags
<1>2. ASSUME Read(c) PROVE TypeOK'
  <2>1. PICK n \in Lengths : Takes(c, Queue(c), n)
    BY <1>2 DEF Read
  <2>2. Queue(c) \in Seq(Nat)
    BY DEF TypeOK, Queue
  <2>3. n \in Nat
    OBVIOUS
  <2>4. /\ heard' \in [Channels -> Seq(Nat)] /\ box' \in [Channels -> Seq(Nat)]
        /\ left' \in [Channels -> Nat]
        /\ step' \in [Channels -> {"none", "idle", "asking", "answered", "waiting", "reading"}]
    BY <2>1, <2>2, <2>3, TakesTypes
  <2>5. issued' \in [Channels -> 0..MaxCommands] /\ listed' \subseteq Channels
    BY <1>2 DEF TypeOK, Read, Ready
  <2> QED
    BY <1>2, <2>4, <2>5 DEF TypeOK, Read, asterisk, conn, flags
<1>3. ASSUME Executed(c) PROVE TypeOK'
  <2>1. wire' \in Seq(Events)
    <3>1. CASE UNCHANGED wire
      BY <3>1 DEF TypeOK
    <3>2. CASE Departs(c)
      BY <3>2, IsEvent, Emitted DEF Departs
    <3> QED
      BY <1>3, <3>1, <3>2 DEF Executed
  <2>2. /\ chan' \in [Channels -> {"away", "stasis", "gone"}]
        /\ playback' \in [Playbacks -> {"unborn", "playing", "finished", "cut"}]
    <3>1. CASE op[c] = "play" /\ playback' = [playback EXCEPT ![Mine(c)] = "playing"]
               /\ UNCHANGED chan
      BY <3>1 DEF TypeOK
    <3>2. CASE Departs(c)
      BY <3>2 DEF Departs, TypeOK
    <3> QED
      BY <1>3, <3>1, <3>2 DEF Executed
  <2> QED
    BY <1>3, <2>1, <2>2 DEF TypeOK, Executed, conn, queues, flags
<1>4. ASSUME Replied(c) PROVE TypeOK'
  <2>1. /\ step' \in [Channels -> {"none", "idle", "asking", "answered", "waiting", "reading"}]
        /\ finished' \in [Playbacks -> {"none", "clear", "set"}]
    <3> DEFINE m == Mine(c)
    <3>1. CASE /\ step' = [step EXCEPT ![c] = "waiting"]
               /\ finished' = [finished EXCEPT ![m] = IF @ = "none" THEN "clear" ELSE @]
      <4>1. \A p \in Playbacks : finished'[p] \in {"none", "clear", "set"}
        BY <3>1 DEF TypeOK
      <4>2. finished' = [p \in Playbacks |-> finished'[p]]
        BY <3>1 DEF TypeOK
      <4> QED
        BY <3>1, <4>1, <4>2 DEF TypeOK
    <3>2. CASE step' = [step EXCEPT ![c] = "idle"] /\ UNCHANGED finished
      BY <3>2 DEF TypeOK
    <3> QED
      BY <1>4, <3>1, <3>2 DEF Replied
  <2> QED
    BY <1>4, <2>1 DEF TypeOK, Replied, asterisk, conn, queues
<1>5. ASSUME Raises(c), step[c] \in {"asking", "answered"} PROVE TypeOK'
  <2>1. givenUp' \subseteq Channels \X Nat
    BY <1>5 DEF TypeOK, Raises, Mine
  <2> QED
    BY <1>5, <2>1 DEF TypeOK, Raises, asterisk, conn, queues
<1>6. ASSUME Played(c) PROVE TypeOK'
  BY <1>6 DEF TypeOK, Played, asterisk, conn, queues
<1>7. ASSUME PlayTimesOut(c) PROVE TypeOK'
  <2>1. givenUp' \subseteq Channels \X Nat
    BY <1>7 DEF TypeOK, PlayTimesOut, Mine
  <2> QED
    BY <1>7, <2>1 DEF TypeOK, PlayTimesOut, asterisk, conn, queues
<1>8. ASSUME ReadWakes(c) PROVE TypeOK'
  <2>1. box[c] \in Seq(Nat) /\ left[c] \in Nat
    BY DEF TypeOK
  <2> QED
    BY <1>8, <2>1, TakesTypes DEF TypeOK, ReadWakes, asterisk, conn, flags
<1>9. ASSUME ReadTimesOut(c) PROVE TypeOK'
  BY <1>9 DEF TypeOK, ReadTimesOut, asterisk, conn, queues, flags
<1> QED
  BY <1>1, <1>2, <1>3, <1>4, <1>5, <1>6, <1>7, <1>8, <1>9
     DEF Completes, Refused, RequestFails, Unsendable

LEMMA TypeStep == ASSUME TypeOK, [Next]_vars PROVE TypeOK'
<1>1. CASE UNCHANGED vars
  BY <1>1 DEF TypeOK, vars, asterisk, conn, queues, flags, worker
<1> QED
  BY <1>1, OutsideTypes, ReaderTypes, CommandTypes DEF Next

-----------------------------------------------------------------------------
(* Which steps disturb what.                                               *)

DigitInv == QueueSound /\ DigitsInOrder
FlagInv  == WorkerSound /\ PlaybackFlags
WireInv  == WireSound /\ WireOrder

(* The end of a call stays heard of.                                       *)
LEMMA EndFrame ==
  ASSUME chan' = chan, \A d \in Events : OnWire(d)' => OnWire(d)
  PROVE  \A c \in Channels : EndHeard(c) => EndHeard(c)'
BY IsEvent DEF EndHeard

(* A step that neither keys nor moves a digit.                             *)
LEMMA DigitFrame ==
  ASSUME DigitInv, TypeOK, UNCHANGED <<keyed, queues>>, Deaf => Deaf',
         ~Deaf' => \A c \in Channels : EndHeard(c) => EndHeard(c)',
         ~Deaf' => \A d \in Events : OnWire(d) => OnWire(d)'
  PROVE  DigitInv'
<1>1. QueueSound'
  BY DEF DigitInv, QueueSound, queues
<1>2. ASSUME NEW c \in Channels
      PROVE  /\ Rising(heard'[c]) /\ Rising(box'[c]) /\ Below(heard'[c], box'[c])
  BY DEF DigitInv, DigitsInOrder, queues
<1>3. ASSUME NEW c \in Channels, ~Deaf', ~EndHeard(c)', NEW d \in 1..keyed'[c]
      PROVE  Occurs(d, heard'[c]) \/ Occurs(d, box'[c]) \/ OnWire(Event("digit", c, d))'
  <2>1. ~Deaf /\ ~EndHeard(c) /\ d \in 1..keyed[c] /\ d \in Nat
    BY <1>3 DEF TypeOK
  <2>2. Occurs(d, heard[c]) \/ Occurs(d, box[c]) \/ OnWire(Event("digit", c, d))
    BY <2>1 DEF DigitInv, DigitsInOrder
  <2>3. Event("digit", c, d) \in Events
    BY <2>1, IsEvent
  <2> QED
    BY <1>3, <2>2, <2>3 DEF queues
<1> QED
  BY <1>1, <1>2, <1>3 DEF DigitInv, DigitsInOrder

(* A step that no playback, worker or flag takes part in.                  *)
LEMMA FlagFrame ==
  ASSUME FlagInv, UNCHANGED <<playback, flags, worker>>, Deaf => Deaf',
         \A c \in Channels : chan'[c] = "away" => chan[c] = "away",
         ~Deaf' => \A d \in Events : d.kind = "finished" /\ OnWire(d) => OnWire(d)'
  PROVE  FlagInv'
<1>1. WorkerSound'
  BY DEF FlagInv, WorkerSound, Awaited, flags, worker
<1>2. ASSUME NEW p \in Playbacks, Awaited(p)', playback'[p] = "finished", ~Deaf'
      PROVE  finished'[p] = "set" \/ OnWire(Event("finished", p[1], p[2]))'
  <2>1. Awaited(p) /\ playback[p] = "finished" /\ ~Deaf
    BY <1>2 DEF Awaited, worker
  <2>2. finished[p] = "set" \/ OnWire(Event("finished", p[1], p[2]))
    BY <2>1 DEF FlagInv, PlaybackFlags
  <2>3. /\ Event("finished", p[1], p[2]) \in Events
        /\ Event("finished", p[1], p[2]).kind = "finished"
    BY Pairs, IsEvent
  <2> QED
    BY <1>2, <2>2, <2>3 DEF flags
<1>3. ASSUME NEW p \in Playbacks
      PROVE  /\ finished'[p] = "set" => playback'[p] = "finished"
             /\ finished'[p] # "none" => p \in givenUp' \/ Awaited(p)'
  BY DEF FlagInv, PlaybackFlags, Awaited, flags, worker
<1> QED
  BY <1>1, <1>2, <1>3 DEF FlagInv, PlaybackFlags

(* A step that nothing on the wire is about.                               *)
LEMMA PendingFrame ==
  ASSUME UNCHANGED <<asterisk, heard, box, flags, worker>>
  PROVE  \A d \in Events : Pending(d) => Pending(d)'
BY DEF Pending, Awaited, asterisk, flags, worker

-----------------------------------------------------------------------------
(* The connection: reader and socket.                                      *)

LEMMA LinkStep == ASSUME LinkSound, [Next]_vars, TypeOK PROVE LinkSound'
<1>1. ASSUME UNCHANGED <<wire, conn>> PROVE LinkSound'
  BY <1>1 DEF LinkSound, Deaf, conn
<1>2. ASSUME NEW e, Emit(e), UNCHANGED conn PROVE LinkSound'
  BY <1>2 DEF LinkSound, Deaf, conn, Emit
<1>3. ASSUME SocketDrops PROVE LinkSound'
  BY <1>3 DEF LinkSound, Deaf, SocketDrops, TypeOK
<1>4. ASSUME NextEvent PROVE LinkSound'
  BY <1>4 DEF LinkSound, Deaf, NextEvent, conn
<1>5. ASSUME NoticeDrop PROVE LinkSound'
  BY <1>5 DEF LinkSound, Deaf, NoticeDrop
<1>6. ASSUME Reconnected PROVE LinkSound'
  BY <1>6 DEF LinkSound, Deaf, Reconnected
<1>7. ASSUME ReconnectFails PROVE LinkSound'
  BY <1>7 DEF LinkSound, Deaf, ReconnectFails
<1>8. ASSUME Close PROVE LinkSound'
  BY <1>8 DEF LinkSound, Deaf, Close
<1>9. ASSUME CloseSession PROVE LinkSound'
  BY <1>9 DEF LinkSound, Deaf, CloseSession
<1>10. ASSUME Outside PROVE LinkSound'
  BY <1>2, <1>3, <1>10 DEF Outside, Enters, Keys, HangsUp, Departs, PlaybackEnds
<1>11. ASSUME Commands PROVE LinkSound'
  <2> PICK c \in Channels : Ask(c) \/ Read(c) \/ RequestFails(c) \/ Completes(c)
    BY <1>11 DEF Commands
  <2>1. CASE Executed(c)
    BY <1>1, <1>2, <2>1 DEF Executed, Departs
  <2>2. CASE ~Executed(c)
    BY <1>1, <2>2 DEF Ask, Read, RequestFails, Completes, Replied, Refused, Unsendable,
                      Raises, Played, PlayTimesOut, ReadWakes, ReadTimesOut
  <2> QED
    BY <2>1, <2>2
<1>12. ASSUME UNCHANGED vars PROVE LinkSound'
  BY <1>1, <1>12 DEF vars
<1> QED
  BY <1>4, <1>5, <1>6, <1>7, <1>8, <1>9, <1>10, <1>11, <1>12 DEF Next, Reader

(* Losing the connection, and getting it back, disturbs nothing else.      *)
LEMMA ConnectionStep ==
  ASSUME ClientInductive,
         SocketDrops \/ NoticeDrop \/ Reconnected \/ ReconnectFails \/ Close \/ CloseSession
  PROVE  WireInv' /\ DigitInv' /\ FlagInv'
<1>1. UNCHANGED <<asterisk, queues, flags, worker>>
  BY DEF SocketDrops, NoticeDrop, Reconnected, ReconnectFails, Close, CloseSession
<1>2. \A d \in Events : Pending(d) => Pending(d)'
  BY <1>1, PendingFrame DEF queues
<1>3. WireInv' /\ (\A d : OnWire(d)' => OnWire(d)) /\ (UNCHANGED wire \/ Deaf')
  <2>1. CASE UNCHANGED wire
    BY <1>2, <2>1, WireSame DEF ClientInductive, WireInv
  <2>2. CASE SocketDrops
    <3>1. PICK n \in 0..Len(wire) : wire' = SubSeq(wire, 1, n)
      BY <2>2 DEF SocketDrops
    <3>2. Deaf'
      BY <2>2 DEF SocketDrops, Deaf, ClientInductive, TypeOK
    <3> QED
      BY <1>2, <3>1, <3>2, Trimmed DEF ClientInductive, WireInv
  <2>3. CASE Close
    <3>1. Len(wire') = 0 /\ Deaf'
      BY <2>3 DEF Close, Deaf
    <3> QED
      BY <3>1 DEF WireInv, WireSound, WireOrder, OnWire
  <2> QED
    BY <2>1, <2>2, <2>3 DEF NoticeDrop, Reconnected, ReconnectFails, CloseSession
<1>4. Deaf => Deaf'
  BY DEF SocketDrops, NoticeDrop, Reconnected, ReconnectFails, Close, CloseSession, Deaf,
         ClientInductive, TypeOK
<1>5. ~Deaf' => \A d : OnWire(d) <=> OnWire(d)'
  BY <1>3 DEF OnWire
<1>6. \A c \in Channels : EndHeard(c) => EndHeard(c)'
  BY <1>1, <1>3, EndFrame DEF asterisk
<1>7. DigitInv'
  BY <1>1, <1>4, <1>5, <1>6, DigitFrame DEF ClientInductive, DigitInv, asterisk
<1>8. FlagInv'
  BY <1>1, <1>4, <1>5, FlagFrame DEF ClientInductive, FlagInv, asterisk
<1> QED
  BY <1>3, <1>7, <1>8

-----------------------------------------------------------------------------
(* The caller and Asterisk.                                                *)

LEMMA EntersStep ==
  ASSUME ClientInductive, NEW c \in Channels, Enters(c)
  PROVE  WireInv' /\ DigitInv' /\ FlagInv'
<1> DEFINE e == Event("start", c, 0)
<1>1. e \in Events /\ e.kind = "start" /\ e.channel = c /\ e.n = 0
  BY IsEvent
<1> HIDE DEF e
<1>2. Emit(e) /\ UNCHANGED <<keyed, playback, conn, queues, flags, worker>>
  BY DEF Enters, e
<1>3. chan[c] = "away" /\ chan' = [chan EXCEPT ![c] = "stasis"] /\ chan'[c] = "stasis"
  BY DEF Enters, ClientInductive, TypeOK
<1>4. \A d \in Channels : (chan'[d] = "away" => chan[d] = "away")
                          /\ (chan[d] = "gone" <=> chan'[d] = "gone")
  BY <1>3 DEF ClientInductive, TypeOK
<1>5. \A d \in Events : d.channel \in Channels
  BY DEF Events
<1>6. ASSUME NEW d \in Events, Pending(d)
      PROVE  Pending(d)' /\ Follows(d, e)
  <2>1. Pending(d)'
    BY <1>2, <1>4, <1>5, <1>6 DEF Pending, Awaited, queues, flags, worker
  <2>2. ~(d.kind = "start" /\ d.channel = c)
    BY <1>3, <1>6 DEF Pending
  <2> QED
    BY <1>1, <2>1, <2>2 DEF Follows
<1>7. Pending(e)'
  <2>1. step[c] = "none" /\ step' = step
    BY <1>2, <1>3 DEF ClientInductive, WorkerSound, worker
  <2> QED
    BY <1>1, <1>3, <2>1 DEF Pending
<1>8. WireInv' /\ (\A d : OnWire(d) => OnWire(d)') /\ (\A d : OnWire(d)' => OnWire(d) \/ d = e)
  BY <1>1, <1>2, <1>6, <1>7, EmitSound DEF ClientInductive, WireInv
<1>9. Deaf <=> Deaf'
  BY <1>2 DEF Deaf, conn
<1>10. \A d \in Channels : EndHeard(d) => EndHeard(d)'
  BY <1>1, <1>4, <1>8, IsEvent DEF EndHeard
<1>11. DigitInv'
  BY <1>2, <1>8, <1>9, <1>10, DigitFrame DEF ClientInductive, DigitInv
<1>12. FlagInv'
  BY <1>2, <1>4, <1>8, <1>9, FlagFrame DEF ClientInductive, FlagInv
<1> QED
  BY <1>8, <1>11, <1>12

LEMMA KeysStep ==
  ASSUME ClientInductive, NEW c \in Channels, Keys(c)
  PROVE  WireInv' /\ DigitInv' /\ FlagInv'
<1>0. keyed[c] \in Nat
  BY DEF ClientInductive, TypeOK
<1> PICK n \in Nat : n = keyed[c] + 1
  BY <1>0
<1> DEFINE e == Event("digit", c, n)
<1>1. n = keyed[c] + 1
  OBVIOUS
<1>2. e \in Events /\ e.kind = "digit" /\ e.channel = c /\ e.n = n
  BY <1>1, IsEvent
<1>3. Emit(e) /\ UNCHANGED <<chan, playback, conn, queues, flags, worker>>
  BY <1>1 DEF Keys
<1>4. /\ keyed' = [keyed EXCEPT ![c] = n] /\ keyed'[c] = n
      /\ \A d \in Channels : keyed[d] \in Nat /\ keyed'[d] \in Nat /\ keyed[d] <= keyed'[d]
  BY <1>0, <1>1 DEF Keys, ClientInductive, TypeOK
<1>5. UNCHANGED <<listed, box, heard>>
  BY <1>3 DEF queues
<1> HIDE DEF e
<1>6. \A d \in Events : d.channel \in Channels /\ d.n \in Nat
  BY DEF Events
<1>7. ASSUME NEW d \in Events, Pending(d)
      PROVE  Pending(d)' /\ Follows(d, e)
  <2>1. d.kind = "digit" => d.n \in 1..keyed'[d.channel]
    BY <1>4, <1>6, <1>7 DEF Pending
  <2>2. Pending(d)'
    BY <1>3, <1>5, <1>7, <2>1 DEF Pending, Awaited, flags, worker
  <2>3. d.kind = "digit" /\ d.channel = c => d.n < n
    BY <1>0, <1>1, <1>6, <1>7 DEF Pending
  <2>4. d.kind = "end" => d.channel # c
    <3>1. chan[c] = "stasis"
      BY DEF Keys
    <3> QED
      BY <1>7, <3>1 DEF Pending
  <2> QED
    BY <1>2, <2>2, <2>3, <2>4 DEF Follows
<1>8. Pending(e)'
  <2>1. n \in 1..keyed'[c]
    BY <1>0, <1>1, <1>4
  <2>2. Under(heard'[c], n) /\ Under(box'[c], n)
    BY <1>1, <1>5 DEF ClientInductive, QueueSound
  <2> QED
    BY <1>2, <2>1, <2>2 DEF Pending
<1>9. /\ WireInv' /\ (\A d : OnWire(d) => OnWire(d)') /\ (\A d : OnWire(d)' => OnWire(d) \/ d = e)
      /\ socket = "up" => OnWire(e)'
  BY <1>2, <1>3, <1>7, <1>8, EmitSound DEF ClientInductive, WireInv
<1>10. Deaf <=> Deaf'
  BY <1>3 DEF Deaf, conn
<1>11. \A d \in Channels : EndHeard(d) => EndHeard(d)'
  BY <1>2, <1>3, <1>9, IsEvent DEF EndHeard
<1>12. QueueSound'
  <2> SUFFICES ASSUME NEW d \in Channels
               PROVE  /\ Under(heard'[d], keyed'[d] + 1) /\ Under(box'[d], keyed'[d] + 1)
                      /\ d \notin listed' /\ ~Deaf' /\ ~EndHeard(d)' => box'[d] = <<>>
    BY DEF QueueSound
  <2>1. Under(heard[d], keyed[d] + 1) /\ Under(box[d], keyed[d] + 1)
    BY DEF ClientInductive, QueueSound
  <2>2. /\ \A i \in 1..Len(heard[d]) : heard[d][i] \in Nat
        /\ \A i \in 1..Len(box[d]) : box[d][i] \in Nat
    <3>1. heard[d] \in Seq(Nat) /\ box[d] \in Seq(Nat)
      BY DEF ClientInductive, TypeOK
    <3> QED
      BY <3>1
  <2>3. Under(heard[d], keyed'[d] + 1) /\ Under(box[d], keyed'[d] + 1)
    BY <1>4, <2>1, <2>2 DEF Under
  <2> QED
    BY <1>5, <1>10, <1>11, <2>3 DEF ClientInductive, QueueSound
<1>13. DigitsInOrder'
  <2>1. ASSUME NEW d \in Channels
        PROVE  Rising(heard'[d]) /\ Rising(box'[d]) /\ Below(heard'[d], box'[d])
    BY <1>5 DEF ClientInductive, DigitsInOrder
  <2>2. ASSUME NEW d \in Channels, ~Deaf', ~EndHeard(d)', NEW k \in 1..keyed'[d]
        PROVE  Occurs(k, heard'[d]) \/ Occurs(k, box'[d]) \/ OnWire(Event("digit", d, k))'
    <3>1. CASE k \in 1..keyed[d]
      BY <1>5, <1>9, <1>10, <1>11, <2>2, <3>1 DEF ClientInductive, DigitsInOrder
    <3>2. CASE k \notin 1..keyed[d]
      <4>1. d = c /\ k = n
        BY <1>0, <1>1, <1>4, <2>2, <3>2 DEF ClientInductive, TypeOK
      <4>2. socket = "up"
        BY <1>10, <2>2 DEF ClientInductive, LinkSound, TypeOK
      <4> QED
        BY <1>9, <4>1, <4>2 DEF e
    <3> QED
      BY <3>1, <3>2
  <2> QED
    BY <2>1, <2>2 DEF DigitsInOrder
<1>14. FlagInv'
  BY <1>3, <1>9, <1>10, FlagFrame DEF ClientInductive, FlagInv
<1> QED
  BY <1>9, <1>12, <1>13, <1>14 DEF DigitInv

LEMMA PlaybackEndsStep ==
  ASSUME ClientInductive, NEW p \in Playbacks, PlaybackEnds(p)
  PROVE  WireInv' /\ DigitInv' /\ FlagInv'
<1> DEFINE e == Event("finished", p[1], p[2])
<1>1. /\ e \in Events /\ e.kind = "finished" /\ e.channel = p[1] /\ e.n = p[2]
      /\ <<e.channel, e.n>> = p
  BY IsEvent, Pairs
<1>2. Emit(e) /\ UNCHANGED <<chan, keyed, conn, queues, flags, worker>>
  BY DEF PlaybackEnds
<1> HIDE DEF e
<1>3. /\ playback[p] = "playing" /\ playback'[p] = "finished"
      /\ \A q \in Playbacks : q # p => playback'[q] = playback[q]
  BY DEF PlaybackEnds, ClientInductive, TypeOK
<1>4. ASSUME NEW d \in Events, Pending(d)
      PROVE  Pending(d)' /\ Follows(d, e)
  <2>1. Pending(d)'
    BY <1>2, <1>3, <1>4 DEF Pending, Awaited, queues, flags, worker
  <2>2. d # e
    BY <1>1, <1>3, <1>4 DEF Pending
  <2> QED
    BY <1>1, <2>1, <2>2 DEF Follows
<1>5. finished[p] # "set" /\ finished' = finished
  BY <1>2, <1>3 DEF ClientInductive, PlaybackFlags, flags
<1>6. Pending(e)'
  <2>1. p \in givenUp \/ Awaited(p)
    BY <1>3 DEF ClientInductive, WorkerSound
  <2>2. p \in givenUp' \/ Awaited(p)'
    BY <1>2, <2>1 DEF Awaited, flags, worker
  <2> QED
    BY <1>1, <1>3, <1>5, <2>2 DEF Pending
<1>7. /\ WireInv' /\ (\A d : OnWire(d) => OnWire(d)') /\ (\A d : OnWire(d)' => OnWire(d) \/ d = e)
      /\ socket = "up" => OnWire(e)'
  BY <1>1, <1>2, <1>4, <1>6, EmitSound DEF ClientInductive, WireInv
<1>8. (Deaf <=> Deaf') /\ (~Deaf => socket = "up")
  BY <1>2 DEF Deaf, conn, ClientInductive, LinkSound, TypeOK
<1>9. \A d \in Channels : EndHeard(d) => EndHeard(d)'
  BY <1>1, <1>2, <1>7, IsEvent DEF EndHeard
<1>10. DigitInv'
  BY <1>2, <1>7, <1>8, <1>9, DigitFrame DEF ClientInductive, DigitInv
<1>11. WorkerSound'
  BY <1>2, <1>3 DEF ClientInductive, WorkerSound, Awaited, flags, worker
<1>12. PlaybackFlags'
  <2> SUFFICES ASSUME NEW q \in Playbacks
               PROVE  /\ Awaited(q)' /\ playback'[q] = "finished" /\ ~Deaf' =>
                           \/ finished'[q] = "set"
                           \/ OnWire(Event("finished", q[1], q[2]))'
                      /\ finished'[q] = "set" => playback'[q] = "finished"
                      /\ finished'[q] # "none" => q \in givenUp' \/ Awaited(q)'
    BY DEF PlaybackFlags
  <2>1. CASE q = p
    BY <1>2, <1>3, <1>7, <1>8, <2>1 DEF ClientInductive, PlaybackFlags, Awaited, flags, worker, e
  <2>2. CASE q # p
    BY <1>2, <1>3, <1>7, <1>8, <2>2 DEF ClientInductive, PlaybackFlags, Awaited, flags, worker
  <2> QED
    BY <2>1, <2>2
<1> QED
  BY <1>7, <1>10, <1>11, <1>12 DEF FlagInv

(* Leaving Stasis, on the caller's account or on request: the playbacks    *)
(* cut off were awaited or given up on, and stay so.                       *)
LEMMA DepartsStep ==
  ASSUME ClientInductive, NEW c \in Channels, chan[c] = "stasis", Departs(c),
         UNCHANGED <<keyed, conn, queues, flags, op, issued>>,
         \/ UNCHANGED step
         \/ /\ step[c] = "asking" /\ op[c] = "leave"
            /\ step' = [step EXCEPT ![c] = "answered"]
  PROVE  WireInv' /\ DigitInv' /\ FlagInv'
<1> DEFINE e == Event("end", c, 0)
<1>1. e \in Events /\ e.kind = "end" /\ e.channel = c /\ e.n = 0
  BY IsEvent
<1>2. Emit(e)
  BY DEF Departs
<1> HIDE DEF e
<1>3. /\ chan'[c] = "gone"
      /\ \A d \in Channels : d # c => chan'[d] = chan[d]
  BY DEF Departs, ClientInductive, TypeOK
<1>4. \A p \in Playbacks :
        \/ playback'[p] = playback[p]
        \/ playback[p] = "playing" /\ playback'[p] = "cut"
  BY DEF Departs, ClientInductive, TypeOK
<1>5. /\ \A p \in Playbacks : Awaited(p) <=> Awaited(p)'
      /\ \A d \in Channels : step'[d] = "none" <=> step[d] = "none"
      /\ \A d \in Channels : step'[d] = "asking" => step[d] = "asking"
  <2>1. CASE UNCHANGED step
    BY <2>1 DEF Awaited
  <2>2. CASE /\ step[c] = "asking" /\ op[c] = "leave"
             /\ step' = [step EXCEPT ![c] = "answered"]
    <3>1. step'[c] = "answered" /\ \A d \in Channels : d # c => step'[d] = step[d]
      BY <2>2 DEF ClientInductive, TypeOK
    <3> QED
      BY <2>2, <3>1, Pairs DEF Awaited
  <2> QED
    BY <2>1, <2>2
<1>6. \A d \in Events : d.channel \in Channels
  BY DEF Events
<1>7. ASSUME NEW d \in Events, Pending(d)
      PROVE  Pending(d)' /\ Follows(d, e)
  <2>1. Pending(d)'
    BY <1>3, <1>4, <1>5, <1>6, <1>7 DEF Pending, queues, flags
  <2>2. d # e
    BY <1>1, <1>7 DEF Pending
  <2> QED
    BY <1>1, <2>1, <2>2 DEF Follows
<1>8. Pending(e)'
  BY <1>1, <1>3 DEF Pending
<1>9. WireInv' /\ (\A d : OnWire(d) => OnWire(d)') /\ (\A d : OnWire(d)' => OnWire(d) \/ d = e)
  BY <1>1, <1>2, <1>7, <1>8, EmitSound DEF ClientInductive, WireInv
<1>10. Deaf <=> Deaf'
  BY DEF Deaf, conn
<1>11. \A d \in Channels : EndHeard(d) => EndHeard(d)'
  <2> SUFFICES ASSUME NEW d \in Channels, EndHeard(d) PROVE EndHeard(d)'
    OBVIOUS
  <2>1. d # c
    BY DEF EndHeard
  <2>2. Event("end", d, 0) # e
    BY <1>1, <2>1, IsEvent
  <2> QED
    BY <1>3, <1>9, <2>1, <2>2 DEF EndHeard
<1>12. DigitInv'
  BY <1>9, <1>10, <1>11, DigitFrame DEF ClientInductive, DigitInv
<1>13. WorkerSound'
  <2>1. \A d \in Channels : chan'[d] = "away" => step'[d] = "none"
    BY <1>3, <1>5 DEF ClientInductive, WorkerSound
  <2>2. ASSUME NEW p \in Playbacks, playback'[p] # "unborn"
        PROVE  p[2] <= issued'[p[1]] /\ (p[2] = issued'[p[1]] => step'[p[1]] # "asking")
    <3>1. playback[p] # "unborn"
      BY <1>4, <2>2
    <3> QED
      BY <1>5, <3>1, Pairs DEF ClientInductive, WorkerSound
  <2>3. ASSUME NEW p \in Playbacks, playback'[p] = "playing"
        PROVE  p \in givenUp' \/ Awaited(p)'
    BY <1>4, <1>5, <2>3 DEF ClientInductive, WorkerSound, flags
  <2> QED
    BY <2>1, <2>2, <2>3 DEF WorkerSound
<1>14. PlaybackFlags'
  <2> SUFFICES ASSUME NEW q \in Playbacks
               PROVE  /\ Awaited(q)' /\ playback'[q] = "finished" /\ ~Deaf' =>
                           \/ finished'[q] = "set"
                           \/ OnWire(Event("finished", q[1], q[2]))'
                      /\ finished'[q] = "set" => playback'[q] = "finished"
                      /\ finished'[q] # "none" => q \in givenUp' \/ Awaited(q)'
    BY DEF PlaybackFlags
  <2> QED
    BY <1>4, <1>5, <1>9, <1>10 DEF ClientInductive, PlaybackFlags, flags
<1> QED
  BY <1>9, <1>12, <1>13, <1>14 DEF FlagInv

-----------------------------------------------------------------------------
(* The reader hears an event.                                              *)

(* What a digit, a playback's end or a start leaves of the other events.   *)
LEMMA HeardStep ==
  ASSUME ClientInductive, NEW e \in Events, wire # <<>>, e = Head(wire), wire' = Tail(wire),
         \A d \in Events : Pending(d) /\ Follows(e, d) => Pending(d)'
  PROVE  /\ WireInv'
         /\ \A d \in Events : OnWire(d) /\ d # e => OnWire(d)'
         /\ \A d \in Events : OnWire(d)' => OnWire(d) /\ Follows(e, d)
<1>1. WireSound'
  <2> SUFFICES ASSUME NEW i \in 1..Len(wire') PROVE Pending(wire[i])'
    BY DEF WireSound
  <2>1. wire'[i] \in Events /\ Pending(wire'[i]) /\ Follows(e, wire'[i])
    BY HeadGone DEF ClientInductive
  <2> QED
    BY <2>1
<1> QED
  BY <1>1, HeadGone DEF ClientInductive, WireInv

LEMMA HearDigitStep ==
  ASSUME ClientInductive, NEW e \in Events, wire # <<>>, e = Head(wire), wire' = Tail(wire),
         e.kind = "digit", HearDigit(e), UNCHANGED <<asterisk, conn, heard, givenUp>>
  PROVE  WireInv' /\ DigitInv' /\ FlagInv'
<1> PICK c \in Channels, n \in Nat : e.channel = c /\ e.n = n /\ e = Event("digit", c, n)
  BY DEF Events, Event
<1>1. Pending(e) /\ OnWire(e)
  BY HeadGone DEF ClientInductive
<1>2. /\ n \in 1..keyed[c] /\ Under(heard[c], n) /\ Under(box[c], n)
      /\ heard[c] \in Seq(Nat) /\ box[c] \in Seq(Nat) /\ keyed[c] \in Nat
  BY <1>1 DEF Pending, ClientInductive, TypeOK
<1> DEFINE q == Queue(c)
<1>3. /\ q \in Seq(Nat) /\ Rising(heard[c]) /\ Rising(q) /\ Below(heard[c], q)
      /\ Under(q, n) /\ Under(q, keyed[c] + 1) /\ Under(heard[c], keyed[c] + 1)
  <2>1. CASE c \in listed
    BY <1>2, <2>1 DEF Queue, ClientInductive, DigitsInOrder, QueueSound
  <2>2. CASE c \notin listed
    <3>1. q = <<>> /\ Len(q) = 0
      BY <2>2 DEF Queue
    <3> QED
      BY <1>2, <3>1 DEF Rising, Below, Under, ClientInductive, DigitsInOrder, QueueSound
  <2> QED
    BY <2>1, <2>2
<1>4. /\ box' = [box EXCEPT ![c] = Append(q, n)] /\ box'[c] = Append(q, n)
      /\ \A d \in Channels : d # c => box'[d] = box[d]
      /\ listed' = listed \cup {c} /\ heard' = heard
      /\ UNCHANGED <<asterisk, conn, heard, flags, worker>>
  BY DEF HearDigit, ClientInductive, TypeOK, flags
<1> HIDE DEF q
<1>5. /\ Rising(box'[c]) /\ Below(heard[c], box'[c])
      /\ \A m \in Nat : Under(q, m) /\ n < m => Under(box'[c], m)
      /\ \A d : Occurs(d, q) \/ d = n => Occurs(d, box'[c])
  <2>1. /\ Rising(Append(q, n)) /\ Below(heard[c], Append(q, n))
        /\ \A m \in Nat : Under(q, m) /\ n < m => Under(Append(q, n), m)
        /\ \A d : Occurs(d, q) \/ d = n => Occurs(d, Append(q, n))
    BY ONLY <1>2, <1>3, Appended
  <2> QED
    BY <1>4, <2>1
<1>6. ASSUME NEW d \in Events, Pending(d), Follows(e, d)
      PROVE  Pending(d)'
  <2>1. d.channel \in Channels /\ d.n \in Nat
    BY DEF Events
  <2>2. CASE d.kind = "digit" /\ d.channel = c
    <3>1. n < d.n /\ Under(box[c], d.n)
      BY <1>6, <2>2 DEF Follows, Pending, Event
    <3>2. Under(q, d.n)
      BY <3>1 DEF q, Queue, Under
    <3>3. Under(box'[c], d.n)
      BY <1>5, <2>1, <3>1, <3>2
    <3> QED
      BY <1>4, <1>6, <2>2, <3>3 DEF Pending, asterisk
  <2>3. CASE ~(d.kind = "digit" /\ d.channel = c)
    BY <1>4, <1>6, <2>1, <2>3 DEF Pending, Awaited, asterisk, flags, worker
  <2> QED
    BY <2>2, <2>3
<1>7. /\ WireInv'
      /\ \A d \in Events : OnWire(d) /\ d # e => OnWire(d)'
      /\ \A d \in Events : OnWire(d)' => OnWire(d) /\ Follows(e, d)
  BY <1>6, HeardStep
<1>8. (Deaf <=> Deaf') /\ (\A d \in Channels : EndHeard(d) <=> EndHeard(d)')
  <2>1. Deaf <=> Deaf'
    BY <1>4 DEF Deaf, conn
  <2>2. ASSUME NEW d \in Channels PROVE EndHeard(d) <=> EndHeard(d)'
    <3>1. Event("end", d, 0) \in Events /\ Event("end", d, 0) # e
      BY IsEvent
    <3> QED
      BY <1>4, <1>7, <3>1 DEF EndHeard, asterisk
  <2> QED
    BY <2>1, <2>2
<1>9. QueueSound'
  <2> SUFFICES ASSUME NEW d \in Channels
               PROVE  /\ Under(heard'[d], keyed'[d] + 1) /\ Under(box'[d], keyed'[d] + 1)
                      /\ d \notin listed' /\ ~Deaf' /\ ~EndHeard(d)' => box'[d] = <<>>
    BY DEF QueueSound
  <2>1. CASE d = c
    <3>1. keyed[c] + 1 \in Nat /\ n < keyed[c] + 1
      BY <1>2
    <3> QED
      BY <1>3, <1>4, <1>5, <2>1, <3>1 DEF asterisk
  <2>2. CASE d # c
    BY <1>4, <1>8, <2>2 DEF ClientInductive, QueueSound, asterisk
  <2> QED
    BY <2>1, <2>2
<1>10. DigitsInOrder'
  <2>1. ASSUME NEW d \in Channels
        PROVE  Rising(heard'[d]) /\ Rising(box'[d]) /\ Below(heard'[d], box'[d])
    <3>1. CASE d = c
      BY <1>3, <1>4, <1>5, <3>1
    <3>2. CASE d # c
      BY <1>4, <3>2 DEF ClientInductive, DigitsInOrder
    <3> QED
      BY <3>1, <3>2
  <2>2. ASSUME NEW d \in Channels, ~Deaf', ~EndHeard(d)', NEW k \in 1..keyed'[d]
        PROVE  Occurs(k, heard'[d]) \/ Occurs(k, box'[d]) \/ OnWire(Event("digit", d, k))'
    <3>1. \/ Occurs(k, heard[d]) \/ Occurs(k, box[d]) \/ OnWire(Event("digit", d, k))
      BY <1>4, <1>8, <2>2 DEF ClientInductive, DigitsInOrder, asterisk
    <3>2. k \in Nat /\ Event("digit", d, k) \in Events
      BY <1>4, <2>2, IsEvent DEF ClientInductive, TypeOK, asterisk
    <3>3. CASE d = c
      <4>1. Occurs(k, box[c]) => Occurs(k, q)
        <5>1. CASE c \in listed
          BY <5>1 DEF q, Queue
        <5>2. CASE c \notin listed
          <6>1. box[c] = <<>> /\ Len(box[c]) = 0
            BY <1>8, <2>2, <3>3, <5>2 DEF ClientInductive, QueueSound
          <6> QED
            BY <6>1 DEF Occurs
        <5> QED
          BY <5>1, <5>2
      <4>2. CASE Event("digit", d, k) = e
        <5>1. k = n
          BY <3>2, <4>2, IsEvent
        <5> QED
          BY <1>5, <3>3, <5>1
      <4>3. CASE Event("digit", d, k) # e
        BY <1>4, <1>5, <1>7, <3>1, <3>2, <3>3, <4>1, <4>3
      <4> QED
        BY <4>2, <4>3
    <3>4. CASE d # c
      <4>1. Event("digit", d, k) # e
        BY <3>2, <3>4, IsEvent
      <4> QED
        BY <1>4, <1>7, <3>1, <3>2, <3>4, <4>1
    <3> QED
      BY <3>3, <3>4
  <2> QED
    BY <2>1, <2>2 DEF DigitsInOrder
<1>11. FlagInv'
  <2>1. \A d \in Events : d.kind = "finished" /\ OnWire(d) => OnWire(d)'
    BY <1>7
  <2> QED
    BY <1>4, <1>8, <2>1, FlagFrame DEF ClientInductive, FlagInv, asterisk
<1> QED
  BY <1>7, <1>9, <1>10, <1>11 DEF DigitInv

LEMMA HearFinishedStep ==
  ASSUME ClientInductive, NEW e \in Events, wire # <<>>, e = Head(wire), wire' = Tail(wire),
         e.kind = "finished", HearFinished(e), UNCHANGED <<asterisk, conn, heard, givenUp>>
  PROVE  WireInv' /\ DigitInv' /\ FlagInv'
<1> PICK p \in Playbacks : p = <<e.channel, e.n>>
  BY HeadGone DEF ClientInductive, Pending
<1>1. /\ playback[p] = "finished" /\ (p \in givenUp \/ Awaited(p))
      /\ p[1] = e.channel /\ p[2] = e.n
  BY HeadGone DEF ClientInductive, Pending
<1>2. /\ finished'[p] = "set" /\ \A q \in Playbacks : q # p => finished'[q] = finished[q]
      /\ UNCHANGED <<asterisk, conn, queues, givenUp, worker>>
  BY DEF HearFinished, ClientInductive, TypeOK, queues
<1>3. ASSUME NEW d \in Events, Pending(d), Follows(e, d)
      PROVE  Pending(d)'
  <2>1. d.kind = "finished" => <<d.channel, d.n>> # p
    <3>1. d.channel = e.channel /\ d.n = e.n /\ d.kind = e.kind => d = e
      BY DEF Events
    <3> QED
      BY <1>1, <1>3, <3>1 DEF Follows
  <2> QED
    BY <1>2, <1>3, <2>1 DEF Pending, Awaited, asterisk, queues, worker
<1>4. /\ WireInv'
      /\ \A d \in Events : OnWire(d) /\ d # e => OnWire(d)'
      /\ \A d \in Events : OnWire(d)' => OnWire(d)
  BY <1>3, HeardStep
<1>5. Deaf <=> Deaf'
  BY <1>2 DEF Deaf, conn
<1>6. DigitInv'
  <2>1. \A c \in Channels : EndHeard(c) => EndHeard(c)'
    BY <1>2, <1>4, IsEvent DEF EndHeard, asterisk
  <2>2. QueueSound'
    BY <1>2, <1>5, <2>1 DEF ClientInductive, QueueSound, asterisk, queues
  <2>3. ASSUME NEW c \in Channels, ~Deaf', ~EndHeard(c)', NEW k \in 1..keyed'[c]
        PROVE  Occurs(k, heard'[c]) \/ Occurs(k, box'[c]) \/ OnWire(Event("digit", c, k))'
    <3>1. Occurs(k, heard[c]) \/ Occurs(k, box[c]) \/ OnWire(Event("digit", c, k))
      BY <1>2, <1>5, <2>1, <2>3 DEF ClientInductive, DigitsInOrder, asterisk
    <3>2. k \in Nat
      BY <1>2, <2>3 DEF ClientInductive, TypeOK, asterisk
    <3>3. Event("digit", c, k) \in Events /\ Event("digit", c, k) # e
      BY <3>2, IsEvent
    <3> QED
      BY <1>2, <1>4, <3>1, <3>3 DEF queues
  <2> QED
    BY <1>2, <2>2, <2>3 DEF DigitInv, ClientInductive, DigitsInOrder, queues
<1>7. WorkerSound'
  BY <1>2 DEF ClientInductive, WorkerSound, Awaited, asterisk, worker
<1>8. PlaybackFlags'
  <2> SUFFICES ASSUME NEW q \in Playbacks
               PROVE  /\ Awaited(q)' /\ playback'[q] = "finished" /\ ~Deaf' =>
                           \/ finished'[q] = "set"
                           \/ OnWire(Event("finished", q[1], q[2]))'
                      /\ finished'[q] = "set" => playback'[q] = "finished"
                      /\ finished'[q] # "none" => q \in givenUp' \/ Awaited(q)'
    BY DEF PlaybackFlags
  <2>1. CASE q = p
    BY <1>1, <1>2, <2>1 DEF Awaited, asterisk, worker
  <2>2. CASE q # p
    <3>1. Event("finished", q[1], q[2]) \in Events /\ Event("finished", q[1], q[2]) # e
      BY <2>2, IsEvent, Pairs
    <3> QED
      BY <1>2, <1>4, <1>5, <2>2, <3>1 DEF ClientInductive, PlaybackFlags, Awaited, asterisk, worker
  <2> QED
    BY <2>1, <2>2
<1> QED
  BY <1>4, <1>6, <1>7, <1>8 DEF FlagInv

LEMMA HearEndStep ==
  ASSUME ClientInductive, NEW e \in Events, wire # <<>>, e = Head(wire), wire' = Tail(wire),
         e.kind = "end", HearEnd(e), UNCHANGED <<asterisk, conn, heard, givenUp>>
  PROVE  WireInv' /\ DigitInv' /\ FlagInv'
<1> PICK c \in Channels : e.channel = c /\ e = Event("end", c, 0)
  <2>1. e.n = 0 /\ e.channel \in Channels
    BY HeadGone DEF ClientInductive, Pending, Events
  <2> QED
    BY <2>1 DEF Events, Event
<1>1. chan[c] = "gone"
  BY HeadGone DEF ClientInductive, Pending
<1>2. listed' = listed \ {c} /\ UNCHANGED <<asterisk, conn, heard, box, flags, worker>>
  BY DEF HearEnd, flags
<1>3. /\ WireInv'
      /\ \A d \in Events : OnWire(d) /\ d # e => OnWire(d)'
      /\ \A d \in Events : OnWire(d)' => OnWire(d) /\ Follows(e, d)
  BY <1>2, PendingFrame, HeardStep
<1>4. EndHeard(c)'
  BY <1>1, <1>2, <1>3 DEF EndHeard, Follows, asterisk
<1>5. \A d \in Channels : EndHeard(d) => EndHeard(d)'
  BY <1>2, <1>3, IsEvent DEF EndHeard, asterisk
<1>6. Deaf <=> Deaf'
  BY <1>2 DEF Deaf, conn
<1>7. QueueSound'
  <2> SUFFICES ASSUME NEW d \in Channels
               PROVE  /\ Under(heard'[d], keyed'[d] + 1) /\ Under(box'[d], keyed'[d] + 1)
                      /\ d \notin listed' /\ ~Deaf' /\ ~EndHeard(d)' => box'[d] = <<>>
    BY DEF QueueSound
  <2> QED
    BY <1>2, <1>4, <1>5, <1>6 DEF ClientInductive, QueueSound, asterisk
<1>8. DigitsInOrder'
  <2>1. ASSUME NEW d \in Channels, ~Deaf', ~EndHeard(d)', NEW k \in 1..keyed'[d]
        PROVE  Occurs(k, heard'[d]) \/ Occurs(k, box'[d]) \/ OnWire(Event("digit", d, k))'
    <3>1. Occurs(k, heard[d]) \/ Occurs(k, box[d]) \/ OnWire(Event("digit", d, k))
      BY <1>2, <1>5, <1>6, <2>1 DEF ClientInductive, DigitsInOrder, asterisk
    <3>2. k \in Nat
      BY <1>2, <2>1 DEF ClientInductive, TypeOK, asterisk
    <3>3. Event("digit", d, k) \in Events /\ Event("digit", d, k) # e
      BY <3>2, IsEvent
    <3> QED
      BY <1>2, <1>3, <3>1, <3>3
  <2> QED
    BY <1>2, <2>1 DEF ClientInductive, DigitsInOrder
<1>9. FlagInv'
  <2>1. \A d \in Events : d.kind = "finished" /\ OnWire(d) => OnWire(d)'
    BY <1>3
  <2> QED
    BY <1>2, <1>6, <2>1, FlagFrame DEF ClientInductive, FlagInv, asterisk
<1> QED
  BY <1>3, <1>7, <1>8, <1>9 DEF DigitInv

LEMMA HearStartStep ==
  ASSUME ClientInductive, NEW e \in Events, wire # <<>>, e = Head(wire), wire' = Tail(wire),
         e.kind = "start", HearStart(e), UNCHANGED <<asterisk, conn, heard, givenUp>>
  PROVE  WireInv' /\ DigitInv' /\ FlagInv'
<1> PICK c \in Channels : e.channel = c /\ e = Event("start", c, 0)
  <2>1. e.n = 0 /\ e.channel \in Channels
    BY HeadGone DEF ClientInductive, Pending, Events
  <2> QED
    BY <2>1 DEF Events, Event
<1>1. chan[c] # "away" /\ step[c] = "none"
  BY HeadGone DEF ClientInductive, Pending
<1>2. /\ step'[c] = "idle" /\ \A d \in Channels : d # c => step'[d] = step[d]
      /\ UNCHANGED <<asterisk, conn, queues, flags, op, issued>>
  BY DEF HearStart, ClientInductive, TypeOK, flags, queues
<1>3. \A p \in Playbacks : Awaited(p) <=> Awaited(p)'
  BY <1>1, <1>2, Pairs DEF Awaited
<1>4. ASSUME NEW d \in Events, Pending(d), Follows(e, d)
      PROVE  Pending(d)'
  <2>1. d.channel \in Channels
    BY DEF Events
  <2>2. d.kind = "start" => d.channel # c
    <3>1. d.kind = "start" /\ d.channel = c /\ d.n = 0 => d = e
      BY DEF Events, Event
    <3> QED
      BY <1>4, <3>1 DEF Pending, Follows
  <2>3. d.kind = "finished" => <<d.channel, d.n>> \in Playbacks
    BY <1>4 DEF Pending
  <2> QED
    BY <1>2, <1>3, <1>4, <2>1, <2>2, <2>3 DEF Pending, asterisk, queues, flags
<1>5. /\ WireInv'
      /\ \A d \in Events : OnWire(d) /\ d # e => OnWire(d)'
      /\ \A d \in Events : OnWire(d)' => OnWire(d)
  BY <1>4, HeardStep
<1>6. Deaf <=> Deaf'
  BY <1>2 DEF Deaf, conn
<1>7. \A d \in Channels : EndHeard(d) => EndHeard(d)'
  BY <1>2, <1>5, IsEvent DEF EndHeard, asterisk
<1>8. QueueSound'
  BY <1>2, <1>6, <1>7 DEF ClientInductive, QueueSound, asterisk, queues
<1>9. DigitsInOrder'
  <2>1. ASSUME NEW d \in Channels, ~Deaf', ~EndHeard(d)', NEW k \in 1..keyed'[d]
        PROVE  Occurs(k, heard'[d]) \/ Occurs(k, box'[d]) \/ OnWire(Event("digit", d, k))'
    <3>1. Occurs(k, heard[d]) \/ Occurs(k, box[d]) \/ OnWire(Event("digit", d, k))
      BY <1>2, <1>6, <1>7, <2>1 DEF ClientInductive, DigitsInOrder, asterisk
    <3>2. k \in Nat
      BY <1>2, <2>1 DEF ClientInductive, TypeOK, asterisk
    <3>3. Event("digit", d, k) \in Events /\ Event("digit", d, k) # e
      BY <3>2, IsEvent
    <3> QED
      BY <1>2, <1>5, <3>1, <3>3 DEF queues
  <2> QED
    BY <1>2, <2>1 DEF ClientInductive, DigitsInOrder, queues
<1>10. WorkerSound'
  <2>1. \A d \in Channels : chan'[d] = "away" => step'[d] = "none"
    BY <1>1, <1>2 DEF ClientInductive, WorkerSound, asterisk
  <2>2. \A d \in Channels : step'[d] = "asking" => step[d] = "asking"
    BY <1>2
  <2> QED
    BY <1>2, <1>3, <2>1, <2>2, Pairs DEF ClientInductive, WorkerSound, asterisk, flags
<1>11. PlaybackFlags'
  <2>1. \A q \in Playbacks : /\ Event("finished", q[1], q[2]) \in Events
                             /\ Event("finished", q[1], q[2]) # e
    BY IsEvent, Pairs
  <2> QED
    BY <1>2, <1>3, <1>5, <1>6, <2>1 DEF ClientInductive, PlaybackFlags, asterisk, flags
<1> QED
  BY <1>5, <1>8, <1>9, <1>10, <1>11 DEF DigitInv, FlagInv

LEMMA NextEventStep ==
  ASSUME ClientInductive, NextEvent
  PROVE  WireInv' /\ DigitInv' /\ FlagInv'
<1>1. Head(wire) \in Events
  BY HeadGone DEF ClientInductive, NextEvent
<1> PICK e \in Events : e = Head(wire)
  BY <1>1
<1> QED
  BY HearDigitStep, HearFinishedStep, HearEndStep, HearStartStep DEF NextEvent

-----------------------------------------------------------------------------
(* The workers' commands.                                                  *)

(* A command that moves no digit.                                          *)
LEMMA CommandFrame ==
  ASSUME ClientInductive, NEW c \in Channels, step[c] # "none",
         \A d \in Channels : d # c => step'[d] = step[d],
         UNCHANGED <<wire, conn, keyed, chan, queues>>,
         \A p \in Playbacks : playback[p] = "finished" => playback'[p] = "finished",
         \A p \in Playbacks : finished[p] # "set" /\ playback[p] = "finished" =>
           /\ finished'[p] # "set"
           /\ p \in givenUp \/ Awaited(p) => p \in givenUp' \/ Awaited(p)'
  PROVE  WireInv' /\ DigitInv' /\ (Deaf <=> Deaf') /\ \A d : OnWire(d)' <=> OnWire(d)
<1>1. ASSUME NEW d \in Events, Pending(d) PROVE Pending(d)'
  <2>1. d.channel \in Channels
    BY DEF Events
  <2>2. d.kind = "start" => step'[d.channel] = "none"
    BY <1>1, <2>1 DEF Pending
  <2>3. d.kind = "finished" =>
          LET p == <<d.channel, d.n>> IN
          /\ p \in Playbacks /\ playback'[p] = "finished" /\ finished'[p] # "set"
          /\ p \in givenUp' \/ Awaited(p)'
    BY <1>1 DEF Pending
  <2> QED
    BY <1>1, <2>2, <2>3 DEF Pending, queues
<1>2. WireInv' /\ \A d : OnWire(d)' <=> OnWire(d)
  BY <1>1, WireSame DEF ClientInductive, WireInv
<1>3. Deaf <=> Deaf'
  BY DEF Deaf, conn
<1>4. \A d \in Channels : EndHeard(d) => EndHeard(d)'
  BY <1>2, EndFrame
<1>5. DigitInv'
  BY <1>2, <1>3, <1>4, DigitFrame DEF ClientInductive, DigitInv
<1> QED
  BY <1>2, <1>3, <1>5

(* What is to be shown of the flags and the workers, playback by playback. *)
LEMMA FlagsByOne ==
  ASSUME ClientInductive, Deaf <=> Deaf', \A d : OnWire(d)' <=> OnWire(d),
         \A c \in Channels : chan'[c] = "away" => step'[c] = "none",
         \A p \in Playbacks :
           /\ playback'[p] # "unborn" =>
                p[2] <= issued'[p[1]] /\ (p[2] = issued'[p[1]] => step'[p[1]] # "asking")
           /\ playback'[p] = "playing" => p \in givenUp' \/ Awaited(p)'
           /\ Awaited(p)' /\ playback'[p] = "finished" =>
                /\ playback[p] = "finished"
                /\ Awaited(p) /\ (finished[p] = "set" => finished'[p] = "set")
           /\ finished'[p] = "set" => playback'[p] = "finished"
           /\ finished'[p] # "none" => p \in givenUp' \/ Awaited(p)'
  PROVE  FlagInv'
<1>1. WorkerSound'
  BY DEF WorkerSound
<1>2. ASSUME NEW p \in Playbacks, Awaited(p)', playback'[p] = "finished", ~Deaf'
      PROVE  finished'[p] = "set" \/ OnWire(Event("finished", p[1], p[2]))'
  BY <1>2 DEF ClientInductive, PlaybackFlags
<1> QED
  BY <1>1, <1>2 DEF FlagInv, PlaybackFlags

LEMMA AskStep ==
  ASSUME ClientInductive, NEW c \in Channels, Ask(c)
  PROVE  WireInv' /\ DigitInv' /\ FlagInv'
<1>1. /\ step[c] = "idle" /\ step'[c] = "asking" /\ \A d \in Channels : d # c => step'[d] = step[d]
      /\ issued[c] \in Nat /\ issued'[c] = issued[c] + 1
      /\ \A d \in Channels : d # c => issued'[d] = issued[d] /\ op'[d] = op[d]
      /\ UNCHANGED <<asterisk, wire, conn, queues, flags>>
  BY DEF Ask, Ready, ClientInductive, TypeOK
<1>2. ASSUME NEW p \in Playbacks PROVE Awaited(p) <=> Awaited(p)'
  BY <1>1, Pairs DEF Awaited
<1>3. /\ WireInv' /\ DigitInv' /\ (Deaf <=> Deaf') /\ \A d : OnWire(d)' <=> OnWire(d)
  BY <1>1, <1>2, CommandFrame DEF asterisk, flags
<1>4. \A d \in Channels : chan'[d] = "away" => step'[d] = "none"
  BY <1>1 DEF ClientInductive, WorkerSound, asterisk
<1>5. ASSUME NEW p \in Playbacks, playback'[p] # "unborn"
      PROVE  p[2] <= issued'[p[1]] /\ (p[2] = issued'[p[1]] => step'[p[1]] # "asking")
  <2>1. /\ p[1] \in Channels /\ p[2] \in Nat /\ p[2] <= issued[p[1]]
        /\ p[2] = issued[p[1]] => step[p[1]] # "asking"
    BY <1>1, <1>5, Pairs DEF ClientInductive, WorkerSound, asterisk
  <2>2. CASE p[1] = c
    BY <1>1, <2>1, <2>2
  <2>3. CASE p[1] # c
    BY <1>1, <2>1, <2>3
  <2> QED
    BY <2>2, <2>3
<1>6. FlagInv'
  BY <1>1, <1>2, <1>3, <1>4, <1>5, FlagsByOne
     DEF ClientInductive, WorkerSound, PlaybackFlags, asterisk, flags
<1> QED
  BY <1>3, <1>6

LEMMA ExecutedStep ==
  ASSUME ClientInductive, NEW c \in Channels, Executed(c)
  PROVE  WireInv' /\ DigitInv' /\ FlagInv'
<1>1. /\ step[c] = "asking" /\ chan[c] = "stasis" /\ step' = [step EXCEPT ![c] = "answered"]
      /\ UNCHANGED <<keyed, conn, queues, flags, op, issued>>
  BY DEF Executed
<1>2. CASE op[c] = "leave" /\ Departs(c)
  BY <1>1, <1>2, DepartsStep
<1>3. CASE /\ op[c] = "play" /\ playback' = [playback EXCEPT ![Mine(c)] = "playing"]
           /\ UNCHANGED <<chan, wire>>
  <2>1. step'[c] = "answered" /\ \A d \in Channels : d # c => step'[d] = step[d]
    BY <1>1 DEF ClientInductive, TypeOK
  <2>2. ASSUME NEW p \in Playbacks
        PROVE  \/ p = Mine(c) /\ playback[p] = "unborn" /\ playback'[p] = "playing"
                  /\ Awaited(p)' /\ p[1] = c /\ p[2] = issued[c]
               \/ p # Mine(c) /\ playback'[p] = playback[p] /\ (Awaited(p) <=> Awaited(p)')
    <3>1. CASE p = Mine(c)
      <4>1. p[1] = c /\ p[2] = issued[c]
        BY <3>1 DEF Mine
      <4>2. playback[p] = "unborn"
        BY <1>1, <4>1 DEF ClientInductive, WorkerSound
      <4> QED
        BY <1>1, <1>3, <2>1, <3>1, <4>1, <4>2 DEF Awaited, ClientInductive, TypeOK
    <3>2. CASE p # Mine(c)
      <4>1. p[1] # c \/ p[2] # issued[c]
        BY <3>2, Pairs DEF Mine
      <4>2. Awaited(p) <=> Awaited(p)'
        BY <1>1, <2>1, <4>1, Pairs DEF Awaited
      <4> QED
        BY <1>3, <3>2, <4>2 DEF ClientInductive, TypeOK
    <3> QED
      BY <3>1, <3>2
  <2>3. /\ WireInv' /\ DigitInv' /\ (Deaf <=> Deaf') /\ \A d : OnWire(d)' <=> OnWire(d)
    BY <1>1, <1>3, <2>1, <2>2, CommandFrame DEF flags
  <2>4. \A d \in Channels : chan'[d] = "away" => step'[d] = "none"
    BY <1>1, <1>3, <2>1 DEF ClientInductive, WorkerSound
  <2>5. ASSUME NEW p \in Playbacks, playback'[p] # "unborn"
        PROVE  p[2] <= issued'[p[1]] /\ (p[2] = issued'[p[1]] => step'[p[1]] # "asking")
    <3>1. issued' = issued /\ p[1] \in Channels /\ p[2] \in Nat
      BY <1>1, Pairs
    <3>2. CASE p = Mine(c)
      BY <2>1, <2>2, <3>1, <3>2
    <3>3. CASE p # Mine(c)
      <4>1. playback[p] # "unborn"
        BY <2>2, <2>5, <3>3
      <4> QED
        BY <2>1, <3>1, <4>1 DEF ClientInductive, WorkerSound
    <3> QED
      BY <3>2, <3>3
  <2>6. FlagInv'
    BY <1>1, <2>2, <2>3, <2>4, <2>5, FlagsByOne
       DEF ClientInductive, WorkerSound, PlaybackFlags, flags
  <2> QED
    BY <2>3, <2>6
<1> QED
  BY <1>2, <1>3 DEF Executed

(* The rest of a play or a leave: what became of the playback the command  *)
(* is about is all there is to look at.                                    *)
LEMMA SettledStep ==
  ASSUME ClientInductive, NEW c \in Channels, step[c] # "none",
         step'[c] \notin {"none", "asking"},
         \A d \in Channels : d # c => step'[d] = step[d],
         UNCHANGED <<asterisk, wire, conn, queues, op, issued>>,
         \A p \in Playbacks : p # Mine(c) =>
           finished'[p] = finished[p] /\ (p \in givenUp' <=> p \in givenUp),
         \A p \in Playbacks : p = Mine(c) =>
           /\ finished[p] # "set" /\ playback[p] = "finished" =>
                /\ finished'[p] # "set"
                /\ p \in givenUp \/ Awaited(p) => p \in givenUp' \/ Awaited(p)'
           /\ playback[p] = "playing" => p \in givenUp' \/ Awaited(p)'
           /\ Awaited(p)' /\ playback[p] = "finished" =>
                Awaited(p) /\ (finished[p] = "set" => finished'[p] = "set")
           /\ finished'[p] = "set" => playback[p] = "finished"
           /\ finished'[p] # "none" => p \in givenUp' \/ Awaited(p)'
  PROVE  WireInv' /\ DigitInv' /\ FlagInv'
<1>1. ASSUME NEW p \in Playbacks, p # Mine(c) PROVE Awaited(p) <=> Awaited(p)'
  <2>1. p[1] # c \/ p[2] # issued[c]
    BY <1>1, Pairs DEF Mine
  <2> QED
    BY <1>1, <2>1, Pairs DEF Awaited
<1>2. ASSUME NEW p \in Playbacks, finished[p] # "set", playback[p] = "finished"
      PROVE  /\ finished'[p] # "set"
             /\ p \in givenUp \/ Awaited(p) => p \in givenUp' \/ Awaited(p)'
  BY <1>1, <1>2
<1>3. WireInv' /\ DigitInv' /\ (Deaf <=> Deaf') /\ \A d : OnWire(d)' <=> OnWire(d)
  BY <1>2, CommandFrame DEF asterisk
<1>4. \A d \in Channels : chan'[d] = "away" => step'[d] = "none"
  BY DEF ClientInductive, WorkerSound, asterisk
<1>5. ASSUME NEW p \in Playbacks, playback'[p] # "unborn"
      PROVE  p[2] <= issued'[p[1]] /\ (p[2] = issued'[p[1]] => step'[p[1]] # "asking")
  BY <1>5, Pairs DEF ClientInductive, WorkerSound, asterisk
<1>6. ASSUME NEW p \in Playbacks
      PROVE  /\ playback'[p] = "playing" => p \in givenUp' \/ Awaited(p)'
             /\ Awaited(p)' /\ playback'[p] = "finished" =>
                  /\ playback[p] = "finished"
                  /\ Awaited(p) /\ (finished[p] = "set" => finished'[p] = "set")
             /\ finished'[p] = "set" => playback'[p] = "finished"
             /\ finished'[p] # "none" => p \in givenUp' \/ Awaited(p)'
  <2>1. CASE p = Mine(c)
    BY <2>1 DEF asterisk
  <2>2. CASE p # Mine(c)
    BY <1>1, <2>2 DEF ClientInductive, WorkerSound, PlaybackFlags, asterisk
  <2> QED
    BY <2>1, <2>2
<1>7. FlagInv'
  BY <1>3, <1>4, <1>5, <1>6, FlagsByOne
<1> QED
  BY <1>3, <1>7

LEMMA RepliedStep ==
  ASSUME ClientInductive, NEW c \in Channels, Replied(c)
  PROVE  WireInv' /\ DigitInv' /\ FlagInv'
<1>1. /\ step[c] = "answered"
      /\ step'[c] = IF op[c] = "play" THEN "waiting" ELSE "idle"
      /\ \A d \in Channels : d # c => step'[d] = step[d]
      /\ UNCHANGED <<asterisk, wire, conn, queues, givenUp, op, issued>>
      /\ \A p \in Playbacks : p # Mine(c) => finished'[p] = finished[p]
      /\ \A p \in Playbacks : p = Mine(c) =>
           finished'[p] = IF op[c] = "play" /\ finished[p] = "none" THEN "clear" ELSE finished[p]
  BY DEF Replied, ClientInductive, TypeOK
<1>2. ASSUME NEW p \in Playbacks, p = Mine(c)
      PROVE  /\ Awaited(p) <=> op[c] = "play"
             /\ Awaited(p)' <=> op[c] = "play"
  BY <1>1, <1>2 DEF Awaited, Mine
<1>3. ASSUME NEW p \in Playbacks, p = Mine(c)
      PROVE  /\ finished[p] = "set" <=> finished'[p] = "set"
             /\ finished'[p] # "none" => p \in givenUp' \/ Awaited(p)'
             /\ finished'[p] = "set" => playback[p] = "finished"
             /\ playback[p] = "playing" => p \in givenUp' \/ Awaited(p)'
  BY <1>1, <1>2, <1>3 DEF ClientInductive, PlaybackFlags, WorkerSound
<1> QED
  BY <1>1, <1>2, <1>3, SettledStep

LEMMA RaisesStep ==
  ASSUME ClientInductive, NEW c \in Channels, step[c] \in {"asking", "answered"}, Raises(c)
  PROVE  WireInv' /\ DigitInv' /\ FlagInv'
<1>1. /\ step'[c] = "idle" /\ \A d \in Channels : d # c => step'[d] = step[d]
      /\ UNCHANGED <<asterisk, wire, conn, queues, finished, op, issued>>
      /\ \A p \in Playbacks :
           p \in givenUp' <=>
             \/ p \in givenUp
             \/ p = Mine(c) /\ step[c] = "answered" /\ op[c] = "play"
  BY DEF Raises, ClientInductive, TypeOK
<1>2. ASSUME NEW p \in Playbacks, p = Mine(c)
      PROVE  /\ Awaited(p) => p \in givenUp'
             /\ ~Awaited(p)'
  BY <1>1, <1>2 DEF Awaited, Mine
<1>3. ASSUME NEW p \in Playbacks, p = Mine(c)
      PROVE  /\ finished'[p] = finished[p]
             /\ finished[p] = "set" => playback[p] = "finished"
             /\ finished[p] # "none" => p \in givenUp'
             /\ playback[p] = "playing" => p \in givenUp'
  BY <1>1, <1>2, <1>3 DEF ClientInductive, PlaybackFlags, WorkerSound
<1> QED
  BY <1>1, <1>2, <1>3, SettledStep

(* Played, and its timeout.                                                *)
LEMMA PlayedStep ==
  ASSUME ClientInductive, NEW c \in Channels, Played(c) \/ PlayTimesOut(c)
  PROVE  WireInv' /\ DigitInv' /\ FlagInv'
<1>1. /\ step[c] = "waiting" /\ step'[c] = "idle"
      /\ \A d \in Channels : d # c => step'[d] = step[d]
      /\ UNCHANGED <<asterisk, wire, conn, queues, op, issued>>
      /\ \A p \in Playbacks : p # Mine(c) =>
           finished'[p] = finished[p] /\ (p \in givenUp' <=> p \in givenUp)
      /\ \A p \in Playbacks : p = Mine(c) =>
           /\ finished'[p] = "none"
           /\ finished[p] = "set" \/ p \in givenUp'
  BY DEF Played, PlayTimesOut, ClientInductive, TypeOK
<1>2. ASSUME NEW p \in Playbacks, p = Mine(c)
      PROVE  ~Awaited(p)' /\ (finished[p] = "set" => playback[p] = "finished")
  BY <1>1, <1>2 DEF Awaited, Mine, ClientInductive, PlaybackFlags
<1> QED
  BY <1>1, <1>2, SettledStep

LEMMA ReadTimesOutStep ==
  ASSUME ClientInductive, NEW c \in Channels, ReadTimesOut(c)
  PROVE  WireInv' /\ DigitInv' /\ FlagInv'
<1>1. /\ step[c] = "reading" /\ step'[c] = "idle"
      /\ \A d \in Channels : d # c => step'[d] = step[d]
      /\ UNCHANGED <<asterisk, wire, conn, queues, flags, op, issued>>
  BY DEF ReadTimesOut, ClientInductive, TypeOK
<1>2. ASSUME NEW p \in Playbacks, p = Mine(c)
      PROVE  ~Awaited(p) /\ ~Awaited(p)'
  BY <1>1, <1>2 DEF Awaited, Mine
<1>3. ASSUME NEW p \in Playbacks
      PROVE  /\ finished'[p] = finished[p] /\ (p \in givenUp' <=> p \in givenUp)
             /\ finished[p] = "set" => playback[p] = "finished"
             /\ finished[p] # "none" => p \in givenUp \/ Awaited(p)
             /\ playback[p] = "playing" => p \in givenUp \/ Awaited(p)
  BY <1>1 DEF flags, ClientInductive, PlaybackFlags, WorkerSound
<1> QED
  BY <1>1, <1>2, <1>3, SettledStep

-----------------------------------------------------------------------------
(* Reading: digits go from the queue to the read.                          *)

LEMMA TakesStep ==
  ASSUME ClientInductive, NEW c \in Channels, NEW q, NEW wanted \in Nat,
         Takes(c, q, wanted), step[c] \in {"idle", "reading"},
         \/ q = Queue(c) /\ listed' = listed \cup {c}
         \/ q = box[c] /\ box[c] # <<>> /\ listed' = listed,
         \/ UNCHANGED issued
         \/ step[c] = "idle" /\ issued' = [issued EXCEPT ![c] = @ + 1],
         UNCHANGED <<asterisk, wire, conn, flags, op>>
  PROVE  WireInv' /\ DigitInv' /\ FlagInv'
<1>1. /\ q \in Seq(Nat) /\ box[c] \in Seq(Nat) /\ heard[c] \in Seq(Nat)
      /\ Rising(heard[c]) /\ Rising(box[c]) /\ Below(heard[c], box[c])
      /\ q = box[c] \/ q = <<>>
  <2>1. q = box[c] \/ q = <<>>
    BY DEF Queue
  <2>2. box[c] \in Seq(Nat) /\ heard[c] \in Seq(Nat)
    BY DEF ClientInductive, TypeOK
  <2>3. q \in Seq(Nat)
    <3>1. <<>> \in Seq(Nat)
      OBVIOUS
    <3> QED
      BY ONLY <2>1, <2>2, <3>1
  <2>4. Rising(heard[c]) /\ Rising(box[c]) /\ Below(heard[c], box[c])
    BY DEF ClientInductive, DigitsInOrder
  <2> QED
    BY <2>1, <2>2, <2>3, <2>4
<1>2. /\ Rising(q) /\ Below(heard[c], q)
      /\ \A n \in Nat : Under(box[c], n) => Under(q, n)
  <2>1. CASE q = box[c]
    BY <1>1, <2>1
  <2>2. CASE q = <<>>
    <3>1. Len(q) = 0
      BY <2>2
    <3>2. \A i \in 1..Len(q) : FALSE
      BY <3>1
    <3> QED
      BY <3>2 DEF Rising, Below, Under
  <2> QED
    BY <1>1, <2>1, <2>2
<1>3. PICK k \in 0..Len(q) : k = IF wanted < Len(q) THEN wanted ELSE Len(q)
  <2>1. Len(q) \in Nat
    BY <1>1
  <2> QED
    BY <2>1
<1>4. /\ heard' = [heard EXCEPT ![c] = @ \o SubSeq(q, 1, k)]
      /\ box' = [box EXCEPT ![c] = SubSeq(q, k + 1, Len(q))]
      /\ step' = [step EXCEPT ![c] = IF wanted = k THEN "idle" ELSE "reading"]
  BY <1>3 DEF Takes
<1>5. /\ heard'[c] = heard[c] \o SubSeq(q, 1, k) /\ box'[c] = SubSeq(q, k + 1, Len(q))
      /\ step'[c] \in {"idle", "reading"}
      /\ \A d \in Channels : d # c =>
           heard'[d] = heard[d] /\ box'[d] = box[d] /\ step'[d] = step[d]
  BY <1>4 DEF ClientInductive, TypeOK
<1>6. /\ Rising(heard'[c]) /\ Rising(box'[c]) /\ Below(heard'[c], box'[c])
      /\ \A n \in Nat : Under(heard[c], n) /\ Under(box[c], n) =>
                          Under(heard'[c], n) /\ Under(box'[c], n)
      /\ \A d : Occurs(d, heard[c]) \/ Occurs(d, q) =>
                  Occurs(d, heard'[c]) \/ Occurs(d, box'[c])
  BY <1>1, <1>2, <1>5, Moved
<1>7. ASSUME NEW p \in Playbacks PROVE Awaited(p) <=> Awaited(p)'
  <2>1. CASE p[1] = c
    BY <1>5, <2>1 DEF Awaited
  <2>2. CASE p[1] # c
    <3>1. p[1] \in Channels /\ issued \in [Channels -> 0..MaxCommands]
      BY Pairs DEF ClientInductive, TypeOK
    <3>2. issued'[p[1]] = issued[p[1]]
      BY <2>2, <3>1
    <3> QED
      BY <1>5, <2>2, <3>1, <3>2 DEF Awaited
  <2> QED
    BY <2>1, <2>2
<1>8. ASSUME NEW d \in Events, Pending(d) PROVE Pending(d)'
  <2>1. d.channel \in Channels /\ d.n \in Nat
    BY DEF Events
  <2>2. d.kind = "start" => step'[d.channel] = "none"
    BY <1>5, <1>8, <2>1 DEF Pending
  <2>3. d.kind = "digit" => Under(heard'[d.channel], d.n) /\ Under(box'[d.channel], d.n)
    BY <1>5, <1>6, <1>8, <2>1 DEF Pending
  <2>4. d.kind = "finished" =>
          LET p == <<d.channel, d.n>> IN
          /\ p \in Playbacks /\ playback'[p] = "finished" /\ finished'[p] # "set"
          /\ p \in givenUp' \/ Awaited(p)'
    BY <1>7, <1>8 DEF Pending, asterisk, flags
  <2> QED
    BY <1>8, <2>2, <2>3, <2>4 DEF Pending, asterisk
<1>9. WireInv' /\ \A d : OnWire(d)' <=> OnWire(d)
  BY <1>8, WireSame DEF ClientInductive, WireInv
<1>10. Deaf <=> Deaf'
  BY DEF Deaf, conn
<1>11. \A d \in Channels : EndHeard(d) <=> EndHeard(d)'
  BY <1>9 DEF EndHeard, asterisk
<1>12. ~Deaf /\ ~EndHeard(c) => q = box[c]
  BY <1>1 DEF ClientInductive, QueueSound, Queue
<1>13. QueueSound'
  <2> SUFFICES ASSUME NEW d \in Channels
               PROVE  /\ Under(heard'[d], keyed'[d] + 1) /\ Under(box'[d], keyed'[d] + 1)
                      /\ d \notin listed' /\ ~Deaf' /\ ~EndHeard(d)' => box'[d] = <<>>
    BY DEF QueueSound
  <2>1. /\ Under(heard[d], keyed[d] + 1) /\ Under(box[d], keyed[d] + 1) /\ keyed[d] + 1 \in Nat
        /\ d \notin listed /\ ~Deaf /\ ~EndHeard(d) => box[d] = <<>>
    <3>1. keyed[d] \in Nat
      BY DEF ClientInductive, TypeOK
    <3> QED
      BY <3>1 DEF ClientInductive, QueueSound
  <2>2. CASE d = c
    BY <1>6, <1>10, <1>11, <2>1, <2>2 DEF asterisk
  <2>3. CASE d # c
    BY <1>5, <1>10, <1>11, <2>1, <2>3 DEF asterisk
  <2> QED
    BY <2>2, <2>3
<1>14. DigitsInOrder'
  <2>1. ASSUME NEW d \in Channels
        PROVE  Rising(heard'[d]) /\ Rising(box'[d]) /\ Below(heard'[d], box'[d])
    BY <1>5, <1>6 DEF ClientInductive, DigitsInOrder
  <2>2. ASSUME NEW d \in Channels, ~Deaf', ~EndHeard(d)', NEW j \in 1..keyed'[d]
        PROVE  Occurs(j, heard'[d]) \/ Occurs(j, box'[d]) \/ OnWire(Event("digit", d, j))'
    <3>1. Occurs(j, heard[d]) \/ Occurs(j, box[d]) \/ OnWire(Event("digit", d, j))
      BY <1>10, <1>11, <2>2 DEF ClientInductive, DigitsInOrder, asterisk
    <3>2. CASE d = c
      BY <1>6, <1>9, <1>10, <1>11, <1>12, <2>2, <3>1, <3>2
    <3>3. CASE d # c
      BY <1>5, <1>9, <3>1, <3>3
    <3> QED
      BY <3>2, <3>3
  <2> QED
    BY <2>1, <2>2 DEF DigitsInOrder
<1>15. \A d \in Channels : chan'[d] = "away" => step'[d] = "none"
  BY <1>5 DEF ClientInductive, WorkerSound, asterisk
<1>16. ASSUME NEW p \in Playbacks, playback'[p] # "unborn"
       PROVE  p[2] <= issued'[p[1]] /\ (p[2] = issued'[p[1]] => step'[p[1]] # "asking")
  <2>1. /\ p[1] \in Channels /\ p[2] \in Nat /\ p[2] <= issued[p[1]]
        /\ p[2] = issued[p[1]] => step[p[1]] # "asking"
    BY <1>16, Pairs DEF ClientInductive, WorkerSound, asterisk
  <2>4. issued \in [Channels -> 0..MaxCommands] /\ issued[p[1]] \in Nat
    BY <2>1 DEF ClientInductive, TypeOK
  <2>2. CASE p[1] = c
    <3>1. step'[p[1]] # "asking" /\ p[2] <= issued'[p[1]]
      BY <1>5, <2>1, <2>2, <2>4
    <3> QED
      BY <3>1
  <2>3. CASE p[1] # c
    <3>1. step'[p[1]] = step[p[1]] /\ issued'[p[1]] = issued[p[1]]
      BY <1>5, <2>1, <2>3, <2>4
    <3> QED
      BY <2>1, <3>1
  <2> QED
    BY <2>2, <2>3
<1>17. FlagInv'
  BY <1>7, <1>9, <1>10, <1>15, <1>16, FlagsByOne
     DEF ClientInductive, WorkerSound, PlaybackFlags, asterisk, flags
<1> QED
  BY <1>9, <1>13, <1>14, <1>17 DEF DigitInv

LEMMA ReadStep ==
  ASSUME ClientInductive, NEW c \in Channels, Read(c) \/ ReadWakes(c)
  PROVE  WireInv' /\ DigitInv' /\ FlagInv'
<1>1. CASE Read(c)
  <2>1. PICK n \in Lengths : Takes(c, Queue(c), n)
    BY <1>1 DEF Read
  <2> QED
    BY <1>1, <2>1, TakesStep DEF Read, Ready
<1>2. CASE ReadWakes(c)
  <2>1. left[c] \in Nat
    BY DEF ClientInductive, TypeOK
  <2> QED
    BY <1>2, <2>1, TakesStep DEF ReadWakes
<1> QED
  BY <1>1, <1>2

-----------------------------------------------------------------------------
(* The invariant.                                                          *)

LEMMA ClientInit == Init => ClientInductive
<1> SUFFICES ASSUME Init PROVE ClientInductive
  OBVIOUS
<1>1. TypeOK
  <2>1. /\ wire \in Seq(Events) /\ \A c \in Channels : box[c] \in Seq(Nat) /\ heard[c] \in Seq(Nat)
        /\ BaseDelay \in BaseDelay..MaxDelay /\ op \in [Channels -> Requests]
    BY DEF Init, Requests
  <2>2. box \in [Channels -> Seq(Nat)] /\ heard \in [Channels -> Seq(Nat)]
    BY <2>1 DEF Init
  <2>3. /\ issued \in [Channels -> 0..MaxCommands] /\ left \in [Channels -> Nat]
        /\ keyed \in [Channels -> 0..MaxDigits] /\ drops \in 0..MaxDrops
    BY DEF Init
  <2> QED
    BY <2>1, <2>2, <2>3 DEF Init, TypeOK
<1>2. \A i \in 1..Len(wire) : FALSE
  <2>1. Len(wire) = 0
    BY DEF Init
  <2> QED
    BY <2>1
<1>3. WireSound /\ WireOrder /\ LinkSound
  BY <1>2 DEF WireSound, WireOrder, LinkSound, Init
<1>4. ASSUME NEW c \in Channels
      PROVE  /\ box[c] = <<>> /\ keyed[c] = 0
             /\ \A i \in 1..Len(heard[c]) : FALSE
             /\ \A i \in 1..Len(box[c]) : FALSE
             /\ \A d \in 1..keyed[c] : FALSE
  <2>1. heard[c] = <<>> /\ box[c] = <<>> /\ keyed[c] = 0
    BY DEF Init
  <2>2. Len(heard[c]) = 0 /\ Len(box[c]) = 0
    BY <2>1
  <2> QED
    BY <2>1, <2>2
<1>5. QueueSound
  BY <1>4 DEF QueueSound, Under
<1>6. DigitsInOrder
  BY <1>4 DEF DigitsInOrder, Rising, Below
<1>7. WorkerSound /\ PlaybackFlags
  BY DEF WorkerSound, PlaybackFlags, Init, Awaited
<1> QED
  BY <1>1, <1>3, <1>5, <1>6, <1>7 DEF ClientInductive

LEMMA OutsideStep ==
  ASSUME ClientInductive, Outside
  PROVE  WireInv' /\ DigitInv' /\ FlagInv'
<1>1. ASSUME NEW c \in Channels, HangsUp(c) PROVE WireInv' /\ DigitInv' /\ FlagInv'
  BY <1>1, DepartsStep DEF HangsUp, worker
<1> QED
  BY <1>1, EntersStep, KeysStep, PlaybackEndsStep, ConnectionStep DEF Outside

LEMMA CommandsStep ==
  ASSUME ClientInductive, Commands
  PROVE  WireInv' /\ DigitInv' /\ FlagInv'
<1> PICK c \in Channels : Ask(c) \/ Read(c) \/ RequestFails(c) \/ Completes(c)
  BY DEF Commands
<1>1. CASE Refused(c) \/ RequestFails(c) \/ Unsendable(c)
  BY <1>1, RaisesStep DEF Refused, RequestFails, Unsendable
<1> QED
  BY <1>1, AskStep, ExecutedStep, RepliedStep, PlayedStep, ReadTimesOutStep, ReadStep
     DEF Completes

LEMMA ClientStep ==
  ASSUME ClientInductive, [Next]_vars
  PROVE  ClientInductive'
<1>1. TypeOK' /\ LinkSound'
  BY TypeStep, LinkStep DEF ClientInductive
<1>2. WireInv' /\ DigitInv' /\ FlagInv'
  <2>1. CASE NextEvent
    BY <2>1, NextEventStep
  <2>2. CASE Commands
    BY <2>2, CommandsStep
  <2>3. CASE Outside
    BY <2>3, OutsideStep
  <2>4. CASE NoticeDrop \/ Reconnected \/ ReconnectFails \/ Close \/ CloseSession
    BY <2>4, ConnectionStep
  <2>5. CASE UNCHANGED vars
    <3>1. UNCHANGED <<asterisk, wire, conn, queues, flags, worker>>
      BY <2>5 DEF vars
    <3>2. \A d \in Events : Pending(d) => Pending(d)'
      BY <3>1, PendingFrame DEF queues
    <3>3. WireInv' /\ (Deaf <=> Deaf') /\ \A d : OnWire(d)' <=> OnWire(d)
      BY <3>1, <3>2, WireSame DEF ClientInductive, WireInv, Deaf, conn
    <3>4. DigitInv'
      BY <3>1, <3>3, EndFrame, DigitFrame DEF ClientInductive, DigitInv, asterisk
    <3>5. FlagInv'
      BY <3>1, <3>3, FlagFrame DEF ClientInductive, FlagInv, asterisk
    <3> QED
      BY <3>3, <3>4, <3>5
  <2> QED
    BY <2>1, <2>2, <2>3, <2>4, <2>5 DEF Next, Reader
<1> QED
  BY <1>1, <1>2 DEF ClientInductive, WireInv, DigitInv, FlagInv

(* The invariant of the client: types, the socket and the reader, what may *)
(* be on the wire, the queues and the workers' playbacks, all together.    *)
THEOREM ClientSafe == Spec => []ClientInductive
<1>1. Init => ClientInductive
  BY ClientInit
<1>2. ClientInductive /\ [Next]_vars => ClientInductive'
  BY ClientStep
<1> QED
  BY <1>1, <1>2, PTL DEF Spec

(* Digits keyed in _handle_message are what read_digits returns, in their  *)
(* order and once, through every timeout, drop and hangup.                 *)
THEOREM DigitsSafe == Spec => []DigitsInOrder
<1>1. ClientInductive => DigitsInOrder
  BY DEF ClientInductive
<1> QED
  BY <1>1, ClientSafe, PTL

(* A play is released by its own playback's end, however the reply and the *)
(* event race, and the flags left over are those of plays given up.        *)
THEOREM FlagsSafe == Spec => []PlaybackFlags
<1>1. ClientInductive => PlaybackFlags
  BY DEF ClientInductive
<1> QED
  BY <1>1, ClientSafe, PTL

-----------------------------------------------------------------------------
(* A call that has ended.                                                  *)

(* What is emitted is not about it.                                        *)
LEMMA EndedEmit ==
  ASSUME ClientInductive, SilentOnceEnded, NEW c \in Channels, ~Deaf, EndHeard(c)',
         NEW e \in Events, Emit(e), chan[c] = "gone" \/ e = Event("end", c, 0),
         e.kind = "digit" => chan[e.channel] = "stasis",
         keyed'[c] = keyed[c], UNCHANGED queues
  PROVE  Silent(c)'
<1>1. socket = "up"
  BY DEF ClientInductive, LinkSound, TypeOK
<1>2. /\ \A d : OnWire(d) => OnWire(d)'
      /\ \A d : OnWire(d)' => OnWire(d) \/ d = e
      /\ OnWire(e)'
  BY <1>1, Emitted DEF ClientInductive, OnWire
<1>3. chan[c] = "gone" /\ EndHeard(c)
  BY <1>2 DEF EndHeard
<1>4. Queue(c)' = <<>>
  BY <1>3 DEF SilentOnceEnded, Silent, Queue, queues
<1>5. ASSUME NEW d \in 1..keyed[c] PROVE ~OnWire(Event("digit", c, d))'
  <2>1. ~OnWire(Event("digit", c, d))
    BY <1>3 DEF SilentOnceEnded, Silent
  <2>2. Event("digit", c, d) # e
    BY <1>3 DEF Event
  <2> QED
    BY <1>2, <2>1, <2>2
<1> QED
  BY <1>4, <1>5 DEF Silent

LEMMA EndedOutside ==
  ASSUME ClientInductive, SilentOnceEnded, NEW c \in Channels, ~Deaf, EndHeard(c)',
         NEW b \in Channels, Enters(b) \/ Keys(b) \/ HangsUp(b) \/ Executed(b)
  PROVE  Silent(c)'
<1>1. /\ chan \in [Channels -> {"away", "stasis", "gone"}] /\ keyed \in [Channels -> 0..MaxDigits]
      /\ chan'[c] = "gone"
  BY DEF ClientInductive, TypeOK, EndHeard
<1>2. CASE Enters(b)
  <2>1. chan[c] = "gone" /\ Emit(Event("start", b, 0)) /\ UNCHANGED <<keyed, queues>>
    BY <1>1, <1>2 DEF Enters
  <2> QED
    BY <2>1, IsEvent, EndedEmit
<1>3. CASE Keys(b)
  <2>1. /\ chan[b] = "stasis" /\ chan' = chan /\ keyed' = [keyed EXCEPT ![b] = keyed[b] + 1]
        /\ Emit(Event("digit", b, keyed[b] + 1)) /\ UNCHANGED queues /\ keyed[b] + 1 \in Nat
    BY <1>1, <1>3 DEF Keys
  <2>2. chan[c] = "gone" /\ keyed'[c] = keyed[c]
    BY <1>1, <2>1
  <2> QED
    BY <2>1, <2>2, IsEvent, EndedEmit
<1>4. CASE HangsUp(b) \/ (Executed(b) /\ op[b] # "play")
  <2>1. /\ Departs(b) /\ UNCHANGED <<keyed, queues>>
    BY <1>4 DEF HangsUp, Executed
  <2>2. chan[c] = "gone" \/ c = b
    BY <1>1, <2>1 DEF Departs
  <2>3. Emit(Event("end", b, 0))
    BY <2>1 DEF Departs
  <2> QED
    BY <2>1, <2>2, <2>3, IsEvent, EndedEmit
<1>5. CASE Executed(b) /\ op[b] = "play"
  <2>1. UNCHANGED <<chan, wire, keyed, queues>>
    BY <1>5 DEF Executed
  <2> QED
    BY <2>1 DEF Silent, SilentOnceEnded, EndHeard, OnWire, Queue, queues
<1> QED
  BY <1>2, <1>3, <1>4, <1>5

(* Hearing its end is what makes a call so; of another call no event is    *)
(* about its queue.                                                        *)
LEMMA EndedHeard ==
  ASSUME ClientInductive, SilentOnceEnded, NEW c \in Channels, ~Deaf, EndHeard(c)', NextEvent
  PROVE  Silent(c)'
<1> DEFINE e == Head(wire)
<1>1. /\ wire # <<>> /\ wire' = Tail(wire) /\ UNCHANGED <<asterisk, conn, heard>>
      /\ \/ e.kind = "digit" /\ HearDigit(e)
         \/ e.kind = "finished" /\ HearFinished(e)
         \/ e.kind = "end" /\ HearEnd(e)
         \/ e.kind = "start" /\ HearStart(e)
  BY DEF NextEvent
<1>2. /\ e \in Events /\ Pending(e) /\ OnWire(e)
      /\ \A d : OnWire(d) /\ d # e => OnWire(d)'
      /\ \A d : OnWire(d)' => OnWire(d) /\ Follows(e, d)
  BY <1>1, HeadGone DEF ClientInductive
<1> HIDE DEF e
<1>3. chan[c] = "gone" /\ keyed' = keyed /\ ~OnWire(Event("end", c, 0))'
  BY <1>1 DEF EndHeard, asterisk
<1>4. CASE EndHeard(c)
  <2>1. Queue(c) = <<>> /\ \A d \in 1..keyed[c] : ~OnWire(Event("digit", c, d))
    BY <1>4 DEF SilentOnceEnded, Silent
  <2>2. e.kind = "digit" => e.channel # c
    <3> SUFFICES ASSUME e.kind = "digit", e.channel = c PROVE FALSE
      OBVIOUS
    <3>1. e = Event("digit", c, e.n) /\ e.n \in 1..keyed[c]
      BY <1>2 DEF Events, Event, Pending
    <3> QED
      BY <1>2, <2>1, <3>1
  <2>3. Queue(c)' = <<>>
    BY <1>1, <1>2, <2>1, <2>2 DEF Queue, HearDigit, HearFinished, HearEnd, HearStart,
                                  ClientInductive, TypeOK
  <2> QED
    BY <1>2, <1>3, <2>1, <2>3 DEF Silent
<1>5. CASE ~EndHeard(c)
  <2>1. e = Event("end", c, 0)
    BY <1>2, <1>3, <1>5 DEF EndHeard
  <2>2. e.kind = "end" /\ e.channel = c
    BY <2>1 DEF Event
  <2>3. Queue(c)' = <<>>
    BY <1>1, <2>2 DEF HearEnd, Queue
  <2>4. ASSUME NEW d \in 1..keyed[c] PROVE ~OnWire(Event("digit", c, d))'
    BY <1>2, <2>2 DEF Follows, Event
  <2> QED
    BY <1>3, <2>3, <2>4 DEF Silent
<1> QED
  BY <1>4, <1>5

(* A read of it finds nothing and leaves nothing.                          *)
LEMMA EndedRead ==
  ASSUME ClientInductive, SilentOnceEnded, NEW c \in Channels, ~Deaf, EndHeard(c)',
         NEW b \in Channels, Read(b) \/ ReadWakes(b)
  PROVE  Silent(c)'
<1>1. UNCHANGED <<chan, keyed, wire>> /\ (\A d : OnWire(d)' <=> OnWire(d))
  BY DEF Read, ReadWakes, asterisk, OnWire
<1>2. Queue(c) = <<>> /\ \A d \in 1..keyed[c] : ~OnWire(Event("digit", c, d))
  BY <1>1 DEF SilentOnceEnded, Silent, EndHeard
<1>3. Queue(c)' = <<>>
  <2>0. box \in [Channels -> Seq(Nat)]
    BY DEF ClientInductive, TypeOK
  <2>1. CASE b # c
    <3>1. box'[c] = box[c] /\ (c \in listed' <=> c \in listed)
      BY <2>0, <2>1 DEF Read, ReadWakes, Takes
    <3> QED
      BY <1>2, <3>1 DEF Queue
  <2>2. CASE b = c /\ Read(b)
    <3>1. PICK n \in Lengths : Takes(c, <<>>, n)
      BY <1>2, <2>2 DEF Read
    <3>2. n \in Nat /\ Len(<<>>) = 0 /\ n >= 0
      BY <3>1
    <3>3. box'[c] = SubSeq(<<>>, 0 + 1, 0)
      BY <2>0, <3>1, <3>2 DEF Takes
    <3>4. SubSeq(<<>>, 0 + 1, 0) = <<>>
      OBVIOUS
    <3> QED
      BY <3>3, <3>4 DEF Queue
  <2>3. CASE b = c /\ ReadWakes(b)
    <3>1. c \notin listed /\ listed' = listed
      BY <1>2, <2>3 DEF ReadWakes, Queue
    <3> QED
      BY <3>1 DEF Queue
  <2> QED
    BY <2>1, <2>2, <2>3
<1> QED
  BY <1>1, <1>2, <1>3 DEF Silent

LEMMA EndedStep ==
  ASSUME ClientInductive, SilentOnceEnded, [Next]_vars
  PROVE  SilentOnceEnded'
<1> SUFFICES ASSUME NEW c \in Channels, ~Deaf', EndHeard(c)' PROVE Silent(c)'
  BY DEF SilentOnceEnded, Silent, Silent
<1>1. ~Deaf /\ drops' = drops /\ reader' # "closed"
  <2>1. drops \in Nat
    BY DEF ClientInductive, TypeOK
  <2>2. CASE SocketDrops \/ Reader \/ Close \/ CloseSession
    BY <2>1, <2>2 DEF Reader, SocketDrops, NextEvent, NoticeDrop, Reconnected, ReconnectFails,
                      Close, CloseSession, conn, Deaf
  <2>3. CASE Outside /\ ~SocketDrops
    BY <2>1, <2>3 DEF Outside, Enters, Keys, HangsUp, PlaybackEnds, conn, Deaf
  <2>4. CASE Commands
    <3>1. UNCHANGED conn
      BY <2>4 DEF Commands, Completes, Ask, Read, RequestFails, Executed, Replied, Refused,
                  Unsendable, Raises, Played, PlayTimesOut, ReadWakes, ReadTimesOut
    <3> QED
      BY <2>1, <3>1 DEF conn, Deaf
  <2>5. CASE UNCHANGED vars
    BY <2>1, <2>5 DEF vars, conn, Deaf
  <2> QED
    BY <2>2, <2>3, <2>4, <2>5 DEF Next
<1>2. ASSUME UNCHANGED <<chan, keyed, wire, queues>> PROVE Silent(c)'
  BY <1>1, <1>2 DEF Silent, SilentOnceEnded, EndHeard, OnWire, Queue, queues
<1>3. CASE Outside
  <2>1. CASE SocketDrops
    BY <1>1, <2>1 DEF SocketDrops, ClientInductive, TypeOK
  <2>2. ASSUME NEW p \in Playbacks, PlaybackEnds(p) PROVE Silent(c)'
    <3>1. Event("finished", p[1], p[2]) \in Events /\ Event("finished", p[1], p[2]).kind # "digit"
      BY Pairs, IsEvent
    <3>2. /\ Emit(Event("finished", p[1], p[2])) /\ UNCHANGED <<chan, keyed, queues>>
      BY <2>2 DEF PlaybackEnds
    <3>3. chan[c] = "gone"
      BY <3>2 DEF EndHeard
    <3> QED
      BY <1>1, <3>1, <3>2, <3>3, EndedEmit
  <2> QED
    BY <1>1, <1>3, <2>1, <2>2, EndedOutside DEF Outside
<1>4. CASE NextEvent
  BY <1>1, <1>4, EndedHeard
<1>5. CASE NoticeDrop \/ Reconnected \/ ReconnectFails \/ Close \/ CloseSession
  BY <1>1, <1>2, <1>5 DEF NoticeDrop, Reconnected, ReconnectFails, Close, CloseSession, asterisk
<1>6. CASE Commands
  <2> PICK b \in Channels : Ask(b) \/ Read(b) \/ RequestFails(b) \/ Completes(b)
    BY <1>6 DEF Commands
  <2>1. CASE Read(b) \/ ReadWakes(b)
    BY <1>1, <2>1, EndedRead
  <2>2. CASE Executed(b)
    BY <1>1, <2>2, EndedOutside
  <2>3. CASE ~(Read(b) \/ ReadWakes(b) \/ Executed(b))
    BY <1>2, <2>3 DEF Ask, RequestFails, Completes, Replied, Refused, Unsendable, Raises,
                      Played, PlayTimesOut, ReadTimesOut, asterisk
  <2> QED
    BY <2>1, <2>2, <2>3
<1>7. CASE UNCHANGED vars
  BY <1>2, <1>7 DEF vars, asterisk
<1> QED
  BY <1>3, <1>4, <1>5, <1>6, <1>7 DEF Next, Reader

(* The queue of _dtmf_queue is dropped with its call: after StasisEnd a    *)
(* read finds nothing that was keyed before, and nothing comes after.      *)
THEOREM EndedIsSilent == Spec => []SilentOnceEnded
<1>1. Init => SilentOnceEnded
  BY DEF Init, SilentOnceEnded, EndHeard
<1>2. ClientInductive /\ SilentOnceEnded /\ [Next]_vars => SilentOnceEnded'
  BY EndedStep
<1> QED
  BY <1>1, <1>2, ClientSafe, PTL DEF Spec
=============================================================================
