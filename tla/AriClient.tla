----------------------------- MODULE AriClient -----------------------------
(***************************************************************************)
(* engine/ari_client.py: REST commands to Asterisk, and the WebSocket its  *)
(* events come back on.  What is hard is that the two are not ordered: the *)
(* reply to a play may come after the event that says the playback is      *)
(* over, a digit before the read that wants it, the end of a call before a *)
(* command to it.                                                          *)
(*                                                                         *)
(* One worker per channel issues one command at a time, and awaits it.  An *)
(* action is what a coroutine does between two awaits.  Digits are told    *)
(* apart by their place in what the caller keyed.                          *)
(***************************************************************************)
EXTENDS Naturals, Sequences

CONSTANTS Channels,
          Lengths,                (* the num_digits that reads ask for             *)
          BaseDelay, MaxDelay,    (* RECONNECT_BASE_S, RECONNECT_MAX_S             *)
          MaxDigits, MaxCommands, (* bounds, per channel                           *)
          MaxDrops                (* bound: how often the WebSocket drops          *)

ASSUME AriAssumption ==
  /\ Lengths \subseteq Nat \ {0}
  /\ BaseDelay \in Nat \ {0} /\ MaxDelay \in Nat /\ BaseDelay <= MaxDelay
  /\ MaxDigits \in Nat /\ MaxCommands \in Nat /\ MaxDrops \in Nat

VARIABLES
  chan,           \* each channel, as Asterisk has it
  keyed,          \* how many digits its caller has keyed
  playback,       \* each playback, as Asterisk has it
  socket, wire,   \* the WebSocket, and the events on it
  reader, delay,  \* _reader: where it is, and backoff
  listed, box,    \* _dtmf_queues: the channels it has a queue for; each one's latest queue
  finished,       \* _playback_finished: no entry, an unset event, or a set one
  step, op,       \* each worker: where its command is, and which request it makes
  issued,         \* how many commands it has issued
  left,           \* read_digits: how many digits are still wanted
  ending,         \* channels only to be hung up: refused, or a command to them raised
  session,        \* the REST session
  drops,          \* how often the WebSocket has dropped
  heard,          \* history: the digits that reads have taken
  givenUp         \* history: playbacks play() timed out on or never heard the id of

asterisk == <<chan, keyed, playback>>
conn     == <<socket, reader, delay, session, drops>>
queues   == <<listed, box, heard>>
flags    == <<finished, givenUp>>
worker   == <<step, op, issued, left, ending>>
vars     == <<asterisk, wire, conn, queues, flags, worker>>

(* answer and set_channel_var, whose replies nothing waits behind, are     *)
(* left out; hangup and continue_in_dialplan take the channel away.        *)
Requests  == {"play", "leave"}
Playbacks == Channels \X (1..MaxCommands)

Event(kind, c, n) == [kind |-> kind, channel |-> c, n |-> n]
Events == [kind : {"start", "digit", "finished", "end"}, channel : Channels, n : Nat]

(* The playback that c's command is about. *)
Mine(c) == <<c, issued[c]>>

TypeOK ==
  /\ chan \in [Channels -> {"away", "stasis", "gone"}]
  /\ keyed \in [Channels -> 0..MaxDigits]
  /\ playback \in [Playbacks -> {"unborn", "playing", "finished", "cut"}]
  /\ socket \in {"up", "down"}
  /\ wire \in Seq(Events)
  /\ reader \in {"reading", "sleeping", "closed"}
  /\ delay \in BaseDelay..MaxDelay
  /\ listed \subseteq Channels
  /\ box \in [Channels -> Seq(Nat)]
  /\ finished \in [Playbacks -> {"none", "clear", "set"}]
  /\ step \in [Channels -> {"none", "idle", "asking", "answered", "waiting", "reading"}]
  /\ op \in [Channels -> Requests]
  /\ issued \in [Channels -> 0..MaxCommands]
  /\ left \in [Channels -> Nat]
  /\ ending \subseteq Channels
  /\ session \in BOOLEAN /\ drops \in 0..MaxDrops
  /\ heard \in [Channels -> Seq(Nat)]
  /\ givenUp \subseteq Channels \X Nat

(* connect() has opened the session and the WebSocket. *)
Init ==
  /\ chan = [c \in Channels |-> "away"] /\ keyed = [c \in Channels |-> 0]
  /\ playback = [p \in Playbacks |-> "unborn"]
  /\ socket = "up" /\ wire = <<>>
  /\ reader = "reading" /\ delay = BaseDelay
  /\ listed = {} /\ box = [c \in Channels |-> <<>>]
  /\ finished = [p \in Playbacks |-> "none"]
  /\ step = [c \in Channels |-> "none"] /\ op = [c \in Channels |-> "leave"]
  /\ issued = [c \in Channels |-> 0] /\ left = [c \in Channels |-> 0]
  /\ ending = {} /\ session = TRUE /\ drops = 0
  /\ heard = [c \in Channels |-> <<>>] /\ givenUp = {}

-----------------------------------------------------------------------------
(* Asterisk, the caller and the network (external).                        *)

(* An event is for whoever is connected. *)
Emit(e) == wire' = IF socket = "up" THEN Append(wire, e) ELSE wire

Enters(c) ==
  /\ chan[c] = "away"
  /\ chan' = [chan EXCEPT ![c] = "stasis"]
  /\ Emit(Event("start", c, 0))
  /\ UNCHANGED <<keyed, playback, conn, queues, flags, worker>>

Keys(c) ==
  /\ chan[c] = "stasis" /\ keyed[c] < MaxDigits
  /\ keyed' = [keyed EXCEPT ![c] = @ + 1]
  /\ Emit(Event("digit", c, keyed[c] + 1))
  /\ UNCHANGED <<chan, playback, conn, queues, flags, worker>>

(* A channel's playbacks end in the order they were asked for. *)
PlaybackEnds(p) ==
  /\ playback[p] = "playing"
  /\ \A q \in Playbacks : q[1] = p[1] /\ q[2] < p[2] => playback[q] # "playing"
  /\ playback' = [playback EXCEPT ![p] = "finished"]
  /\ Emit(Event("finished", p[1], p[2]))
  /\ UNCHANGED <<chan, keyed, conn, queues, flags, worker>>

(* Out of Stasis: what still played is cut off, and nothing says so. *)
Departs(c) ==
  /\ chan' = [chan EXCEPT ![c] = "gone"]
  /\ playback' = [p \in Playbacks |->
                    IF p[1] = c /\ playback[p] = "playing" THEN "cut" ELSE playback[p]]
  /\ Emit(Event("end", c, 0))

HangsUp(c) ==
  /\ chan[c] = "stasis"
  /\ Departs(c)
  /\ UNCHANGED <<keyed, conn, queues, flags, worker>>

(* What has already arrived is still read. *)
SocketDrops ==
  /\ socket = "up" /\ reader = "reading" /\ drops < MaxDrops
  /\ drops' = drops + 1
  /\ socket' = "down"
  /\ \E n \in 0..Len(wire) : wire' = SubSeq(wire, 1, n)
  /\ UNCHANGED <<asterisk, reader, delay, session, queues, flags, worker>>

-----------------------------------------------------------------------------
(* _reader and _handle_message.                                            *)

(* A queue there is an entry for is used; otherwise a new one is listed.   *)
Queue(c) == IF c \in listed THEN box[c] ELSE <<>>

HearDigit(e) ==
  /\ listed' = listed \cup {e.channel}
  /\ box' = [box EXCEPT ![e.channel] = Append(Queue(e.channel), e.n)]
  /\ UNCHANGED <<finished, worker>>

HearFinished(e) ==
  /\ finished' = [finished EXCEPT ![<<e.channel, e.n>>] = "set"]
  /\ UNCHANGED <<listed, box, worker>>

(* Mutant: the queue outlives its call. *)
HearEnd_Kept(e) == UNCHANGED <<listed, box, finished, worker>>

(* A read under way keeps the queue it has. *)
HearEnd(e) ==
  /\ listed' = listed \ {e.channel}
  /\ UNCHANGED <<box, finished, worker>>

(* The engine picks the call up or, for it may be busy, only hangs it up.  *)
HearStart(e) ==
  /\ step' = [step EXCEPT ![e.channel] = "idle"]
  /\ ending' \in {ending, ending \cup {e.channel}}
  /\ UNCHANGED <<listed, box, finished, op, issued, left>>

NextEvent ==
  /\ reader = "reading" /\ wire # <<>>
  /\ wire' = Tail(wire)
  /\ LET e == Head(wire) IN
     \/ e.kind = "digit" /\ HearDigit(e)
     \/ e.kind = "finished" /\ HearFinished(e)
     \/ e.kind = "end" /\ HearEnd(e)
     \/ e.kind = "start" /\ HearStart(e)
  /\ UNCHANGED <<asterisk, conn, heard, givenUp>>

NoticeDrop ==
  /\ reader = "reading" /\ socket = "down" /\ wire = <<>>
  /\ reader' = "sleeping"
  /\ UNCHANGED <<asterisk, wire, socket, delay, session, drops, queues, flags, worker>>

Reconnected ==
  /\ reader = "sleeping"
  /\ reader' = "reading" /\ socket' = "up" /\ delay' = BaseDelay
  /\ UNCHANGED <<asterisk, wire, session, drops, queues, flags, worker>>

(* Mutant: the exception ends the reader. *)
ReconnectFails_Fatal ==
  /\ reader = "sleeping"
  /\ delay' = IF 2 * delay < MaxDelay THEN 2 * delay ELSE MaxDelay
  /\ reader' = "dead"
  /\ UNCHANGED <<asterisk, wire, socket, session, drops, queues, flags, worker>>

(* The old WebSocket is read again, is found closed at once, and the next  *)
(* wait begins.                                                            *)
ReconnectFails ==
  /\ reader = "sleeping"
  /\ delay' = IF 2 * delay < MaxDelay THEN 2 * delay ELSE MaxDelay
  /\ UNCHANGED <<asterisk, wire, socket, reader, session, drops, queues, flags, worker>>

-----------------------------------------------------------------------------
(* Commands.                                                               *)

Ready(c) == step[c] = "idle" /\ issued[c] < MaxCommands

Ask(c) ==
  /\ Ready(c)
  /\ \E o \in IF c \in ending THEN {"leave"} ELSE Requests : op' = [op EXCEPT ![c] = o]
  /\ step' = [step EXCEPT ![c] = "asking"]
  /\ issued' = [issued EXCEPT ![c] = @ + 1]
  /\ UNCHANGED <<asterisk, wire, conn, queues, flags, left, ending>>

(* Asterisk acts (external). *)
Executed(c) ==
  /\ step[c] = "asking" /\ chan[c] = "stasis" /\ session
  /\ step' = [step EXCEPT ![c] = "answered"]
  /\ \/ /\ op[c] = "play"
        /\ playback' = [playback EXCEPT ![Mine(c)] = "playing"]
        /\ UNCHANGED <<chan, wire>>
     \/ op[c] = "leave" /\ Departs(c)
  /\ UNCHANGED <<keyed, conn, queues, flags, op, issued, left, ending>>

(* Mutant: play registers its event without looking whether there is one. *)
Replied_Fresh(c) ==
  /\ step[c] = "answered" /\ session
  /\ \/ /\ op[c] = "play"
        /\ finished' = [finished EXCEPT ![Mine(c)] = "clear"]
        /\ step' = [step EXCEPT ![c] = "waiting"]
     \/ /\ op[c] # "play"
        /\ step' = [step EXCEPT ![c] = "idle"]
        /\ UNCHANGED finished
  /\ UNCHANGED <<asterisk, wire, conn, queues, givenUp, op, issued, left, ending>>

(* The reply: play finds out the playback's id and waits for it.           *)
Replied(c) ==
  /\ step[c] = "answered" /\ session
  /\ \/ /\ op[c] = "play"
        /\ finished' = [finished EXCEPT ![Mine(c)] = IF @ = "none" THEN "clear" ELSE @]
        /\ step' = [step EXCEPT ![c] = "waiting"]
     \/ /\ op[c] # "play"
        /\ step' = [step EXCEPT ![c] = "idle"]
        /\ UNCHANGED finished
  /\ UNCHANGED <<asterisk, wire, conn, queues, givenUp, op, issued, left, ending>>

(* raise_for_status, a lost connection, or no session: the Mode is over.   *)
Raises(c) ==
  /\ step' = [step EXCEPT ![c] = "idle"]
  /\ ending' = ending \cup {c}
  /\ givenUp' = IF step[c] = "answered" /\ op[c] = "play"
                  THEN givenUp \cup {Mine(c)} ELSE givenUp
  /\ UNCHANGED <<asterisk, wire, conn, queues, finished, op, issued, left>>

Refused(c) ==
  /\ step[c] = "asking" /\ chan[c] # "stasis"
  /\ Raises(c)

(* Before Asterisk has acted, or after. *)
RequestFails(c) ==
  /\ step[c] \in {"asking", "answered"}
  /\ Raises(c)

Unsendable(c) ==
  /\ step[c] \in {"asking", "answered"} /\ ~session
  /\ Raises(c)

Played(c) ==
  /\ step[c] = "waiting" /\ finished[Mine(c)] = "set"
  /\ step' = [step EXCEPT ![c] = "idle"]
  /\ finished' = [finished EXCEPT ![Mine(c)] = "none"]
  /\ UNCHANGED <<asterisk, wire, conn, queues, givenUp, op, issued, left, ending>>

(* Mutant: the bound is left off once the WebSocket has been reconnected. *)
PlayTimesOut_Connected(c) ==
  /\ step[c] = "waiting" /\ socket = "up" /\ drops = 0
  /\ step' = [step EXCEPT ![c] = "idle"]
  /\ finished' = [finished EXCEPT ![Mine(c)] = "none"]
  /\ givenUp' = givenUp \cup {Mine(c)}
  /\ UNCHANGED <<asterisk, wire, conn, queues, op, issued, left, ending>>

(* The timeout may fire with the event just set. *)
PlayTimesOut(c) ==
  /\ step[c] = "waiting"
  /\ step' = [step EXCEPT ![c] = "idle"]
  /\ finished' = [finished EXCEPT ![Mine(c)] = "none"]
  /\ givenUp' = givenUp \cup {Mine(c)}
  /\ UNCHANGED <<asterisk, wire, conn, queues, op, issued, left, ending>>

(* read_digits takes what is there before it first waits; get() on a queue *)
(* that is not empty never does.                                           *)
Takes(c, q, wanted) ==
  LET k == IF wanted < Len(q) THEN wanted ELSE Len(q) IN
  /\ heard' = [heard EXCEPT ![c] = @ \o SubSeq(q, 1, k)]
  /\ box' = [box EXCEPT ![c] = SubSeq(q, k + 1, Len(q))]
  /\ left' = [left EXCEPT ![c] = wanted - k]
  /\ step' = [step EXCEPT ![c] = IF wanted = k THEN "idle" ELSE "reading"]

Read(c) ==
  /\ Ready(c) /\ c \notin ending
  /\ \E n \in Lengths : Takes(c, Queue(c), n)
  /\ listed' = listed \cup {c}
  /\ issued' = [issued EXCEPT ![c] = @ + 1]
  /\ UNCHANGED <<asterisk, wire, conn, flags, op, ending>>

(* A digit has woken it: the queue it holds may no longer be listed. *)
ReadWakes(c) ==
  /\ step[c] = "reading" /\ box[c] # <<>>
  /\ Takes(c, box[c], left[c])
  /\ UNCHANGED <<asterisk, wire, conn, listed, flags, op, issued, ending>>

(* Mutant: what the queue has got is thrown away with the read. *)
ReadTimesOut_Drained(c) ==
  /\ step[c] = "reading"
  /\ step' = [step EXCEPT ![c] = "idle"]
  /\ left' = [left EXCEPT ![c] = 0]
  /\ box' = [box EXCEPT ![c] = <<>>]
  /\ UNCHANGED <<asterisk, wire, conn, listed, heard, flags, op, issued, ending>>

(* The answer is what has been taken; a digit that was just too late stays *)
(* for the next read.                                                      *)
ReadTimesOut(c) ==
  /\ step[c] = "reading"
  /\ step' = [step EXCEPT ![c] = "idle"]
  /\ left' = [left EXCEPT ![c] = 0]
  /\ UNCHANGED <<asterisk, wire, conn, queues, flags, op, issued, ending>>

-----------------------------------------------------------------------------
(* close(): the reader is cancelled, then the session goes.                *)

Close ==
  /\ reader # "closed"
  /\ reader' = "closed" /\ socket' = "down" /\ wire' = <<>>
  /\ UNCHANGED <<asterisk, delay, session, drops, queues, flags, worker>>

CloseSession ==
  /\ reader = "closed" /\ session
  /\ session' = FALSE
  /\ UNCHANGED <<asterisk, wire, socket, reader, delay, drops, queues, flags, worker>>

-----------------------------------------------------------------------------
Outside == \/ \E c \in Channels : Enters(c) \/ Keys(c) \/ HangsUp(c)
           \/ \E p \in Playbacks : PlaybackEnds(p)
           \/ SocketDrops

Reader == NextEvent \/ NoticeDrop \/ Reconnected \/ ReconnectFails

(* What a command does once it has been issued. *)
Completes(c) ==
  \/ Executed(c) \/ Replied(c) \/ Refused(c) \/ Unsendable(c)
  \/ Played(c) \/ PlayTimesOut(c) \/ ReadWakes(c) \/ ReadTimesOut(c)

Commands == \E c \in Channels : Ask(c) \/ Read(c) \/ RequestFails(c) \/ Completes(c)

Next == Outside \/ Reader \/ Commands \/ Close \/ CloseSession

Spec == Init /\ [][Next]_vars

(* The loop runs what is ready, timers fire, and Asterisk, given time,     *)
(* answers requests and takes the engine back.  Callers owe nothing.       *)
FairSpec ==
  /\ Spec
  /\ WF_vars(NextEvent) /\ WF_vars(NoticeDrop) /\ WF_vars(Reconnected)
  /\ \A c \in Channels : WF_vars(Completes(c))

-----------------------------------------------------------------------------
(* Safety.                                                                 *)

Rising(s)    == \A i, j \in 1..Len(s) : i < j => s[i] < s[j]
Below(s, t)  == \A i \in 1..Len(s), j \in 1..Len(t) : s[i] < t[j]
Under(s, n)  == \A i \in 1..Len(s) : s[i] < n
Occurs(d, s) == \E i \in 1..Len(s) : s[i] = d
OnWire(e)    == \E i \in 1..Len(wire) : wire[i] = e
EndHeard(c)  == chan[c] = "gone" /\ ~OnWire(Event("end", c, 0))

(* Whether an event can have been missed. *)
Deaf == drops > 0 \/ reader = "closed"

(* The worker of p's channel is in the play that p is of. *)
Awaited(p) == /\ issued[p[1]] = p[2] /\ op[p[1]] = "play"
              /\ step[p[1]] \in {"answered", "waiting"}

(* read_digits, the queues and the socket between them: the digits of a    *)
(* caller are heard in the order they were keyed, none twice - whatever    *)
(* timed out, dropped or raced - and, until the call ends, every one of    *)
(* them is heard, or waits for the next read, unless the socket dropped.   *)
DigitsInOrder ==
  \A c \in Channels :
    /\ Rising(heard[c]) /\ Rising(box[c]) /\ Below(heard[c], box[c])
    /\ ~Deaf /\ ~EndHeard(c) =>
         \A d \in 1..keyed[c] :
           \/ Occurs(d, heard[c]) \/ Occurs(d, box[c])
           \/ OnWire(Event("digit", c, d))

(* There is nothing to read of a caller, and nothing on its way.           *)
Silent(c) == Queue(c) = <<>> /\ \A d \in 1..keyed[c] : ~OnWire(Event("digit", c, d))

(* StasisEnd and the queues: once the end of a call has been heard, a read *)
(* finds nothing to take, however much was keyed and never read, and no    *)
(* digit comes after - unless an event was missed.                         *)
SilentOnceEnded == \A c \in Channels : ~Deaf /\ EndHeard(c) => Silent(c)

(* play() and PlaybackFinished, in whichever order they come: a playback   *)
(* that is over releases the play that waits for it, a play is released by *)
(* nothing else, and an entry of _playback_finished that nobody waits for  *)
(* is one whose play timed out or was never told the playback's id.        *)
PlaybackFlags ==
  \A p \in Playbacks :
    /\ Awaited(p) /\ playback[p] = "finished" /\ ~Deaf =>
         finished[p] = "set" \/ OnWire(Event("finished", p[1], p[2]))
    /\ finished[p] = "set" => playback[p] = "finished"
    /\ finished[p] # "none" => p \in givenUp \/ Awaited(p)

(* What makes them inductive. *)

(* Who is connected, and when the socket can be down. *)
LinkSound ==
  /\ reader # "reading" => socket = "down" /\ wire = <<>>
  /\ socket = "down" => Deaf
  /\ ~session => reader = "closed"

(* An event on the wire is about something that has happened and that has  *)
(* not been heard of.                                                      *)
Pending(e) == LET c == e.channel p == <<c, e.n>> IN
  /\ e.kind = "start" => e.n = 0 /\ step[c] = "none" /\ chan[c] # "away"
  /\ e.kind = "end" => e.n = 0 /\ chan[c] = "gone"
  /\ e.kind = "digit" => e.n \in 1..keyed[c] /\ Under(heard[c], e.n) /\ Under(box[c], e.n)
  /\ e.kind = "finished" =>
       /\ p \in Playbacks /\ playback[p] = "finished" /\ finished[p] # "set"
       /\ p \in givenUp \/ Awaited(p)

WireSound == \A i \in 1..Len(wire) : Pending(wire[i])

(* Events are on the wire once, digits in the order they were keyed and    *)
(* none after the end of its call.                                         *)
Follows(d, e) ==
  /\ d # e
  /\ d.kind = "end" /\ e.kind = "digit" => d.channel # e.channel
  /\ d.kind = "digit" /\ e.kind = "digit" /\ d.channel = e.channel => d.n < e.n

WireOrder == \A i, j \in 1..Len(wire) : i < j => Follows(wire[i], wire[j])

(* Only keyed digits are anywhere; a queue is let go of only at the end.   *)
QueueSound ==
  \A c \in Channels :
    /\ Under(heard[c], keyed[c] + 1) /\ Under(box[c], keyed[c] + 1)
    /\ c \notin listed /\ ~Deaf /\ ~EndHeard(c) => box[c] = <<>>

(* A worker starts with its call; a playback belongs to a command issued,  *)
(* one that is only asked for has yet to start, and one that plays is      *)
(* awaited or given up on.                                                 *)
WorkerSound ==
  /\ \A c \in Channels : chan[c] = "away" => step[c] = "none"
  /\ \A p \in Playbacks :
       /\ playback[p] # "unborn" =>
            p[2] <= issued[p[1]] /\ (p[2] = issued[p[1]] => step[p[1]] # "asking")
       /\ playback[p] = "playing" => p \in givenUp \/ Awaited(p)

(* The invariant the three are proved from.                                *)
ClientInductive ==
  /\ TypeOK /\ LinkSound /\ WireSound /\ WireOrder /\ QueueSound /\ WorkerSound
  /\ DigitsInOrder /\ PlaybackFlags

-----------------------------------------------------------------------------
(* Liveness.                                                               *)

(* The worker thread blocks on each command: each one comes back, whatever *)
(* events were lost and however the call ended.                            *)
CommandsReturn == \A c \in Channels : step[c] \notin {"none", "idle"} ~> step[c] = "idle"

(* _reader: an Asterisk restart "doesn't leave the engine permanently      *)
(* deaf": what drops comes up again, unless the client is closed.          *)
HearsAgain == socket = "down" ~> socket = "up" \/ reader = "closed"
=============================================================================
