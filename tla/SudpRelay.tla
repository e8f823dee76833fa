----------------------------- MODULE SudpRelay -----------------------------
(***************************************************************************)
(* The relay of a SUDP connection (sudp_bridge and relay_sudp_frames in    *)
(* serve.rs): one future per connection, each the only owner of its        *)
(* FrpConn, and a bounded channel of packets into each of them.            *)
(*                                                                         *)
(* A future selects between its connection and its channel; inside the arm *)
(* it has chosen it awaits the send into the other's channel, or the write *)
(* to its connection, and looks at nothing else.  A packet is the number   *)
(* it has among those its side has read; pings are consumed in place and   *)
(* left out.                                                               *)
(***************************************************************************)
EXTENDS Integers, SequencesExt

CONSTANTS
  Cap,        \* capacity of a channel (1024 in the code)
  MaxPackets  \* packets each end sends in one behaviour

ASSUME SudpAssumption == Cap \in Nat \ {0} /\ MaxPackets \in Nat

Sides == {"visitor", "provider"}
Peer(s) == IF s = "visitor" THEN "provider" ELSE "visitor"

VARIABLES
  attached,  \* ends that have not closed their connection
  side,      \* where each future is, and the packet in its hands
  chan,      \* the channel into each side
  read,      \* packets read from each connection
  written,   \* packets written to each connection
  bounced    \* sides that ended because nobody took their packet (history)

sudpVars == <<attached, side, chan, read, written, bounced>>

At(where, packet) == [at |-> where, packet |-> packet]
Ended(s) == side[s].at = "ended"
Goto(s, where, packet) == side' = [side EXCEPT ![s] = At(where, packet)]

-----------------------------------------------------------------------------
SudpInit ==
  /\ attached = Sides
  /\ side = [s \in Sides |-> At("select", 0)]
  /\ chan = [s \in Sides |-> <<>>]
  /\ read = [s \in Sides |-> 0]
  /\ written = [s \in Sides |-> <<>>]
  /\ bounced = {}

(* The arm of the connection: a packet.                                    *)
RecvMsg(s) ==
  /\ side[s].at = "select"
  /\ s \in attached /\ read[s] < MaxPackets
  /\ read' = [read EXCEPT ![s] = @ + 1]
  /\ Goto(s, "send", read[s] + 1)
  /\ UNCHANGED <<attached, chan, written, bounced>>

(* The arm of the connection: closed, or an error.                         *)
RecvClosed(s) ==
  /\ side[s].at = "select"
  /\ s \notin attached
  /\ Goto(s, "ended", 0)
  /\ UNCHANGED <<attached, chan, read, written, bounced>>

(* As if a full channel let the packet fall.                               *)
TrySend(s) ==
  /\ side[s].at = "send" /\ ~Ended(Peer(s))
  /\ chan' = IF Len(chan[Peer(s)]) < Cap
             THEN [chan EXCEPT ![Peer(s)] = Append(@, side[s].packet)] ELSE chan
  /\ Goto(s, "select", 0)
  /\ UNCHANGED <<attached, read, written, bounced>>

(* As if the channel had no bound.                                         *)
SendUnbounded(s) ==
  /\ side[s].at = "send" /\ ~Ended(Peer(s))
  /\ chan' = [chan EXCEPT ![Peer(s)] = Append(@, side[s].packet)]
  /\ Goto(s, "select", 0)
  /\ UNCHANGED <<attached, read, written, bounced>>

(* The channel has room.                                                   *)
Send(s) ==
  /\ side[s].at = "send" /\ ~Ended(Peer(s))
  /\ Len(chan[Peer(s)]) < Cap
  /\ chan' = [chan EXCEPT ![Peer(s)] = Append(@, side[s].packet)]
  /\ Goto(s, "select", 0)
  /\ UNCHANGED <<attached, read, written, bounced>>

(* The other side has ended and dropped its receiver.                      *)
SendFails(s) ==
  /\ side[s].at = "send" /\ Ended(Peer(s))
  /\ Goto(s, "ended", 0)
  /\ bounced' = bounced \cup {s}
  /\ UNCHANGED <<attached, chan, read, written>>

(* The arm of the channel: a packet.                                       *)
RecvPacket(s) ==
  /\ side[s].at = "select" /\ chan[s] # <<>>
  /\ chan' = [chan EXCEPT ![s] = Tail(@)]
  /\ Goto(s, "write", Head(chan[s]))
  /\ UNCHANGED <<attached, read, written, bounced>>

(* As if the end of the other side were not noticed.                       *)
RecvIgnored(s) ==
  /\ side[s].at = "select" /\ chan[s] = <<>> /\ Ended(Peer(s))
  /\ s \notin attached
  /\ Goto(s, "ended", 0)
  /\ UNCHANGED <<attached, chan, read, written, bounced>>

(* The arm of the channel: empty, and its sender dropped.                  *)
RecvNone(s) ==
  /\ side[s].at = "select" /\ chan[s] = <<>> /\ Ended(Peer(s))
  /\ Goto(s, "ended", 0)
  /\ UNCHANGED <<attached, chan, read, written, bounced>>

(* A write to a connection whose end has gone may still be accepted.       *)
WritePacket(s) ==
  /\ side[s].at = "write"
  /\ written' = [written EXCEPT ![s] = Append(@, side[s].packet)]
  /\ Goto(s, "select", 0)
  /\ UNCHANGED <<attached, chan, read, bounced>>

WriteFails(s) ==
  /\ side[s].at = "write" /\ s \notin attached
  /\ Goto(s, "ended", 0)
  /\ UNCHANGED <<attached, chan, read, written, bounced>>

(* The client at an end of the relay closes its connection.                *)
EndCloses(s) ==
  /\ s \in attached
  /\ attached' = attached \ {s}
  /\ UNCHANGED <<side, chan, read, written, bounced>>

(* What the future does without a packet from its end.                     *)
Step(s) ==
  RecvClosed(s) \/ Send(s) \/ SendFails(s)
    \/ RecvPacket(s) \/ RecvNone(s) \/ WritePacket(s) \/ WriteFails(s)

SudpNext == \E s \in Sides : RecvMsg(s) \/ Step(s) \/ EndCloses(s)

(* join! polls both futures; select! takes a ready arm at random, so that  *)
(* neither arm waits for ever; the ends read what is written to them.      *)
SudpFairness ==
  \A s \in Sides :
    WF_sudpVars(Step(s)) /\ SF_sudpVars(RecvClosed(s)) /\ SF_sudpVars(RecvPacket(s)) /\ SF_sudpVars(RecvNone(s))

SudpSpec == SudpInit /\ [][SudpNext]_sudpVars /\ SudpFairness

-----------------------------------------------------------------------------
(* Every variable keeps its type; a channel never holds more than its      *)
(* capacity (serve.rs 3539-3541).                                          *)
SudpTypeOK ==
  /\ attached \subseteq Sides /\ bounced \subseteq Sides
  /\ side \in [Sides -> [at : {"select", "send", "write", "ended"}, packet : 0 .. MaxPackets]]
  /\ read \in [Sides -> 0 .. MaxPackets]
  /\ chan \in [Sides -> Seq(1 .. MaxPackets)]
  /\ \A s \in Sides : Len(chan[s]) <= Cap
  /\ written \in [Sides -> Seq(1 .. MaxPackets)]

(* Packets leave in the order they came, none twice and none skipped; when *)
(* the relay is over, those that were read and not written are lost for a  *)
(* reason: their end had closed its connection, or its future met the end  *)
(* of the other side with a packet of its own and left its channel behind  *)
(* (serve.rs 3553-3576).                                        *)
LossExplained ==
  \A s \in Sides :
    /\ \A i \in 1 .. Len(written[s]) : written[s][i] = i
    /\ (\A t \in Sides : Ended(t)) =>
         Len(written[s]) = read[Peer(s)] \/ s \notin attached \/ s \in bounced

(* Both futures hold a packet for a full channel: each waits for the other *)
(* to take one, and neither looks at its connection again.                 *)
Jammed == \A s \in Sides : side[s].at = "send" /\ Len(chan[s]) = Cap

(* When an end closes, the relay is over, whatever is queued: only a jam   *)
(* keeps it (serve.rs 3530-3533).                                          *)
EndsUnlessJammed == attached # Sides ~> (Jammed \/ \A s \in Sides : Ended(s))

(* When an end closes, the relay is over (serve.rs 3532-3533: nothing is   *)
(* left hanging).                                                          *)
NothingHangs == attached # Sides ~> \A s \in Sides : Ended(s)
=============================================================================
