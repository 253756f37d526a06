------------------------------ MODULE Runicast ------------------------------
(***************************************************************************)
(* Reliable unicast to a neighbour: core/net/rime/runicast.c over          *)
(* stunicast.c, a connection of the sender and the application of the      *)
(* receiver, which knows duplicates by the packet ID (example-runicast.c). *)
(* Below is a MAC that answers every packet once, to one address in order  *)
(* (MacService.tla), at once or later; a packet that it has not reported   *)
(* may have been heard any number of times.                                *)
(*                                                                         *)
(* sndnxt is counted without end here; the program keeps it modulo NumIds, *)
(* and that, Id(sndnxt), is the packet ID and all that is compared.  Two   *)
(* assumptions say that IDs do not wrap where they must not: between a     *)
(* packet and its acknowledgement, and between two packets that the        *)
(* receiver hears, sndnxt takes less than NumIds steps.  A third one, of   *)
(* the callers in the repository: none sends from its timedout callback.   *)
(***************************************************************************)
EXTENDS Integers, Sequences, FiniteSets, SequencesExt

CONSTANTS
  NumIds,       \* 1 << RUNICAST_PACKET_ID_BITS
  MaxRxmits,    \* what callers pass as max_retransmissions
  MacSize,      \* a bound: packets that the MAC takes
  AirSize,      \* a bound: packets that the receiver has heard
  MaxPackets,   \* a bound: packets that are sent
  NULL

ASSUME RunicastAssumption ==
  /\ {NumIds, MacSize, AirSize, MaxPackets} \subseteq Nat \ {0}
  /\ MaxRxmits \subseteq 0..255
  /\ NULL \notin [no: Nat, sndnxt: Nat]

VARIABLES
  packets,    \* auxiliary: how many packets were sent, which numbers them
  c,          \* struct runicast_conn; buf and timer are those of its stunicast_conn
  mac,        \* the data packets that the MAC has taken
  air,        \* the data packets that the receiver has still to handle
  acks,       \* the packets whose acknowledgements may arrive, at any time and repeatedly
  sent,       \* auxiliary: the packets for which the sender's sent callback was called
  accepted    \* auxiliary: the packets that the receiver did not take for duplicates

vars == <<packets, c, mac, air, acks, sent, accepted>>

Id(n) == n % NumIds

RunicastInit ==
  /\ packets = 0
  /\ c = [sndnxt |-> 0, is_tx |-> FALSE, rxmit |-> 0, max_rxmit |-> 0, buf |-> NULL,
          timer |-> FALSE]
  /\ mac = <<>> /\ air = <<>> /\ acks = {}
  /\ sent = {} /\ accepted = <<>>

----------------------------------------------------------------------------
(* The sender *)

\* stunicast_cancel
Cancelled(d) == [d EXCEPT !.buf = NULL, !.timer = FALSE]

\* sent_by_stunicast, whichever data packet the report is about.
SameId(d) == [Cancelled(d) EXCEPT !.is_tx = FALSE, !.rxmit = 0]
TimedOut(d) == [Cancelled(d) EXCEPT !.is_tx = FALSE, !.rxmit = 0, !.sndnxt = @ + 1]
NotCounted(d) == d
Reported(d) == IF d.rxmit + 1 >= d.max_rxmit THEN TimedOut(d) ELSE [d EXCEPT !.rxmit = @ + 1]

\* unicast_send of p: the MAC takes it, or reports before it returns.  Then it has
\* not sent it, or it is one that holds no packets.  The connection is then taken
\* or reported.
Hand(p, taken, reported) ==
  \/ /\ Len(mac) < MacSize
     /\ mac' = Append(mac, p) /\ c' = taken
     /\ UNCHANGED air
  \/ /\ c' = reported
     /\ air' \in {air} \cup (IF mac = <<>> /\ Len(air) < AirSize THEN {Append(air, p)} ELSE {})
     /\ UNCHANGED mac

Begun(max) == [c EXCEPT !.max_rxmit = max, !.rxmit = 0, !.is_tx = TRUE]

\* runicast_send, and stunicast_send_stubborn when there is a queuebuf.
Send(max) ==
  /\ ~c.is_tx /\ packets < MaxPackets
  /\ packets' = packets + 1
  /\ LET p == [no |-> packets', sndnxt |-> c.sndnxt]
         d == [Begun(max) EXCEPT !.buf = p, !.timer = TRUE]
     IN Hand(p, d, Reported(d))
  /\ UNCHANGED <<acks, sent, accepted>>

SendFails(max) ==
  /\ ~c.is_tx
  /\ c' = [Begun(max) EXCEPT !.is_tx = FALSE]
  /\ UNCHANGED <<packets, mac, air, acks, sent, accepted>>

\* send of stunicast.c: the timer is restarted whatever the report has done.
Resend ==
  /\ c.timer /\ c.buf # NULL
  /\ Hand(c.buf, [c EXCEPT !.timer = TRUE], [Reported(c) EXCEPT !.timer = TRUE])
  /\ UNCHANGED <<packets, acks, sent, accepted>>

TimerWithoutPacket ==
  /\ c.timer /\ c.buf = NULL
  /\ c' = [c EXCEPT !.timer = FALSE]
  /\ UNCHANGED <<packets, mac, air, acks, sent, accepted>>

MacReports ==
  /\ mac # <<>>
  /\ mac' = Tail(mac) /\ c' = Reported(c)
  /\ UNCHANGED <<packets, air, acks, sent, accepted>>

\* recv_from_stunicast of an ACK; one with another ID is ignored.
AckArrives(p) ==
  /\ p \in acks /\ c.sndnxt - p.sndnxt < NumIds
  /\ Id(p.sndnxt) = Id(c.sndnxt)
  /\ c' = [Cancelled(c) EXCEPT !.sndnxt = @ + 1, !.is_tx = FALSE]
  /\ sent' = sent \cup {c.buf}
  /\ UNCHANGED <<packets, mac, air, acks, accepted>>

----------------------------------------------------------------------------
(* The radio and the receiver *)

Transmit ==
  /\ mac # <<>> /\ Len(air) < AirSize
  /\ air' = Append(air, Head(mac))
  /\ UNCHANGED <<packets, c, mac, acks, sent, accepted>>

\* recv_from_stunicast of DATA and recv_runicast: duplicates are acknowledged too.
\* The ACK may not be sent, for want of a queuebuf, or be lost.
Duplicate(p) == accepted # <<>> /\ Id(Last(accepted).sndnxt) = Id(p.sndnxt)
Receive ==
  /\ air # <<>>
  /\ accepted # <<>> => Head(air).sndnxt - Last(accepted).sndnxt < NumIds
  /\ air' = Tail(air)
  /\ accepted' = IF Duplicate(Head(air)) THEN accepted ELSE Append(accepted, Head(air))
  /\ acks' \in {acks, acks \cup {Head(air)}}
  /\ UNCHANGED <<packets, c, mac, sent>>

RunicastNext ==
  \/ \E max \in MaxRxmits : Send(max) \/ SendFails(max)
  \/ Resend \/ TimerWithoutPacket \/ MacReports \/ Transmit \/ Receive
  \/ \E p \in acks : AckArrives(p)

RunicastSpec == RunicastInit /\ [][RunicastNext]_vars
RunicastFairSpec == RunicastSpec /\ WF_vars(Resend) /\ WF_vars(MacReports)

----------------------------------------------------------------------------
(* Properties *)

(* What the sender is told was sent has been accepted by the receiver, and *)
(* the receiver accepts the packets in the order in which they were sent   *)
(* and each one once, although packets and acknowledgements are repeated,  *)
(* lost and late and reports of earlier packets time out later ones.       *)
SentIsAccepted == sent \subseteq Range(accepted)
InOrderOnce == \A i, j \in DOMAIN accepted : i < j => accepted[i].no < accepted[j].no
Reliable == SentIsAccepted /\ InOrderOnce

(* Every packet comes to an end: the connection does not stay transmitting *)
(* behind a timer or a report that does not come.                          *)
SendEnds == c.is_tx ~> ~c.is_tx

=============================================================================
