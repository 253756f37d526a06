-------------------------------- MODULE Csma --------------------------------
(***************************************************************************)
(* The CSMA MAC, core/net/mac/csma.c, over the RDC layer nullrdc.c: a      *)
(* queue of packets per neighbour, built from four pools of blocks, whose  *)
(* packets are sent when the neighbour's callback timer fires and sent     *)
(* again, after a backoff, when they fail.                                 *)
(*                                                                         *)
(* One call of transmit_packet_list runs deep: send_list sends packet      *)
(* after packet, reports each to packet_sent, which may free it and with   *)
(* it the neighbour, and calls the upper layer, which may send again       *)
(* before send_list goes on with what it kept.  The variable call is where *)
(* that call is.  Time is left out: a timer that is set may fire; a timer  *)
(* is a callback timer of Ctimer.tla.  MAC_TX_DEFERRED is left out as well *)
(* because nullrdc.c does not report it.                                   *)
(***************************************************************************)
EXTENDS Naturals, Sequences, FiniteSets, SequencesExt

CONSTANTS
  Addr,           \* receivers
  NumNeighbors,   \* CSMA_MAX_NEIGHBOR_QUEUES
  NumPackets,     \* MAX_QUEUED_PACKETS
  PerNeighbor,    \* CSMA_MAX_PACKET_PER_NEIGHBOR
  NumQueuebufs,   \* QUEUEBUF_NUM
  NumSeqno,       \* 2^16: sequence numbers are uint16_t
  MaxTx,          \* the max_transmissions that packets are given
  MAX_BACKOFF,    \* CSMA_MAX_BACKOFF
  WithAcks,       \* PACKETBUF_WITH_PACKET_TYPE
  NULL            \* the null pointer

Block == 1..NumNeighbors        \* neighbor_memb, in the order of memb_alloc
Seqno == 1..(NumSeqno - 1)
MIN_BE == 0                     \* CSMA_MIN_BE
Pool == {"packet", "metadata", "queuebuf"}
Size == [packet |-> NumPackets, metadata |-> NumPackets, queuebuf |-> NumQueuebufs]

ASSUME CsmaAssumption ==
  /\ NumNeighbors \in Nat \ {0} /\ NumPackets \in Nat \ {0}
  /\ PerNeighbor \in Nat \ {0} /\ NumQueuebufs \in Nat \ {0}
  /\ MaxTx \subseteq Nat \ {0} /\ MAX_BACKOFF \in Nat
  /\ NumSeqno \in Nat /\ NumSeqno > NumPackets + 1
  /\ WithAcks \in BOOLEAN /\ NULL \notin Seqno

VARIABLES
  neighbor_memb,   \* the blocks of the pool that are taken
  neighbor_list,   \* the neighbours' blocks that are listed
  neighbor,        \* the contents of a block that is taken
  used,            \* the blocks taken of each other pool, by this module
  others,          \* the queuebufs that other modules hold
  transmit_timer,  \* the neighbours whose timer is set
  seqno,           \* the counter of send_packet
  call             \* where the call of transmit_packet_list is

vars == <<neighbor_memb, neighbor_list, neighbor, used, others, transmit_timer,
          seqno, call>>

Idle == [at |-> "idle"]

\* attempts is auxiliary: how often the packet has been sent.
Packet == [seqno: Seqno, ack: BOOLEAN, max_transmissions: MaxTx, attempts: Nat]
Neighbor == [addr: Addr, queue: Seq(Packet), transmissions: Nat, collisions: Nat]
Result == {"OK", "NOACK", "COLLISION", "ERR"}
Call == {Idle} \cup [at: {"radio"}, n: Block, seqno: Seqno]
               \cup [at: {"sent"}, n: Block, packet: Packet, status: Result,
                     next: Seqno \cup {NULL}]

CsmaTypeOK ==
  /\ neighbor_memb \subseteq Block /\ neighbor_list \subseteq Block
  /\ neighbor \in [Block -> Neighbor \cup {NULL}]
  /\ used \in [Pool -> Nat] /\ others \in 0..NumQueuebufs
  /\ transmit_timer \subseteq Block
  /\ seqno \in 0..(NumSeqno - 1)
  /\ call \in Call

CsmaInit ==
  /\ neighbor_memb = {} /\ neighbor_list = {} /\ neighbor = [b \in Block |-> NULL]
  /\ used = [k \in Pool |-> 0] /\ others = 0
  /\ transmit_timer = {}
  /\ seqno \in 0..(NumSeqno - 1)      \* random_rand()
  /\ call = Idle

----------------------------------------------------------------------------
(* Queues *)

Seqnos(s) == {s[i].seqno : i \in DOMAIN s}
Queued(b) == Seqnos(neighbor[b].queue)
PositionOf(b, q) == CHOOSE i \in DOMAIN neighbor[b].queue :
                      neighbor[b].queue[i].seqno = q
PacketOf(b, q) == neighbor[b].queue[PositionOf(b, q)]

\* buf_list->next, kept before the packet is reported.  send_list goes on only
\* after a success.
NextAfterAny(b, q, r) == LET i == PositionOf(b, q) IN
  IF i < Len(neighbor[b].queue) THEN neighbor[b].queue[i + 1].seqno ELSE NULL
GoesOnWith(b, q, r) == IF r = "OK" THEN NextAfterAny(b, q, r) ELSE NULL

SendNext(b, q) == IF q = NULL THEN Idle ELSE [at |-> "radio", n |-> b, seqno |-> q]

----------------------------------------------------------------------------
(* send_packet *)

\* The sequence number that the packet gets.  Zero is skipped.
NewSeqno == IF seqno = 0 THEN 1 ELSE seqno

\* A bound: less than NumSeqno packets are sent while a packet is queued.
NotInUse == \A b \in neighbor_list : NewSeqno \notin Queued(b)

NewNeighbor(a) == [addr |-> a, queue |-> <<>>, transmissions |-> 0, collisions |-> MIN_BE]
Known(a) == {b \in neighbor_list : neighbor[b].addr = a}
FreeBlocks == Block \ neighbor_memb

\* The entry of the address: the listed one, or the first block that is free.
HasEntry(a) == Known(a) \cup FreeBlocks # {}
EntryBlock(a) == IF Known(a) # {} THEN CHOOSE b \in Known(a) : TRUE
                 ELSE CHOOSE b \in FreeBlocks : \A d \in FreeBlocks : b <= d
Entry(a) == IF Known(a) # {} THEN neighbor[EntryBlock(a)] ELSE NewNeighbor(a)
HasRoom(a) == Len(Entry(a).queue) < PerNeighbor

Full(k) == used[k] + (IF k = "queuebuf" THEN others ELSE 0) = Size[k]

\* The pools are asked in this order, up to the first that is full; what was
\* taken is given back when one of them is.
Taken == CASE Full("packet") -> {}
           [] ~Full("packet") /\ Full("metadata") -> {"packet"}
           [] ~Full("packet") /\ ~Full("metadata") /\ Full("queuebuf")
                -> {"packet", "metadata"}
           [] OTHER -> Pool
GivesAllBut(taken) == taken \ {"metadata"}
GivesBack(taken) == taken

Change(up, down) ==
  [k \in Pool |-> used[k] + (IF k \in up THEN 1 ELSE 0) - (IF k \in down THEN 1 ELSE 0)]

\* list_push for an acknowledgement, list_add for any other packet.
Enqueue(queue, p) == IF p.ack THEN <<p>> \o queue ELSE Append(queue, p)

\* The timer is set when the packet is the first of its queue.
SetTimerIfOthers(b, p) ==
  IF b \in neighbor_list THEN transmit_timer \cup {b} ELSE transmit_timer
SetTimerIfFirst(b, p) ==
  IF p.ack \/ b \notin neighbor_list \/ neighbor[b].queue = <<>>
  THEN transmit_timer \cup {b} ELSE transmit_timer

Accepted(a) == HasEntry(a) /\ HasRoom(a) /\ Taken = Pool

Accept(a, p) == LET b == EntryBlock(a) IN
  /\ Accepted(a)
  /\ used' = Change(Pool, {})
  /\ neighbor_memb' = neighbor_memb \cup {b}
  /\ neighbor_list' = neighbor_list \cup {b}
  /\ neighbor' = [neighbor EXCEPT ![b] =
                    [Entry(a) EXCEPT !.queue = Enqueue(Entry(a).queue, p)]]
  /\ transmit_timer' = SetTimerIfFirst(b, p)

\* The packet is answered MAC_TX_ERR before send_packet returns.  A neighbour
\* that was allocated for it is freed again; none that is listed has no packet.
Reject(a) ==
  /\ ~Accepted(a)
  /\ used' = IF HasEntry(a) /\ HasRoom(a) THEN Change(Taken, GivesBack(Taken)) ELSE used
  /\ UNCHANGED <<neighbor_memb, neighbor_list, neighbor, transmit_timer>>

\* The upper layer sends from its own processes and from its callbacks.
SendPacket(a, ack, max) ==
  /\ call.at # "radio" /\ NotInUse
  /\ LET p == [seqno |-> NewSeqno, ack |-> ack, max_transmissions |-> max, attempts |-> 0]
     IN Accept(a, p) \/ Reject(a)
  /\ seqno' = (NewSeqno + 1) % NumSeqno
  /\ UNCHANGED <<others, call>>

----------------------------------------------------------------------------
(* Transmission and its results *)

\* The timer of a neighbour fires: send_list starts with its first packet.
TransmitPacketList(b) ==
  /\ call = Idle /\ b \in transmit_timer
  /\ transmit_timer' = transmit_timer \ {b}
  /\ call' = SendNext(b, IF neighbor[b].queue = <<>> THEN NULL
                         ELSE neighbor[b].queue[1].seqno)
  /\ UNCHANGED <<neighbor_memb, neighbor_list, neighbor, used, others, seqno>>

AlmostEmpty(rest) == Len(rest) <= 1
IsEmpty(rest) == rest = <<>>

\* The neighbour's counters are those of the packet at the head of its queue.
KeepsCounters(n, rest) == [n EXCEPT !.queue = rest]
StartsAfresh(n, rest) ==
  [n EXCEPT !.queue = rest, !.transmissions = 0, !.collisions = MIN_BE]

\* free_packet, where n is the neighbour with its counters.
FreePacket(b, n, q) ==
  LET rest == RemoveAt(n.queue, PositionOf(b, q)) IN
  /\ used' = Change({}, Pool)
  /\ IF ~IsEmpty(rest)
     THEN /\ neighbor' = [neighbor EXCEPT ![b] = StartsAfresh(n, rest)]
          /\ transmit_timer' = transmit_timer \cup {b}
          /\ UNCHANGED <<neighbor_memb, neighbor_list>>
     ELSE /\ neighbor' = [neighbor EXCEPT ![b] = NULL]
          /\ transmit_timer' = transmit_timer \ {b}
          /\ neighbor_memb' = neighbor_memb \ {b}
          /\ neighbor_list' = neighbor_list \ {b}

\* The packet as it is after one more attempt; counted up to its maximum.
Tried(p) == [p EXCEPT !.attempts = IF @ < p.max_transmissions THEN @ + 1 ELSE @]

\* tx_done: the packet is freed, then its callback called.
TxDone(b, n, q, status) ==
  /\ FreePacket(b, n, q)
  /\ call' = [at |-> "sent", n |-> b, packet |-> Tried(PacketOf(b, q)),
              status |-> status, next |-> GoesOnWith(b, q, status)]

Rexmit(b, n, q, status) ==
  /\ neighbor' = [neighbor EXCEPT ![b] =
       [n EXCEPT !.queue[PositionOf(b, q)] = Tried(@)]]
  /\ transmit_timer' = transmit_timer \cup {b}
  /\ call' = SendNext(b, GoesOnWith(b, q, status))
  /\ UNCHANGED <<neighbor_memb, neighbor_list, used>>

\* The packet is given up when the neighbour has used the packet's attempts.
RetryOrGiveUp(b, n, q, status) ==
  IF n.transmissions >= PacketOf(b, q).max_transmissions
  THEN TxDone(b, n, q, status)
  ELSE Rexmit(b, n, q, status)

AfterNoack(n) == [n EXCEPT !.collisions = MIN_BE, !.transmissions = @ + 1]
NeverCounts(n) ==
  [n EXCEPT !.collisions = IF @ + 1 > MAX_BACKOFF THEN MIN_BE ELSE @ + 1]
AfterCollision(n) ==
  IF n.collisions + 1 > MAX_BACKOFF
  THEN [n EXCEPT !.collisions = MIN_BE, !.transmissions = @ + 1]
  ELSE [n EXCEPT !.collisions = @ + 1]

\* The radio has sent the packet, or not, and packet_sent is told.
PacketSent(r) ==
  /\ call.at = "radio"
  /\ LET b == call.n
         q == call.seqno
         n == neighbor[b]
     IN \/ r = "NOACK" /\ RetryOrGiveUp(b, AfterNoack(n), q, r)
        \/ r = "COLLISION" /\ RetryOrGiveUp(b, AfterCollision(n), q, r)
        \/ r \in {"OK", "ERR"} /\ TxDone(b, n, q, r)
  /\ UNCHANGED <<others, seqno>>

\* The callback returns to send_list.
CallbackReturns ==
  /\ call.at = "sent"
  /\ call' = SendNext(call.n, call.next)
  /\ UNCHANGED <<neighbor_memb, neighbor_list, neighbor, used, others,
                 transmit_timer, seqno>>

\* Other modules allocate and free queuebufs.
OthersTake == /\ call.at # "radio"
              /\ ~Full("queuebuf")
              /\ others' = others + 1
OthersFree == /\ call.at # "radio"
              /\ others > 0
              /\ others' = others - 1
Others == /\ OthersTake \/ OthersFree
          /\ UNCHANGED <<neighbor_memb, neighbor_list, neighbor, used,
                         transmit_timer, seqno, call>>

CsmaNext ==
  \/ \E a \in Addr, ack \in (IF WithAcks THEN BOOLEAN ELSE {FALSE}), max \in MaxTx :
       SendPacket(a, ack, max)
  \/ \E b \in Block : TransmitPacketList(b)
  \/ \E r \in Result : PacketSent(r)
  \/ CallbackReturns
  \/ Others

CsmaSpec == CsmaInit /\ [][CsmaNext]_vars

\* Radios answer and callbacks return; a timer that is set fires although the
\* process of the timers is kept waiting by others.
CsmaFairSpec ==
  /\ CsmaSpec
  /\ WF_vars(\E r \in Result : PacketSent(r))
  /\ WF_vars(CallbackReturns)
  /\ \A b \in Block : SF_vars(TransmitPacketList(b))

----------------------------------------------------------------------------
(* Properties *)

(* The state is well typed, with no sequence number zero in a queue.       *)
(* Every failure of send_packet half-way, every packet that is freed and   *)
(* every neighbour that goes with its last packet give back exactly what   *)
(* was taken: the blocks in use are those of the packets in the queues,    *)
(* a neighbour is listed once, and only while it has a packet.             *)
PoolsBalance ==
  /\ CsmaTypeOK
  /\ \A k \in Pool :
       used[k] = Cardinality({s \in neighbor_list \X Seqno : s[2] \in Queued(s[1])})
  /\ neighbor_memb = neighbor_list
  /\ \A b \in neighbor_list :
       /\ neighbor[b].queue # <<>>
       /\ \A d \in neighbor_list : neighbor[b].addr = neighbor[d].addr => b = d

(* A neighbour with packets is never left without a timer, unless one of   *)
(* its packets is in the radio: nothing else would send the others.  And   *)
(* no timer is left behind on a neighbour that has been freed, which the   *)
(* timer's function would read.                                            *)
NeverStuck ==
  /\ transmit_timer \subseteq neighbor_list
  /\ \A b \in neighbor_list :
       b \in transmit_timer \/ (call.at = "radio" /\ call.n = b)

(* What send_list kept before it reported a packet is alive when it is     *)
(* used: the next packet is still in the queue of the neighbour that       *)
(* packet_sent will be given, although the callback in between may have    *)
(* sent packets and got the blocks that were freed.                        *)
NextIsAlive ==
  LET Alive(b, q) == b \in neighbor_list /\ q \in Queued(b) IN
  /\ call.at = "radio" => Alive(call.n, call.seqno)
  /\ call.at = "sent" /\ call.next # NULL => Alive(call.n, call.next)

(* A data packet is given up as not acknowledged or collided only when it  *)
(* has itself been sent max_transmissions times, although the attempts are *)
(* counted per neighbour, across packets and acknowledgements that pass it.*)
FullAttempts ==
  call.at = "sent" /\ call.status \in {"NOACK", "COLLISION"} /\ ~call.packet.ack
    => call.packet.attempts = call.packet.max_transmissions

(* Every packet that send_packet has taken is answered by one callback, in *)
(* the order in which the data packets to its receiver were sent: the MAC  *)
(* implements MacService.                                                  *)
Letter == [seqno: Seqno, ack: BOOLEAN]
LetterOf(p) == [seqno |-> p.seqno, ack |-> p.ack]
Pending == [a \in Addr |->
  IF Known(a) = {} THEN <<>>
  ELSE LET queue == neighbor[EntryBlock(a)].queue
       IN [i \in DOMAIN queue |-> LetterOf(queue[i])]]
Answering == IF call.at = "sent"
             THEN [packet |-> LetterOf(call.packet), status |-> call.status] ELSE Idle

Service == INSTANCE MacService WITH Status <- Result, Nobody <- Idle,
                                    pending <- Pending, answering <- Answering
ImplementsService == Service!Spec

(* Retries end: unless acknowledgements keep passing it, every packet that *)
(* is queued leaves its queue, however the results of its attempts mix.    *)
IsQueued(q) == \E b \in neighbor_list : q \in Queued(b)
AckSent == \E b \in Block :
  b \in neighbor_list' /\ neighbor'[b].queue[1].ack
    /\ (b \in neighbor_list => neighbor'[b].queue[1].seqno \notin Queued(b))
EveryPacketAnswered ==
  <>[][~AckSent]_vars => \A q \in Seqno : IsQueued(q) ~> ~IsQueued(q)

=============================================================================
